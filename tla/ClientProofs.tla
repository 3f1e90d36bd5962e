----------------------------- MODULE ClientProofs -----------------------------
(***************************************************************************)
(* What is proved of the client side, for every value of the constants:    *)
(* the invariants the run checks, and that a command that was agreed to    *)
(* kills no renewal.                                                       *)
(*                                                                         *)
(* Every part has an invariant of its own, shown to hold at first, to be   *)
(* kept by the part's steps and left alone by the others'; the last        *)
(* section puts the eleven together.                                       *)
(***************************************************************************)
EXTENDS MCClient, FiniteSetTheorems, SequenceTheorems, WellFoundedInduction, TLAPS

\* A set of naturals that is not empty has a least member.
LEMMA LeastNat ==
  ASSUME NEW T, T \subseteq Nat, T # {} PROVE \E n \in T : \A m \in T : n <= m
<1> DEFINE R == {p \in Nat \X Nat : p[1] < p[2]}
<1>1. IsWellFoundedOn(R, Nat)
  BY NatLessThanWellFounded, Zenon DEF OpToRel
<1>2. PICK n \in T : \A m \in T : ~(<<m, n>> \in R)
  <2> HIDE DEF R
  <2> QED BY <1>1, WFMin
<1>3. ASSUME NEW m \in T PROVE n <= m
  <2>1. m \in Nat /\ n \in Nat /\ <<m, n>> \notin R
    BY <1>2
  <2>2. ~(m < n)
    BY <2>1
  <2> HIDE DEF R
  <2> QED BY <2>1, <2>2
<1> QED BY <1>3

\* A set that holds 0 and with every natural its successor holds them all.
LEMMA SetInduction ==
  ASSUME NEW P, 0 \in P, \A n \in Nat : n \in P => n + 1 \in P PROVE Nat \subseteq P
<1> SUFFICES ASSUME Nat \ P # {} PROVE FALSE
  OBVIOUS
<1>1. PICK n \in Nat \ P : \A m \in Nat \ P : n <= m
  BY LeastNat
<1>2. n # 0 /\ n - 1 \in Nat
  BY <1>1
<1>3. n - 1 \in P
  BY <1>1, <1>2
<1> QED BY <1>1, <1>2, <1>3, (n - 1) + 1 = n

\* A set of naturals that is bounded and not empty has a greatest member.
LEMMA GreatestNat ==
  ASSUME NEW S, S \subseteq Nat, S # {}, NEW b \in Nat, \A y \in S : y <= b
  PROVE  \E m \in S : \A y \in S : y <= m
<1> DEFINE B == {m \in Nat : \A y \in S : y <= m}
<1>1. PICK m \in B : \A n \in B : m <= n
  <2>1. b \in B /\ B \subseteq Nat
    OBVIOUS
  <2> HIDE DEF B
  <2> QED BY <2>1, LeastNat
<1>2. m \in S
  <2> SUFFICES ASSUME m \notin S PROVE FALSE
    OBVIOUS
  <2>1. \A y \in S : y < m
    BY <1>1
  <2>2. m # 0
    <3>1. PICK y \in S : TRUE
      OBVIOUS
    <3> QED BY <1>1, <2>1, <3>1
  <2>3. m - 1 \in B
    BY <1>1, <2>1, <2>2
  <2>4. m <= m - 1
    BY <1>1, <2>3
  <2> QED BY <1>1, <2>4
<1> QED BY <1>1, <1>2

-----------------------------------------------------------------------------
\* The port for scripts.

\* The connections that have yet to present the secret.
Strangers == {s \in Scripts : script[s].at \in {"first", "promote"}}

\* The connections that count as scripts.
Counted == {s \in Scripts : script[s].at \in Promoted \cup {"demote"}}

\* The connections that end.
Leaving == {s \in Scripts : script[s].at = "release"}

\* Serve wakes nobody before the port's end, and a request about to be sent names the port's instance.
PortInv ==
  /\ PortTypeOK /\ NobodySleepsOn /\ PlacesKeptApart /\ TokenStaysHome
  /\ woken => portEnded
  /\ \A s \in Scripts : script[s].at = "send" => script[s].url = EnabledFor

\* Nobody is connected.
LEMMA PortInitInv == PortInit => PortInv
<1> SUFFICES ASSUME PortInit PROVE PortInv
  OBVIOUS
<1> USE PortAssumption DEF PortInit
<1>1. Strangers = {} /\ Counted = {}
  BY DEF Strangers, Counted, Promoted, Connected
<1>2. PlacesKeptApart
  BY <1>1, FS_EmptySet DEF Strangers, Counted, PlacesKeptApart
<1>3. served \in 0..MaxAutomationConns /\ bucket \in 0..Burst
  OBVIOUS
<1>4. script \in [Scripts -> [at : Connected \cup {"none", "demote", "release", "gone"},
                             url : ScriptInstances \cup {NoInstance}]]
  BY DEF Connected
<1> QED BY <1>2, <1>3, <1>4 DEF PortInv, PortTypeOK, NobodySleepsOn, TokenStaysHome

\* What is open and not counted bounds the strangers: what admit compares (Pending).
LEMMA StrangersPending ==
  ASSUME PortTypeOK, PlacesKeptApart
  PROVE  /\ Cardinality(Strangers) <= Pending /\ Pending \in Int /\ Cardinality(Strangers) \in Nat
         /\ IsFiniteSet(Strangers) /\ IsFiniteSet(Counted)
<1>1. IsFiniteSet(Strangers) /\ IsFiniteSet(Counted) /\ IsFiniteSet(Open)
  BY PortAssumption, FS_Subset DEF Strangers, Counted, Open
<1>2. Strangers \cup Counted \subseteq Open /\ Strangers \cap Counted = {}
  BY DEF Strangers, Counted, Open, Promoted, Connected
<1>3. IsFiniteSet(Strangers \cup Counted)
  BY <1>1, FS_Union
<1>4. Cardinality(Strangers \cup Counted) = Cardinality(Strangers) + Cardinality(Counted)
  <2>1. Cardinality(Strangers \cup Counted) =
        Cardinality(Strangers) + Cardinality(Counted) - Cardinality(Strangers \cap Counted)
    BY <1>1, FS_Union
  <2>2. Cardinality(Strangers \cap Counted) = 0
    BY <1>2, FS_EmptySet
  <2> QED BY <2>1, <2>2, <1>1, FS_CardinalityType
<1>5. Cardinality(Strangers \cup Counted) <= Cardinality(Open)
  BY <1>1, <1>2, FS_Subset
<1>6. Cardinality(Strangers) \in Nat /\ Cardinality(Counted) \in Nat /\ Cardinality(Open) \in Nat
  BY <1>1, FS_CardinalityType
<1>7. Cardinality(Counted) = served
  BY DEF PlacesKeptApart, Counted
<1> QED BY <1>1, <1>4, <1>5, <1>6, <1>7 DEF Pending

\* One connection goes from one label to another: what becomes of the two counts.
LEMMA PlacesMove ==
  ASSUME PortTypeOK, PlacesKeptApart, NEW s \in Scripts, NEW label, NEW url,
         \A t \in Scripts : t # s => script'[t] = script[t],
         script'[s] = [at |-> label, url |-> url],
         \/ /\ label \in {"first", "promote"} => script[s].at \in {"first", "promote"} \/ Pending < maxPending
            /\ label \in Promoted \cup {"demote"} <=> script[s].at \in Promoted \cup {"demote"}
            /\ served' = served
         \/ label = "deadline" /\ script[s].at = "promote" /\ served' = served + 1
         \/ label = "release" /\ script[s].at = "demote" /\ served' = served - 1
  PROVE  PlacesKeptApart' /\ served' \in Nat
<1> USE DEF Promoted, Connected
<1>0. /\ IsFiniteSet(Strangers) /\ IsFiniteSet(Counted) /\ Cardinality(Strangers) \in Nat
      /\ Cardinality(Strangers) <= Pending /\ Pending \in Int
  BY StrangersPending
<1>1. served = Cardinality(Counted) /\ Cardinality(Strangers) <= maxPending /\ maxPending \in Nat /\ served \in Nat
  BY PortAssumption DEF PlacesKeptApart, Counted, Strangers, PortTypeOK
<1>2. Cardinality(Strangers') <= maxPending
  <2>1. CASE label \in {"first", "promote"}
    <3>1. CASE s \in Strangers
      <4>1. Strangers' = Strangers
        BY <2>1, <3>1 DEF Strangers
      <4> QED BY <4>1, <1>1
    <3>2. CASE s \notin Strangers
      <4>1. Strangers' = Strangers \cup {s}
        BY <2>1, <3>2 DEF Strangers
      <4>2. Pending < maxPending
        BY <2>1, <3>2 DEF Strangers
      <4>3. Cardinality(Strangers') = Cardinality(Strangers) + 1
        BY <4>1, <3>2, <1>0, FS_AddElement
      <4> QED BY <4>2, <4>3, <1>0, <1>1
    <3> QED BY <3>1, <3>2
  <2>2. CASE label \notin {"first", "promote"}
    <3>1. Strangers' \subseteq Strangers
      BY <2>2 DEF Strangers
    <3>2. Cardinality(Strangers') <= Cardinality(Strangers) /\ Cardinality(Strangers') \in Nat
      BY <3>1, <1>0, FS_Subset, FS_CardinalityType
    <3> QED BY <3>2, <1>0, <1>1
  <2> QED BY <2>1, <2>2
<1>3. Cardinality(Counted') = served' /\ served' \in Nat
  <2>1. CASE (label \in Promoted \cup {"demote"} <=> script[s].at \in Promoted \cup {"demote"}) /\ served' = served
    <3>1. Counted' = Counted
      BY <2>1 DEF Counted
    <3> QED BY <2>1, <3>1, <1>1
  <2>2. CASE label = "deadline" /\ script[s].at = "promote" /\ served' = served + 1
    <3>1. Counted' = Counted \cup {s} /\ s \notin Counted
      BY <2>2 DEF Counted
    <3>2. Cardinality(Counted') = Cardinality(Counted) + 1
      BY <3>1, <1>0, FS_AddElement
    <3> QED BY <2>2, <3>2, <1>1
  <2>3. CASE label = "release" /\ script[s].at = "demote" /\ served' = served - 1
    <3>1. Counted' = Counted \ {s} /\ s \in Counted
      BY <2>3 DEF Counted
    <3>2. Cardinality(Counted') = Cardinality(Counted) - 1 /\ Cardinality(Counted') \in Nat
      BY <3>1, <1>0, FS_RemoveElement, FS_CardinalityType
    <3> QED BY <2>3, <3>2, <1>1
  <2> QED BY <2>1, <2>2, <2>3
<1> QED BY <1>2, <1>3 DEF PlacesKeptApart, Strangers, Counted

\* The counts move with the labels, a deadline set anew is followed by the question whether the port is
\* closing, and the instance is compared before each send.
LEMMA PortStepInv == PortInv /\ PortNext => PortInv'
<1> SUFFICES ASSUME PortInv, PortNext PROVE PortInv'
  OBVIOUS
<1> USE PortAssumption DEF PortInv, PortTypeOK, NobodySleepsOn, TokenStaysHome, Connected, Promoted, Move
<1>a. ASSUME UNCHANGED <<script, served>> PROVE PlacesKeptApart'
  BY <1>a DEF PlacesKeptApart
<1>1. CASE EndPort \/ WakeScripts \/ Refill
  <2>1. CASE EndPort
    BY <2>1, <1>a DEF EndPort
  <2>2. CASE WakeScripts
    <3>1. \A s \in Scripts : script[s].at \in {"first", "next"} => readUntil'[s] = "past"
      BY <2>2 DEF WakeScripts, Open
    <3>2. readUntil' \in [Scripts -> {"ahead", "past"}]
      BY <2>2 DEF WakeScripts
    <3> QED BY <2>2, <3>1, <3>2, <1>a DEF WakeScripts
  <2>3. CASE Refill
    BY <2>3, <1>a DEF Refill
  <2> QED BY <1>1, <2>1, <2>2, <2>3
<1>2. ASSUME NEW i \in ScriptInstances \cup {NoInstance}, SignInMoves(i) PROVE PortInv'
  BY <1>2, <1>a DEF SignInMoves
<1>3. ASSUME NEW s \in Scripts, AcceptScript(s) PROVE PortInv'
  <2> DEFINE label == IF Pending >= maxPending THEN "gone" ELSE "first"
  <2>1. Pending \in Int
    BY StrangersPending
  <2>2. script' = [script EXCEPT ![s].at = label] /\ served' = served
    BY <1>3 DEF AcceptScript
  <2>3. label \in {"gone", "first"} /\ (label = "first" => Pending < maxPending) /\ script[s].at = "none"
    BY <1>3, <2>1 DEF AcceptScript
  <2> HIDE DEF label
  <2>4. PlacesKeptApart'
    BY <2>2, <2>3, PlacesMove
  <2> QED BY <1>3, <2>2, <2>3, <2>4 DEF AcceptScript
<1>4. ASSUME NEW s \in Scripts, NEW right \in BOOLEAN, PresentSecret(s, right) PROVE PortInv'
  <2>1. script[s].at = "first" /\ served' = served /\ \E l \in {"promote", "release"} : script' = [script EXCEPT ![s].at = l]
    BY <1>4 DEF PresentSecret
  <2>2. PlacesKeptApart'
    BY <2>1, PlacesMove
  <2> QED BY <1>4, <2>1, <2>2 DEF PresentSecret
<1>5. ASSUME NEW s \in Scripts, Promote(s) PROVE PortInv'
  <2>1. /\ script[s].at = "promote"
        /\ \/ script' = [script EXCEPT ![s].at = "release"] /\ served' = served
           \/ script' = [script EXCEPT ![s].at = "deadline"] /\ served' = served + 1 /\ served < MaxAutomationConns
    BY <1>5 DEF Promote
  <2>2. PlacesKeptApart'
    BY <2>1, PlacesMove
  <2> QED BY <1>5, <2>1, <2>2 DEF Promote
<1>6. ASSUME NEW s \in Scripts, SetReadDeadline(s) \/ AskWhetherClosing(s) \/ ReadRequest(s) \/ RefuseRequest(s) PROVE PortInv'
  <2>1. /\ served' = served /\ script[s].at \in {"deadline", "ask", "next", "request"}
        /\ \E l \in {"deadline", "ask", "demote", "next", "request"} : script' = [script EXCEPT ![s].at = l]
    BY <1>6 DEF SetReadDeadline, AskWhetherClosing, ReadRequest, RefuseRequest
  <2>2. PlacesKeptApart'
    BY <2>1, PlacesMove
  <2> QED BY <1>6, <2>1, <2>2 DEF SetReadDeadline, AskWhetherClosing, ReadRequest, RefuseRequest
<1>7. ASSUME NEW s \in Scripts, EndsConversation(s) PROVE PortInv'
  <2>1. /\ served' = served /\ script[s].at \in {"first", "deadline", "next", "request"}
        /\ script' = [script EXCEPT ![s].at = IF script[s].at = "first" THEN "release" ELSE "demote"]
    BY <1>7 DEF EndsConversation
  <2>2. PlacesKeptApart'
    BY <2>1, PlacesMove
  <2> QED BY <1>7, <2>1, <2>2 DEF EndsConversation
<1>8. ASSUME NEW s \in Scripts, NameInstance(s) PROVE PortInv'
  <2>1. /\ served' = served /\ script[s].at = "request"
        /\ script' = [script EXCEPT ![s] = [at |-> "send", url |-> signedInAt]]
    BY <1>8 DEF NameInstance
  <2>2. PlacesKeptApart'
    BY <2>1, PlacesMove
  <2> QED BY <1>8, <2>1, <2>2 DEF NameInstance
<1>9. ASSUME NEW s \in Scripts, SendWithScriptsToken(s) PROVE PortInv'
  <2>1. /\ served' = served /\ script[s].at = "send"
        /\ script' = [script EXCEPT ![s] = [at |-> "deadline", url |-> NoInstance]]
    BY <1>9 DEF SendWithScriptsToken
  <2>2. PlacesKeptApart'
    BY <2>1, PlacesMove
  <2> QED BY <1>9, <2>1, <2>2 DEF SendWithScriptsToken
<1>10. ASSUME NEW s \in Scripts, Demote(s) PROVE PortInv'
  <2>1. served' = served - 1 /\ script[s].at = "demote" /\ script' = [script EXCEPT ![s].at = "release"]
    BY <1>10 DEF Demote
  <2>2. PlacesKeptApart' /\ served' \in Nat
    BY <2>1, PlacesMove
  <2> QED BY <1>10, <2>1, <2>2 DEF Demote
<1>11. ASSUME NEW s \in Scripts, ReleaseScript(s) PROVE PortInv'
  <2>1. /\ served' = served /\ script[s].at = "release"
        /\ script' = [script EXCEPT ![s] = [at |-> "gone", url |-> NoInstance]]
    BY <1>11 DEF ReleaseScript
  <2>2. PlacesKeptApart'
    BY <2>1, PlacesMove
  <2> QED BY <1>11, <2>1, <2>2 DEF ReleaseScript
<1> QED BY <1>1, <1>2, <1>3, <1>4, <1>5, <1>6, <1>7, <1>8, <1>9, <1>10, <1>11 DEF PortNext

\* Steps of the other parts change nothing here.
LEMMA PortStutterInv == PortInv /\ UNCHANGED portVars => PortInv'
BY DEF PortInv, PortTypeOK, NobodySleepsOn, PlacesKeptApart, TokenStaysHome, Promoted, Connected, portVars

-----------------------------------------------------------------------------
\* Command-line logins.

\* A run's record.
LoginRecord ==
  [at : LoginStages, mode : Modes, device : Runs \cup {NoRun}, port : loopbackPorts \cup {NoPort},
   callback : Runs \cup {NoRun}, tries : 0..maxFactorAttempts, interval : 0..maxPollInterval,
   waited : 0..(Lifetime + maxPollInterval), flow : Runs \cup {NoRun}]

\* How far a run is tells what it holds: a run that waits has its port, one that owes a factor has a try
\* left, one that polls is within the code's time, and a session it has is of its own flow.
RunOK(x, r) ==
  /\ x.at = "waiting" => x.port \in loopbackPorts
  /\ x.at \in {"idle", "prepared", "waiting", "code", "polling"} => x.tries = 0
  /\ x.at = "owes" => x.tries < maxFactorAttempts
  /\ x.at \in {"idle", "prepared", "polling"} => x.waited <= Lifetime
  /\ x.at \in {"owes", "paired"} => x.flow = r

\* The invariant of the logins on one machine.
LoginInv ==
  /\ CliLoginTypeOK /\ OwnSignIn /\ run \in [Runs -> LoginRecord] /\ \A r \in Runs : RunOK(run[r], r)

\* Nobody has begun.
LEMMA LoginInitInv == CliLoginInit => LoginInv
<1> SUFFICES ASSUME CliLoginInit PROVE LoginInv
  OBVIOUS
<1> USE CliLoginAssumption DEF CliLoginInit
<1>1. Unstarted \in LoginRecord
  BY DEF Unstarted, LoginRecord, LoginStages, Modes
<1>2. run \in [Runs -> LoginRecord]
  BY <1>1
<1>3. \A r \in Runs : RunOK(run[r], r)
  BY DEF RunOK, Unstarted
<1>4. CliLoginTypeOK
  <2>1. \A r \in Runs : run[r] \in LoginRecord /\ run[r].waited = 0
    BY <1>2 DEF Unstarted
  <2> QED BY <2>1 DEF CliLoginTypeOK, LoginRecord
<1>5. OwnSignIn
  BY DEF OwnSignIn, Unstarted
<1> QED BY <1>2, <1>3, <1>4, <1>5 DEF LoginInv

\* A step of run r that leaves the machine alone, or adds an address or a spent code.
LEMMA LoginRunStep ==
  ASSUME LoginInv, NEW r \in Runs, NEW new \in LoginRecord, run' = [run EXCEPT ![r] = new],
         UNCHANGED <<deviceFile, savedBy, savedFlow>>,
         visited' \subseteq [port : loopbackPorts, code : Runs], spentCodes' \subseteq Runs,
         new.device = run[r].device,
         RunOK(new, r)
  PROVE  LoginInv'
<1>1. run' \in [Runs -> LoginRecord]
  BY DEF LoginInv
<1>2. ASSUME NEW q \in Runs PROVE RunOK(run'[q], q)
  <2>1. CASE q = r
    <3>1. run'[q] = new
      BY <2>1 DEF LoginInv
    <3> QED BY <3>1, <2>1
  <2>2. CASE q # r
    <3>1. run'[q] = run[q]
      BY <2>2 DEF LoginInv
    <3> QED BY <3>1 DEF RunOK, LoginInv
  <2> QED BY <2>1, <2>2
<1>3. CliLoginTypeOK'
  <2>1. {deviceFile, savedBy, savedFlow}' \subseteq Runs \cup {NoRun}
    BY DEF LoginInv, CliLoginTypeOK
  <2>2. /\ run' \in [Runs -> LoginRecord] /\ visited' \subseteq [port : loopbackPorts, code : Runs]
        /\ spentCodes' \subseteq Runs
    BY <1>1
  <2>3. \A q \in Runs : run'[q] \in LoginRecord
    BY <1>1
  <2>4. Lifetime \in Nat /\ maxPollInterval \in Nat
    BY CliLoginAssumption
  <2> QED BY <2>1, <2>2, <2>3, <2>4 DEF CliLoginTypeOK, LoginRecord
<1>4. OwnSignIn'
  <2>1. ASSUME NEW q \in Runs PROVE run'[q].device = run[q].device
    BY DEF LoginInv
  <2> QED BY <2>1 DEF LoginInv, OwnSignIn
<1> QED BY <1>1, <1>2, <1>3, <1>4 DEF LoginInv

\* The code exchanged is the run's own flow's, and the device id is made once.
LEMMA LoginStepInv == LoginInv /\ CliLoginNext => LoginInv'
<1> SUFFICES ASSUME LoginInv, NEW r \in Runs,
       \/ \E how \in Modes : Prepare(r, how)
       \/ \E port \in loopbackPorts : ListenLoopback(r, port)
       \/ \E slower \in BOOLEAN : PollPending(r, slower)
       \/ ChooseDeviceCode(r) \/ SignInWithPassword(r) \/ AllPortsBusy(r) \/ Redirect(r) \/ Callback(r)
       \/ ExchangeOAuth(r) \/ StartDeviceCode(r) \/ PollApproved(r)
       \/ WrongFactor(r) \/ RightFactor(r) \/ FinishLogin(r) \/ Fail(r)
     PROVE LoginInv'
  BY DEF CliLoginNext
<1> USE CliLoginAssumption DEF Is, Outside
<1>a. /\ run \in [Runs -> LoginRecord] /\ run[r] \in LoginRecord /\ RunOK(run[r], r)
      /\ visited \subseteq [port : loopbackPorts, code : Runs] /\ spentCodes \subseteq Runs
      /\ {deviceFile, savedBy, savedFlow} \subseteq Runs \cup {NoRun}
  BY DEF LoginInv, CliLoginTypeOK
<1>1. ASSUME NEW how \in Modes, Prepare(r, how) PROVE LoginInv'
  <2> DEFINE new == [run[r] EXCEPT !.at = "prepared", !.mode = how, !.device = deviceFile']
  <2>1. run' = [run EXCEPT ![r] = new] /\ run[r].at = "idle" /\ UNCHANGED <<visited, spentCodes, savedBy, savedFlow>>
    BY <1>1, <1>a DEF Prepare
  <2>2. deviceFile' \in Runs \cup {NoRun} /\ (deviceFile # NoRun => deviceFile' = deviceFile)
    BY <1>1, <1>a DEF Prepare
  <2>3. new \in LoginRecord
    BY <2>1, <2>2, <1>a DEF LoginRecord, LoginStages, Modes
  <2>4. run' \in [Runs -> LoginRecord]
    BY <2>1, <2>3, <1>a
  <2>5. ASSUME NEW q \in Runs PROVE RunOK(run'[q], q)
    BY <2>1, <1>a DEF RunOK, LoginInv
  <2>6. OwnSignIn'
    <3>1. ASSUME NEW q \in Runs PROVE run'[q].device \in {NoRun, deviceFile'}
      <4>1. CASE q = r
        BY <4>1, <2>1, <1>a DEF LoginRecord
      <4>2. CASE q # r
        BY <4>2, <2>1, <2>2, <1>a DEF LoginInv, OwnSignIn
      <4> QED BY <4>1, <4>2
    <3> QED BY <3>1, <2>1 DEF LoginInv, OwnSignIn
  <2>7. CliLoginTypeOK'
    <3>1. \A q \in Runs : run'[q] \in LoginRecord
      BY <2>4
    <3>2. Lifetime \in Nat /\ maxPollInterval \in Nat
      OBVIOUS
    <3>3. {deviceFile, savedBy, savedFlow}' \subseteq Runs \cup {NoRun}
      BY <2>1, <2>2, <1>a
    <3>4. visited' \subseteq [port : loopbackPorts, code : Runs] /\ spentCodes' \subseteq Runs
      BY <2>1, <2>2, <1>a
    <3> QED BY <3>1, <3>2, <3>3, <3>4 DEF CliLoginTypeOK, LoginRecord
  <2> QED BY <2>4, <2>5, <2>6, <2>7 DEF LoginInv
<1>2. ASSUME NEW port \in loopbackPorts, ListenLoopback(r, port) PROVE LoginInv'
  <2> DEFINE new == [run[r] EXCEPT !.at = "waiting", !.port = port]
  <2>1. new \in LoginRecord /\ run' = [run EXCEPT ![r] = new] /\ new.device = run[r].device
    BY <1>2, <1>a DEF ListenLoopback, LoginRecord, LoginStages
  <2>k. RunOK(new, r)
    BY <2>1, <1>2, <1>a DEF RunOK, LoginRecord, ListenLoopback
  <2>l. /\ UNCHANGED <<deviceFile, savedBy, savedFlow>> /\ spentCodes' \subseteq Runs
        /\ visited' \subseteq [port : loopbackPorts, code : Runs]
    BY <2>1, <1>2, <1>a DEF ListenLoopback
  <2> HIDE DEF new
  <2> QED BY <2>1, <1>2, <1>a, <2>k, <2>l, LoginRunStep
<1>3. ASSUME NEW slower \in BOOLEAN, PollPending(r, slower) PROVE LoginInv'
  <2> DEFINE waited == run[r].waited + run[r].interval
             interval == IF slower THEN SlowerBy(run[r].interval) ELSE run[r].interval
             at == IF waited > Lifetime THEN "failed" ELSE "polling"
             new == [run[r] EXCEPT !.waited = waited, !.at = at, !.interval = interval]
  <2>1. /\ run[r].interval \in 0..maxPollInterval /\ run[r].waited \in 0..(Lifetime + maxPollInterval)
        /\ run[r].waited <= Lifetime /\ run[r].tries = 0 /\ run[r].at = "polling"
    BY <1>3, <1>a DEF PollPending, LoginRecord, RunOK
  <2>2. waited \in 0..(Lifetime + maxPollInterval) /\ interval \in 0..maxPollInterval
    BY <2>1 DEF SlowerBy
  <2>3. at \in {"failed", "polling"} /\ (at = "polling" => waited <= Lifetime)
    BY <2>1
  <2>4. run' = [run EXCEPT ![r] = new]
    BY <1>3, <1>a DEF PollPending
  <2> HIDE DEF waited, interval, at
  <2>5. new \in LoginRecord /\ new.device = run[r].device
    BY <2>2, <2>3, <1>a DEF LoginRecord, LoginStages
  <2>k. RunOK(new, r)
    BY <2>1, <2>2, <2>3, <2>4, <2>5, <1>3, <1>a DEF RunOK, LoginRecord, PollPending
  <2>l. /\ UNCHANGED <<deviceFile, savedBy, savedFlow>> /\ spentCodes' \subseteq Runs
        /\ visited' \subseteq [port : loopbackPorts, code : Runs]
    BY <2>1, <2>2, <2>3, <2>4, <2>5, <1>3, <1>a DEF PollPending
  <2> HIDE DEF new
  <2> QED BY <2>1, <2>2, <2>3, <2>4, <2>5, <1>3, <1>a, <2>k, <2>l, LoginRunStep
<1>4. CASE ChooseDeviceCode(r)
  <2> DEFINE new == [run[r] EXCEPT !.mode = "device"]
  <2>1. new \in LoginRecord /\ run' = [run EXCEPT ![r] = new] /\ new.device = run[r].device
    BY <1>4, <1>a DEF ChooseDeviceCode, LoginRecord, Modes
  <2>k. RunOK(new, r)
    BY <2>1, <1>4, <1>a DEF RunOK, LoginRecord, ChooseDeviceCode
  <2>l. /\ UNCHANGED <<deviceFile, savedBy, savedFlow>> /\ spentCodes' \subseteq Runs
        /\ visited' \subseteq [port : loopbackPorts, code : Runs]
    BY <2>1, <1>4, <1>a DEF ChooseDeviceCode
  <2> HIDE DEF new
  <2> QED BY <2>1, <1>4, <1>a, <2>k, <2>l, LoginRunStep
<1>b. ASSUME SignedIn(r, r), run[r].tries = 0, visited' = visited, spentCodes' \subseteq Runs,
             UNCHANGED <<deviceFile, savedBy, savedFlow>>
      PROVE  LoginInv'
  <2>1. PICK reached \in {"paired", "owes"} :
          run' = [run EXCEPT ![r].at = reached, ![r].flow = r, ![r].port = NoPort, ![r].callback = NoRun]
    BY <1>b DEF SignedIn
  <2> DEFINE new == [run[r] EXCEPT !.at = reached, !.flow = r, !.port = NoPort, !.callback = NoRun]
  <2>2. new \in LoginRecord /\ run' = [run EXCEPT ![r] = new] /\ new.device = run[r].device
    BY <2>1, <1>a DEF LoginRecord, LoginStages
  <2>k. RunOK(new, r)
    BY <2>2, <1>b, <1>a DEF RunOK, LoginRecord
  <2>l. /\ UNCHANGED <<deviceFile, savedBy, savedFlow>> /\ spentCodes' \subseteq Runs
        /\ visited' \subseteq [port : loopbackPorts, code : Runs]
    BY <2>2, <1>b, <1>a
  <2> HIDE DEF new
  <2> QED BY <2>2, <1>b, <1>a, <2>k, <2>l, LoginRunStep
<1>5. CASE SignInWithPassword(r)
  BY <1>5, <1>a, <1>b DEF SignInWithPassword, RunOK
<1>c. ASSUME LoginTo(r, "failed"), visited' = visited, spentCodes' = spentCodes,
             UNCHANGED <<deviceFile, savedBy, savedFlow>>
      PROVE  LoginInv'
  <2> DEFINE new == [run[r] EXCEPT !.at = "failed", !.port = NoPort]
  <2>1. new \in LoginRecord /\ run' = [run EXCEPT ![r] = new] /\ new.device = run[r].device
    BY <1>c, <1>a DEF LoginTo, LoginRecord, LoginStages
  <2>k. RunOK(new, r)
    BY <2>1, <1>c, <1>a DEF RunOK, LoginRecord
  <2>l. /\ UNCHANGED <<deviceFile, savedBy, savedFlow>> /\ spentCodes' \subseteq Runs
        /\ visited' \subseteq [port : loopbackPorts, code : Runs]
    BY <2>1, <1>c, <1>a
  <2> HIDE DEF new
  <2> QED BY <2>1, <1>c, <1>a, <2>k, <2>l, LoginRunStep
<1>6. CASE AllPortsBusy(r) \/ Fail(r)
  BY <1>6, <1>c DEF AllPortsBusy, Fail
<1>7. CASE Redirect(r)
  <2>1. /\ run' = [run EXCEPT ![r] = run[r]] /\ run[r].port \in loopbackPorts
        /\ visited' = visited \cup {[port |-> run[r].port, code |-> r]}
    BY <1>7, <1>a DEF Redirect, RunOK
  <2>2. visited' \subseteq [port : loopbackPorts, code : Runs]
    BY <2>1, <1>a
  <2> QED BY <2>1, <2>2, <1>7, <1>a, LoginRunStep DEF Redirect
<1>8. CASE Callback(r)
  <2>1. PICK v \in visited : run' = [run EXCEPT ![r].at = "code", ![r].callback = v.code]
    BY <1>8 DEF Callback
  <2> DEFINE new == [run[r] EXCEPT !.at = "code", !.callback = v.code]
  <2>2. new \in LoginRecord /\ run' = [run EXCEPT ![r] = new] /\ new.device = run[r].device
    BY <2>1, <1>a DEF LoginRecord, LoginStages
  <2>k. RunOK(new, r)
    BY <2>2, <1>8, <1>a DEF RunOK, LoginRecord, Callback
  <2>l. /\ UNCHANGED <<deviceFile, savedBy, savedFlow>> /\ spentCodes' \subseteq Runs
        /\ visited' \subseteq [port : loopbackPorts, code : Runs]
    BY <2>2, <1>8, <1>a DEF Callback
  <2> HIDE DEF new
  <2> QED BY <2>2, <1>8, <1>a, <2>k, <2>l, LoginRunStep
<1>9. CASE ExchangeOAuth(r)
  <2>1. CASE Exchangeable(r)
    BY <2>1, <1>9, <1>a, <1>b DEF ExchangeOAuth, Exchangeable, RunOK
  <2>2. CASE ~Exchangeable(r)
    BY <2>2, <1>9, <1>c DEF ExchangeOAuth
  <2> QED BY <2>1, <2>2
<1>10. CASE StartDeviceCode(r)
  <2> DEFINE new == [run[r] EXCEPT !.at = "polling", !.interval = IntervalOf]
  <2>1. IntervalOf \in 0..maxPollInterval
    BY DEF IntervalOf
  <2>2. new \in LoginRecord /\ run' = [run EXCEPT ![r] = new] /\ new.device = run[r].device
    BY <2>1, <1>10, <1>a DEF StartDeviceCode, LoginRecord, LoginStages
  <2>k. RunOK(new, r)
    BY <2>2, <1>10, <1>a DEF RunOK, LoginRecord, StartDeviceCode
  <2>l. /\ UNCHANGED <<deviceFile, savedBy, savedFlow>> /\ spentCodes' \subseteq Runs
        /\ visited' \subseteq [port : loopbackPorts, code : Runs]
    BY <2>2, <1>10, <1>a DEF StartDeviceCode
  <2> HIDE DEF new
  <2> QED BY <2>2, <1>10, <1>a, <2>k, <2>l, LoginRunStep
<1>11. CASE PollApproved(r)
  <2> DEFINE new == [run[r] EXCEPT !.at = "paired", !.flow = r]
  <2>1. new \in LoginRecord /\ run' = [run EXCEPT ![r] = new] /\ new.device = run[r].device
    BY <1>11, <1>a DEF PollApproved, LoginRecord, LoginStages
  <2>k. RunOK(new, r)
    BY <2>1, <1>11, <1>a DEF RunOK, LoginRecord, PollApproved
  <2>l. /\ UNCHANGED <<deviceFile, savedBy, savedFlow>> /\ spentCodes' \subseteq Runs
        /\ visited' \subseteq [port : loopbackPorts, code : Runs]
    BY <2>1, <1>11, <1>a DEF PollApproved
  <2> HIDE DEF new
  <2> QED BY <2>1, <1>11, <1>a, <2>k, <2>l, LoginRunStep
<1>12. CASE WrongFactor(r)
  <2> DEFINE at == IF run[r].tries + 1 = maxFactorAttempts THEN "failed" ELSE "owes"
             new == [run[r] EXCEPT !.tries = run[r].tries + 1, !.at = at]
  <2>1. run[r].tries \in 0..maxFactorAttempts /\ run[r].tries < maxFactorAttempts /\ run[r].flow = r
    BY <1>12, <1>a DEF WrongFactor, RunOK, LoginRecord
  <2>2. /\ run[r].tries + 1 \in 0..maxFactorAttempts /\ at \in {"failed", "owes"}
        /\ at = "owes" => run[r].tries + 1 < maxFactorAttempts
    BY <2>1
  <2>3. run' = [run EXCEPT ![r] = new]
    BY <1>12, <1>a DEF WrongFactor
  <2> HIDE DEF at
  <2>4. new \in LoginRecord /\ new.device = run[r].device
    BY <2>2, <1>a DEF LoginRecord, LoginStages
  <2>k. RunOK(new, r)
    BY <2>1, <2>2, <2>3, <2>4, <1>12, <1>a DEF RunOK, LoginRecord, WrongFactor
  <2>l. /\ UNCHANGED <<deviceFile, savedBy, savedFlow>> /\ spentCodes' \subseteq Runs
        /\ visited' \subseteq [port : loopbackPorts, code : Runs]
    BY <2>1, <2>2, <2>3, <2>4, <1>12, <1>a DEF WrongFactor
  <2> HIDE DEF new
  <2> QED BY <2>1, <2>2, <2>3, <2>4, <1>12, <1>a, <2>k, <2>l, LoginRunStep
<1>13. CASE RightFactor(r)
  <2> DEFINE new == [run[r] EXCEPT !.at = "paired"]
  <2>1. new \in LoginRecord /\ run' = [run EXCEPT ![r] = new] /\ new.device = run[r].device
    BY <1>13, <1>a DEF RightFactor, LoginRecord, LoginStages
  <2>k. RunOK(new, r)
    BY <2>1, <1>13, <1>a DEF RunOK, LoginRecord, RightFactor
  <2>l. /\ UNCHANGED <<deviceFile, savedBy, savedFlow>> /\ spentCodes' \subseteq Runs
        /\ visited' \subseteq [port : loopbackPorts, code : Runs]
    BY <2>1, <1>13, <1>a DEF RightFactor
  <2> HIDE DEF new
  <2> QED BY <2>1, <1>13, <1>a, <2>k, <2>l, LoginRunStep
<1>14. CASE FinishLogin(r)
  <2> DEFINE new == [run[r] EXCEPT !.at = "saved"]
  <2>1. new \in LoginRecord /\ run' = [run EXCEPT ![r] = new] /\ savedBy' = r /\ savedFlow' = r
    BY <1>14, <1>a DEF FinishLogin, LoginRecord, LoginStages, RunOK
  <2>2. run' \in [Runs -> LoginRecord] /\ UNCHANGED <<visited, spentCodes, deviceFile>>
    BY <1>14, <2>1, <1>a DEF FinishLogin
  <2>3. \A q \in Runs : run'[q].device = run[q].device
    BY <2>1, <1>a
  <2>4. ASSUME NEW q \in Runs PROVE RunOK(run'[q], q)
    BY <2>1, <1>a DEF RunOK, LoginInv
  <2>5. CliLoginTypeOK'
    <3>1. \A q \in Runs : run'[q] \in LoginRecord
      BY <2>2
    <3>2. Lifetime \in Nat /\ maxPollInterval \in Nat
      OBVIOUS
    <3>3. {deviceFile, savedBy, savedFlow}' \subseteq Runs \cup {NoRun}
      BY <2>1, <2>2, <1>a
    <3>4. visited' \subseteq [port : loopbackPorts, code : Runs] /\ spentCodes' \subseteq Runs
      BY <2>1, <2>2, <1>a
    <3> QED BY <3>1, <3>2, <3>3, <3>4 DEF CliLoginTypeOK, LoginRecord
  <2> QED BY <2>1, <2>2, <2>3, <2>4, <2>5 DEF LoginInv, OwnSignIn
<1> QED BY <1>1, <1>2, <1>3, <1>4, <1>5, <1>6, <1>7, <1>8, <1>9, <1>10, <1>11, <1>12, <1>13, <1>14

\* Steps of the other parts change nothing here.
LEMMA LoginStutterInv == LoginInv /\ UNCHANGED loginVars => LoginInv'
BY DEF LoginInv, CliLoginTypeOK, OwnSignIn, RunOK, loginVars

-----------------------------------------------------------------------------
\* Relayed requests.

\* Two members that are always the same are one: how a count of at most one follows.
LEMMA AtMostOne ==
  ASSUME NEW S, \A x, y \in S : x = y PROVE Cardinality(S) <= 1
<1>1. CASE S = {}
  BY <1>1, FS_EmptySet
<1>2. CASE S # {}
  <2>1. PICK x \in S : TRUE
    BY <1>2
  <2>2. S = {x}
    BY <2>1
  <2> QED BY <2>2, FS_Singleton
<1> QED BY <1>1, <1>2

\* A relayed request, as the model keeps it.
RequestRecord == [at : {"none", "asking", "sending", "refused", "again", "answered"},
                  cred : Credentials, sentAs : SUBSET (0..MaxSignedIn)]

\* A request is sent as nobody before it has its credential, and is as the account it has a credential of
\* until it is answered.
SentAsOne(x) ==
  /\ \A g, h \in x.sentAs : g = h
  /\ x.at \in {"none", "asking", "sending"} => x.sentAs = {}
  /\ x.at \in {"refused", "again"} => x.sentAs \subseteq {x.cred.gen}

\* The invariant of the relay.
RelayInv ==
  /\ named \in Credentials /\ accepted \in BOOLEAN /\ stale \in BOOLEAN /\ attached \in BOOLEAN
  /\ inflight \subseteq RequestIds /\ IsFiniteSet(inflight) /\ Cardinality(inflight) <= MaxInFlight
  /\ request \in [RequestIds -> RequestRecord] /\ \A q \in RequestIds : SentAsOne(request[q])

\* No request was made.
LEMMA RelayInitInv == RelayInit => RelayInv
<1> SUFFICES ASSUME RelayInit PROVE RelayInv
  OBVIOUS
<1> USE RelayAssumption DEF RelayInit
<1>1. NoCredential \in Credentials
  BY DEF NoCredential, Credentials
<1>2. NoRequest \in RequestRecord /\ SentAsOne(NoRequest)
  BY <1>1 DEF NoRequest, RequestRecord, SentAsOne
<1>3. IsFiniteSet({}) /\ Cardinality({}) = 0
  BY FS_EmptySet
<1>4. inflight = {} /\ Cardinality(inflight) <= MaxInFlight
  BY <1>3
<1> QED BY <1>1, <1>2, <1>3, <1>4 DEF RelayInv

\* A request answered is one less in flight.
LEMMA FewerInFlight ==
  ASSUME RelayInv, NEW q
  PROVE  /\ inflight \ {q} \subseteq RequestIds /\ IsFiniteSet(inflight \ {q})
         /\ Cardinality(inflight \ {q}) <= MaxInFlight
<1>1. IsFiniteSet(inflight \ {q}) /\ Cardinality(inflight \ {q}) <= Cardinality(inflight)
  BY FS_Subset DEF RelayInv
<1>2. Cardinality(inflight) \in Nat /\ Cardinality(inflight \ {q}) \in Nat /\ MaxInFlight \in Nat
  BY <1>1, FS_CardinalityType, RelayAssumption DEF RelayInv
<1> QED BY <1>1, <1>2 DEF RelayInv

\* A renewed credential is taken only of the sign-in the request was sent as (SendsAgain).
LEMMA RelayStepInv == RelayInv /\ RelayNext => RelayInv'
<1> SUFFICES ASSUME RelayInv, RelayNext PROVE RelayInv'
  OBVIOUS
<1> USE RelayAssumption
<1>0. /\ named \in Credentials /\ accepted \in BOOLEAN /\ stale \in BOOLEAN /\ attached \in BOOLEAN
      /\ inflight \subseteq RequestIds /\ IsFiniteSet(inflight) /\ Cardinality(inflight) <= MaxInFlight
      /\ request \in [RequestIds -> RequestRecord] /\ \A q \in RequestIds : SentAsOne(request[q])
  BY DEF RelayInv
<1>1. CASE SignInAgain \/ SignOutOfSession \/ RenewToken \/ Unaccept \/ KillConnection
  <2>1. named' \in Credentials
    BY <1>0, <1>1 DEF SignInAgain, SignOutOfSession, RenewToken, Unaccept, KillConnection, Credentials, NoCredential
  <2>2. accepted' \in BOOLEAN /\ stale' \in BOOLEAN /\ attached' \in BOOLEAN /\ UNCHANGED <<inflight, request>>
    BY <1>0, <1>1 DEF SignInAgain, SignOutOfSession, RenewToken, Unaccept, KillConnection
  <2> QED BY <1>0, <2>1, <2>2 DEF RelayInv
<1>a. ASSUME NEW q \in RequestIds, NEW new \in RequestRecord, SentAsOne(new),
             request' = [request EXCEPT ![q] = new], UNCHANGED <<named, accepted, attached>>,
             stale' \in BOOLEAN, inflight' \in {inflight, inflight \ {q}}
      PROVE  RelayInv'
  <2>1. request' \in [RequestIds -> RequestRecord] /\ \A p \in RequestIds : SentAsOne(request'[p])
    BY <1>a, <1>0
  <2>2. inflight' \subseteq RequestIds /\ IsFiniteSet(inflight') /\ Cardinality(inflight') <= MaxInFlight
    BY <1>a, <1>0, FewerInFlight
  <2> QED BY <1>a, <1>0, <2>1, <2>2 DEF RelayInv
<1>2. ASSUME NEW q \in RequestIds, Handle(q) PROVE RelayInv'
  <2> DEFINE new == [NoRequest EXCEPT !.at = "asking"]
  <2>1. new \in RequestRecord /\ SentAsOne(new)
    BY DEF NoRequest, NoCredential, Credentials, RequestRecord, SentAsOne
  <2>2. request' = [request EXCEPT ![q] = new]
    BY <1>2 DEF Handle
  <2> HIDE DEF new
  <2>3. request' \in [RequestIds -> RequestRecord] /\ \A p \in RequestIds : SentAsOne(request'[p])
    BY <1>0, <2>1, <2>2
  <2>4. IsFiniteSet(inflight \cup {q}) /\ Cardinality(inflight \cup {q}) <= MaxInFlight
    <3>1. Cardinality(inflight) \in Nat /\ Cardinality(inflight) < MaxInFlight /\ q \notin inflight
      BY <1>0, <1>2, FS_CardinalityType DEF Handle
    <3>2. IsFiniteSet(inflight \cup {q}) /\ Cardinality(inflight \cup {q}) = Cardinality(inflight) + 1
      BY <1>0, <3>1, FS_AddElement
    <3> QED BY <3>1, <3>2
  <2> QED BY <1>0, <1>2, <2>3, <2>4 DEF Handle, RelayInv
<1>3. ASSUME NEW q \in RequestIds, TakeCredential(q) PROVE RelayInv'
  <2> DEFINE new == [request[q] EXCEPT !.at = "sending", !.cred = named]
  <2>1. new \in RequestRecord /\ SentAsOne(new) /\ request' = [request EXCEPT ![q] = new]
    BY <1>0, <1>3 DEF TakeCredential, RequestRecord, SentAsOne
  <2> HIDE DEF new
  <2> QED BY <1>0, <1>3, <1>a, <2>1 DEF TakeCredential
<1>4. ASSUME NEW q \in RequestIds, SendRequest(q) PROVE RelayInv'
  <2> DEFINE r == request[q]
             ok == r.cred = named /\ accepted
             at == IF ok \/ r.at = "again" THEN "answered" ELSE "refused"
             new == [r EXCEPT !.sentAs = r.sentAs \cup {r.cred.gen}, !.at = at]
  <2>1. r \in RequestRecord /\ SentAsOne(r) /\ r.at \in {"sending", "again"} /\ r.cred.gen \in 0..MaxSignedIn
    BY <1>0, <1>4 DEF SendRequest, RequestRecord, Credentials
  <2>2. at \in {"answered", "refused"}
    OBVIOUS
  <2>3. /\ request' = [request EXCEPT ![q] = new] /\ inflight' \in {inflight, inflight \ {q}}
        /\ stale' = (stale \/ (~ok /\ r.at = "sending" /\ r.cred = named))
    BY <1>4 DEF SendRequest
  <2>4. stale' \in BOOLEAN
    BY <2>3, <1>0
  <2> HIDE DEF at, ok
  <2>5. new \in RequestRecord /\ SentAsOne(new)
    BY <2>1, <2>2 DEF RequestRecord, SentAsOne
  <2> HIDE DEF new
  <2> QED BY <1>4, <1>a, <2>3, <2>4, <2>5 DEF SendRequest
<1>5. ASSUME NEW q \in RequestIds, Again(q) PROVE RelayInv'
  <2>0. request[q] \in RequestRecord /\ SentAsOne(request[q]) /\ request[q].at = "refused"
    BY <1>0, <1>5 DEF Again
  <2>1. CASE SendsAgain(request[q].cred)
    <3> DEFINE new == [request[q] EXCEPT !.at = "again", !.cred = named]
    <3>1. new \in RequestRecord /\ SentAsOne(new)
      BY <2>0, <2>1, <1>0 DEF RequestRecord, SentAsOne, SendsAgain
    <3>2. request' = [request EXCEPT ![q] = new] /\ inflight' = inflight
      BY <1>5, <2>1, <1>0 DEF Again
    <3> HIDE DEF new
    <3> QED BY <1>0, <1>5, <1>a, <3>1, <3>2 DEF Again
  <2>2. CASE ~SendsAgain(request[q].cred)
    <3> DEFINE new == [request[q] EXCEPT !.at = "answered"]
    <3>1. new \in RequestRecord /\ SentAsOne(new)
      BY <2>0 DEF RequestRecord, SentAsOne
    <3>2. request' = [request EXCEPT ![q] = new] /\ inflight' = inflight \ {q}
      BY <1>5, <2>2, <1>0 DEF Again, Answer
    <3> HIDE DEF new
    <3> QED BY <1>0, <1>5, <1>a, <3>1, <3>2 DEF Again
  <2> QED BY <2>1, <2>2
<1>6. ASSUME NEW q \in RequestIds, FailRequest(q) PROVE RelayInv'
  <2> DEFINE new == [request[q] EXCEPT !.at = "answered"]
  <2>1. new \in RequestRecord /\ SentAsOne(new)
    BY <1>0 DEF RequestRecord, SentAsOne
  <2>2. request' = [request EXCEPT ![q] = new] /\ inflight' = inflight \ {q}
    BY <1>6, <1>0 DEF FailRequest, Answer
  <2> HIDE DEF new
  <2> QED BY <1>0, <1>6, <1>a, <2>1, <2>2 DEF FailRequest
<1> QED BY <1>1, <1>2, <1>3, <1>4, <1>5, <1>6 DEF RelayNext

\* Steps of the other parts change nothing here.
LEMMA RelayStutterInv == RelayInv /\ UNCHANGED relayVars => RelayInv'
BY DEF RelayInv, relayVars

\* What the properties say of it.
LEMMA RelaySafe == RelayInv => RelayTypeOK /\ OneAccountPerRequest
<1> SUFFICES ASSUME RelayInv PROVE RelayTypeOK /\ OneAccountPerRequest
  OBVIOUS
<1>1. RelayTypeOK
  BY DEF RelayInv, RelayTypeOK, RequestRecord
<1>2. ASSUME NEW q \in RequestIds PROVE Cardinality(request[q].sentAs) <= 1
  BY AtMostOne DEF RelayInv, SentAsOne
<1> QED BY <1>1, <1>2 DEF OneAccountPerRequest

-----------------------------------------------------------------------------
\* Processes and commands.

\* A process, as the model keeps it.
ProcessRecord ==
  [at : {"none", "starting", "up", "closing", "watching", "ended"}, managed : BOOLEAN, renewing : BOOLEAN,
   agreed : BOOLEAN, stopping : BOOLEAN, updating : BOOLEAN, code : ExitCodes,
   child : Processes \cup {NoProcess}, tries : 0 .. restartsWatched]

\* What no process is yet.
LEMMA UnbornIs == Unborn \in ProcessRecord /\ Unborn.at = "none" /\ ~Unborn.renewing
BY LifecycleAssumption DEF Unborn, ProcessRecord, ExitCodes

\* Whose components run holds the lock.
RunningHasLock == \A p \in Processes : Running(p) => instanceLock = p

\* On Windows, where no process takes its own place, one that named itself to a command has agreed to stop
\* while it is up; a command past its wait finds it down, and no renewal under way.
NamedHasAgreed ==
  platform = "windows" => \A k \in Commands : command[k].named \in Processes =>
    LET x == process[command[k].named]
    IN  /\ command[k].at # "idle"
        /\ x.at \in {"up", "closing", "watching", "ended"} /\ (x.at = "up" => x.agreed) /\ (x.at = "ended" => ~x.renewing)
        /\ command[k].at \notin {"idle", "asked"} => x.at # "up" /\ ~x.renewing

\* The invariant of the daemon's processes and the commands about them.
LifeInv == LifecycleTypeOK /\ RunningHasLock /\ NamedHasAgreed

\* No process has started.
LEMMA LifeInitInv == LifecycleInit => LifeInv
<1> SUFFICES ASSUME LifecycleInit PROVE LifeInv
  OBVIOUS
<1> USE LifecycleAssumption DEF LifecycleInit
<1>1. process \in [Processes -> ProcessRecord]
  BY DEF ProcessRecord, Unborn, ExitCodes
<1>2. command \in [Commands -> [verb : Verbs, named : Processes \cup {NoProcess},
                    at : {"idle", "asked", "silence", "manager", "settling", "start", "done"}]]
  OBVIOUS
<1>3. \A p \in Processes : process[p].at = "none"
  BY DEF Unborn
<1>4. \A k \in Commands : command[k].named = NoProcess
  OBVIOUS
<1> QED BY <1>1, <1>2, <1>3, <1>4 DEF LifeInv, LifecycleTypeOK, RunningHasLock, NamedHasAgreed, Running, ProcessRecord

\* What a step makes of every process: it may not run without having the lock, and one that named itself
\* neither comes up again nor takes up a renewal.
Steady(old, new) ==
  /\ old.at = "ended" => new.at = "ended"
  /\ old.at \in {"up", "closing", "watching"} => new.at \in {"up", "closing", "watching", "ended"}
  /\ new.at = "up" => old.at = "up" /\ (old.agreed => new.agreed)
  /\ new.renewing => old.renewing \/ old.at = "up"
  /\ new.at = "ended" => ~new.renewing \/ (old.at = "ended" /\ old.renewing)

\* A step of the processes keeps the invariant if it keeps the lock with whoever runs.
LEMMA LifeProcesses ==
  ASSUME LifeInv, process' \in [Processes -> ProcessRecord],
         instanceLock' \in Processes \cup {NoProcess}, installed' \in BOOLEAN, respawn' \in BOOLEAN,
         UNCHANGED <<platform, command>>, RunningHasLock',
         platform = "windows" => \A p \in Processes :
           process[p].at \in {"up", "closing", "watching", "ended"} => Steady(process[p], process'[p])
  PROVE  LifeInv'
<1>1. LifecycleTypeOK'
  BY DEF LifeInv, LifecycleTypeOK, ProcessRecord
<1>2. NamedHasAgreed'
  <2> SUFFICES ASSUME platform = "windows", NEW k \in Commands, command[k].named \in Processes
               PROVE  LET x == process'[command[k].named]
                      IN  /\ command[k].at # "idle" /\ x.at \in {"up", "closing", "watching", "ended"} /\ (x.at = "up" => x.agreed) /\ (x.at = "ended" => ~x.renewing)
                          /\ command[k].at \notin {"idle", "asked"} => x.at # "up" /\ ~x.renewing
    BY DEF NamedHasAgreed
  <2> DEFINE p == command[k].named
  <2>1. /\ process[p].at \in {"up", "closing", "watching", "ended"} /\ (process[p].at = "up" => process[p].agreed)
        /\ (process[p].at = "ended" => ~process[p].renewing)
        /\ command[k].at # "idle"
        /\ command[k].at \notin {"idle", "asked"} => process[p].at # "up" /\ ~process[p].renewing
    BY DEF LifeInv, NamedHasAgreed
  <2>2. Steady(process[p], process'[p])
    BY <2>1
  <2> QED BY <2>1, <2>2 DEF Steady
<1> QED BY <1>1, <1>2 DEF LifeInv

\* Ending a process gives its lock back.
LEMMA EndsKeeps ==
  ASSUME LifeInv, NEW p \in Processes, NEW code \in ExitCodes, Ends(p, code), Keep
  PROVE  LifeInv'
<1> USE LifecycleAssumption
<1> DEFINE new == [Unborn EXCEPT !.at = "ended", !.code = code]
<1>0. process \in [Processes -> ProcessRecord] /\ instanceLock \in Processes \cup {NoProcess} /\ respawn \in BOOLEAN
      /\ installed \in BOOLEAN /\ RunningHasLock
  BY DEF LifeInv, LifecycleTypeOK, ProcessRecord
<1>1. new \in ProcessRecord /\ new.at = "ended" /\ ~new.renewing
  BY UnbornIs DEF ProcessRecord
<1>2. process' = [process EXCEPT ![p] = new]
  BY DEF Ends
<1> HIDE DEF new
<1>3. process' \in [Processes -> ProcessRecord]
  BY <1>0, <1>1, <1>2
<1>4. \A q \in Processes : IF q = p THEN process'[q] = new ELSE process'[q] = process[q]
  BY <1>0, <1>2
<1>5. RunningHasLock'
  BY <1>0, <1>1, <1>4 DEF RunningHasLock, Running, Ends
<1>6. \A q \in Processes : process[q].at \in {"up", "closing", "watching", "ended"} => Steady(process[q], process'[q])
  BY <1>0, <1>1, <1>4 DEF Steady, ProcessRecord
<1>7. respawn' \in BOOLEAN /\ instanceLock' \in Processes \cup {NoProcess}
  BY <1>0 DEF Ends
<1> QED BY <1>0, <1>3, <1>5, <1>6, <1>7, LifeProcesses DEF Keep

\* A new process takes the place of none, of a closed one, or of an ended one.
LEMMA BornIs ==
  ASSUME NEW ps \in [Processes -> ProcessRecord], NEW p \in Processes, NEW managed \in BOOLEAN
  PROVE  /\ Born(ps, p, managed) \in [Processes -> ProcessRecord]
         /\ Born(ps, p, managed)[p].at = "starting"
         /\ \A q \in Processes : q # p => Born(ps, p, managed)[q] = ps[q]
<1> USE LifecycleAssumption
<1> DEFINE new == [Unborn EXCEPT !.at = "starting", !.managed = managed]
<1>1. new \in ProcessRecord /\ new.at = "starting"
  BY UnbornIs DEF ProcessRecord
<1>2. Born(ps, p, managed) = [ps EXCEPT ![p] = new]
  BY DEF Born
<1> HIDE DEF new
<1> QED BY <1>1, <1>2

\* A process that is signalled closes, if it was up.
LEMMA CancelledIs ==
  ASSUME NEW ps \in [Processes -> ProcessRecord], NEW p \in Processes
  PROVE  /\ Cancelled(ps, p) \in [Processes -> ProcessRecord]
         /\ \A q \in Processes : q # p => Cancelled(ps, p)[q] = ps[q]
         /\ Cancelled(ps, p)[p].at = IF ps[p].at = "up" THEN "closing" ELSE ps[p].at
         /\ Cancelled(ps, p)[p].renewing = ps[p].renewing
<1> DEFINE new == [ps[p] EXCEPT !.stopping = TRUE, !.at = IF ps[p].at = "up" THEN "closing" ELSE ps[p].at]
<1>1. new \in ProcessRecord
  BY DEF ProcessRecord
<1>2. Cancelled(ps, p) = [ps EXCEPT ![p] = new]
  BY DEF Cancelled
<1>3. new.at = (IF ps[p].at = "up" THEN "closing" ELSE ps[p].at) /\ new.renewing = ps[p].renewing
  BY DEF ProcessRecord
<1> HIDE DEF new
<1> QED BY <1>1, <1>2, <1>3

\* And so do all that a manager signals.
LEMMA SignalledIs ==
  ASSUME process \in [Processes -> ProcessRecord]
  PROVE  /\ Signalled(process) \in [Processes -> ProcessRecord]
         /\ \A q \in Processes : /\ Signalled(process)[q].at \in {process[q].at, "closing"}
                                 /\ Signalled(process)[q].at = "closing" => process[q].at \in {"up", "closing"}
                                 /\ Signalled(process)[q].at = "up" => Signalled(process)[q] = process[q]
                                 /\ Signalled(process)[q].renewing = process[q].renewing
<1>1. ASSUME NEW q \in Processes
      PROVE  /\ Signalled(process)[q] \in ProcessRecord
             /\ Signalled(process)[q].at \in {process[q].at, "closing"}
             /\ Signalled(process)[q].at = "closing" => process[q].at \in {"up", "closing"}
             /\ Signalled(process)[q].at = "up" => Signalled(process)[q] = process[q]
             /\ Signalled(process)[q].renewing = process[q].renewing
  <2>1. Signalled(process)[q] \in {Cancelled(process, q)[q], process[q]}
    BY DEF Signalled
  <2>2. Cancelled(process, q)[q] \in ProcessRecord /\ process[q] \in ProcessRecord
    BY CancelledIs
  <2> QED BY <2>1, <2>2, CancelledIs
<1>2. Signalled(process) = [q \in Processes |-> Signalled(process)[q]]
  BY DEF Signalled
<1> QED BY <1>1, <1>2

\* A job unloaded: its processes are signalled and are nobody's.
LEMMA BootedOutIs ==
  ASSUME process \in [Processes -> ProcessRecord]
  PROVE  /\ BootedOut \in [Processes -> ProcessRecord]
         /\ \A q \in Processes : /\ BootedOut[q].at = Signalled(process)[q].at
                                 /\ BootedOut[q].renewing = Signalled(process)[q].renewing
                                 /\ BootedOut[q].agreed = Signalled(process)[q].agreed
<1>1. ASSUME NEW q \in Processes
      PROVE  /\ BootedOut[q] \in ProcessRecord
             /\ BootedOut[q].at = Signalled(process)[q].at
             /\ BootedOut[q].renewing = Signalled(process)[q].renewing
             /\ BootedOut[q].agreed = Signalled(process)[q].agreed
  <2>1. Signalled(process)[q] \in ProcessRecord
    BY SignalledIs
  <2>2. BootedOut[q] = [Signalled(process)[q] EXCEPT !.managed = FALSE]
    BY DEF BootedOut
  <2> QED BY <2>1, <2>2 DEF ProcessRecord
<1>2. BootedOut = [q \in Processes |-> BootedOut[q]]
  BY DEF BootedOut
<1> QED BY <1>1, <1>2

\* The lock stays with whoever runs: only its holder comes up, and it is given back by who goes down.
LEMMA LifeProcessStep ==
  ASSUME LifeInv, NEW p \in Processes,
         \/ Respawn(p) \/ StartByHand(p) \/ AcquireInstanceLock(p) \/ ListenFails(p) \/ RunComponents(p)
         \/ RenewAnswered(p) \/ RenewStored(p) \/ RestartForUpdate(p) \/ GraceOver(p) \/ Finish(p)
         \/ StartAgainUnix(p) \/ (\E q \in Processes : StartAgainWindows(p, q)) \/ StartAndWatch(p) \/ Crashes(p)
  PROVE  LifeInv'
<1> USE LifecycleAssumption
<1>0. /\ process \in [Processes -> ProcessRecord] /\ instanceLock \in Processes \cup {NoProcess} /\ respawn \in BOOLEAN
      /\ installed \in BOOLEAN /\ RunningHasLock
      /\ \A q \in Processes : process[q] \in ProcessRecord
  BY DEF LifeInv, LifecycleTypeOK, ProcessRecord
<1>e. {0, 1, 3, 4, 5} \subseteq ExitCodes
  BY DEF ExitCodes
<1>b. ASSUME NEW q \in Processes, process[q].at = "none", NEW managed \in BOOLEAN,
             process' = Born(process, q, managed), Keep, respawn' \in BOOLEAN, instanceLock' = instanceLock
      PROVE  LifeInv'
  <2>1. /\ process' \in [Processes -> ProcessRecord] /\ process'[q].at = "starting"
        /\ \A r \in Processes : r # q => process'[r] = process[r]
    BY <1>b, <1>0, BornIs
  <2>2. RunningHasLock'
    BY <1>b, <1>0, <2>1 DEF RunningHasLock, Running
  <2>3. platform = "windows" => \A r \in Processes :
          process[r].at \in {"up", "closing", "watching", "ended"} => Steady(process[r], process'[r])
    BY <1>b, <1>0, <2>1 DEF Steady, ProcessRecord
  <2> QED BY <1>b, <1>0, <2>1, <2>2, <2>3, LifeProcesses DEF Keep
<1>m. ASSUME NEW new \in ProcessRecord, process' = [process EXCEPT ![p] = new], Keep,
             UNCHANGED <<instanceLock, respawn>>, new.at \in {"up", "closing"} => instanceLock = p,
             process[p].at \in {"up", "closing", "watching", "ended"} => Steady(process[p], new)
      PROVE  LifeInv'
  <2>1. /\ process' \in [Processes -> ProcessRecord]
        /\ \A r \in Processes : IF r = p THEN process'[r] = new ELSE process'[r] = process[r]
    BY <1>m, <1>0
  <2>2. RunningHasLock'
    BY <1>m, <1>0, <2>1 DEF RunningHasLock, Running
  <2>3. \A r \in Processes :
          process[r].at \in {"up", "closing", "watching", "ended"} => Steady(process[r], process'[r])
    BY <1>m, <2>1, <1>0 DEF Steady, ProcessRecord
  <2> QED BY <1>m, <1>0, <2>1, <2>2, <2>3, LifeProcesses DEF Keep
<1>1. CASE Respawn(p)
  BY <1>1, <1>b DEF Respawn, Unused
<1>2. CASE StartByHand(p)
  BY <1>2, <1>b, <1>0 DEF StartByHand, Unused
<1>3. CASE AcquireInstanceLock(p)
  <2>1. CASE instanceLock = NoProcess
    <3>1. instanceLock' = p /\ UNCHANGED <<process, respawn>> /\ Keep
      BY <1>3, <2>1 DEF AcquireInstanceLock
    <3>2. RunningHasLock'
      BY <3>1, <2>1, <1>0 DEF RunningHasLock, Running
    <3>3. \A r \in Processes :
          process[r].at \in {"up", "closing", "watching", "ended"} => Steady(process[r], process'[r])
      BY <3>1, <1>0 DEF Steady, ProcessRecord
    <3> QED BY <3>1, <3>2, <3>3, <1>0, LifeProcesses DEF Keep
  <2>2. CASE instanceLock # NoProcess
    BY <1>3, <2>2, <1>e, EndsKeeps DEF AcquireInstanceLock
  <2> QED BY <2>1, <2>2
<1>4. CASE ListenFails(p)
  BY <1>4, <1>e, EndsKeeps DEF ListenFails
<1>5. CASE RunComponents(p)
  <2> DEFINE new == [process[p] EXCEPT !.at = IF process[p].stopping THEN "closing" ELSE "up"]
  <2>1. new \in ProcessRecord /\ process' = [process EXCEPT ![p] = new]
    BY <1>5, <1>0 DEF RunComponents, ProcessRecord
  <2> HIDE DEF new
  <2> QED BY <1>5, <1>m, <2>1 DEF RunComponents
<1>6. CASE RenewAnswered(p)
  <2> DEFINE new == [process[p] EXCEPT !.renewing = TRUE]
  <2>1. new \in ProcessRecord /\ process' = [process EXCEPT ![p] = new] /\ new.at = "up" /\ new.agreed = process[p].agreed
    BY <1>6, <1>0 DEF RenewAnswered, ProcessRecord
  <2> HIDE DEF new
  <2> QED BY <1>6, <1>m, <1>0, <2>1 DEF RenewAnswered, Steady, RunningHasLock, Running
<1>7. CASE RenewStored(p)
  <2> DEFINE new == [process[p] EXCEPT !.renewing = FALSE]
  <2>1. /\ new \in ProcessRecord /\ process' = [process EXCEPT ![p] = new] /\ new.at = process[p].at
        /\ new.agreed = process[p].agreed /\ ~new.renewing
    BY <1>7, <1>0 DEF RenewStored, ProcessRecord
  <2> HIDE DEF new
  <2> QED BY <1>7, <1>m, <1>0, <2>1 DEF RenewStored, Steady, RunningHasLock, Running
<1>8. CASE RestartForUpdate(p)
  <2> DEFINE new == [process[p] EXCEPT !.at = "closing", !.updating = TRUE]
  <2>1. /\ new \in ProcessRecord /\ process' = [process EXCEPT ![p] = new] /\ new.at = "closing"
        /\ new.renewing = process[p].renewing
    BY <1>8, <1>0 DEF RestartForUpdate, ProcessRecord
  <2> HIDE DEF new
  <2> QED BY <1>8, <1>m, <1>0, <2>1 DEF RestartForUpdate, Steady, RunningHasLock, Running
<1>9. CASE GraceOver(p)
  <2>1. process' = Cancelled(process, p) /\ process[p].at \in {"up", "closing"} /\ Keep /\ UNCHANGED <<instanceLock, respawn>>
    BY <1>9 DEF GraceOver, Running
  <2>2. /\ process' \in [Processes -> ProcessRecord] /\ \A q \in Processes : q # p => process'[q] = process[q]
        /\ process'[p].at = "closing" /\ process'[p].renewing = process[p].renewing
    BY <2>1, <1>0, CancelledIs
  <2>3. RunningHasLock'
    BY <2>1, <2>2, <1>0 DEF RunningHasLock, Running
  <2>4. \A r \in Processes :
          process[r].at \in {"up", "closing", "watching", "ended"} => Steady(process[r], process'[r])
    BY <2>1, <2>2, <1>0 DEF Steady, ProcessRecord
  <2> QED BY <2>1, <2>2, <2>3, <2>4, <1>0, LifeProcesses DEF Keep
<1>10. CASE Finish(p) \/ Crashes(p)
  BY <1>10, <1>e, EndsKeeps DEF Finish, Crashes
<1>11. CASE StartAgainUnix(p)
  <2>1. CASE Ends(p, 5)
    BY <1>11, <2>1, <1>e, EndsKeeps DEF StartAgainUnix
  <2>2. CASE ~Ends(p, 5)
    <3>1. /\ process' = Born(process, p, process[p].managed) /\ instanceLock' = NoProcess /\ UNCHANGED respawn
          /\ process[p].at = "closing" /\ platform # "windows" /\ Keep /\ process[p].managed \in BOOLEAN
      BY <1>11, <2>2, <1>0 DEF StartAgainUnix, ProcessRecord
    <3>2. \A r \in Processes : r # p => ~Running(r)
      BY <3>1, <1>0 DEF RunningHasLock, Running
    <3>3. /\ process' \in [Processes -> ProcessRecord] /\ process'[p].at = "starting"
          /\ \A r \in Processes : r # p => process'[r] = process[r]
      BY <3>1, <1>0, BornIs
    <3>4. RunningHasLock'
      BY <3>2, <3>3 DEF RunningHasLock, Running
    <3> QED BY <3>1, <3>3, <3>4, <1>0, LifeProcesses DEF Keep
  <2> QED BY <2>1, <2>2
<1>12. ASSUME NEW q \in Processes, StartAgainWindows(p, q) PROVE LifeInv'
  <2> DEFINE b == Born(process, q, FALSE)
             new == [Unborn EXCEPT !.at = "watching", !.managed = process[p].managed, !.child = q]
  <2>1. process[p].at = "closing" /\ process[q].at = "none" /\ instanceLock' = NoProcess /\ Keep /\ UNCHANGED respawn
    BY <1>12 DEF StartAgainWindows, Unused
  <2>2. /\ b \in [Processes -> ProcessRecord] /\ b[q].at = "starting"
        /\ \A r \in Processes : r # q => b[r] = process[r]
    BY <1>0, BornIs
  <2>3. new \in ProcessRecord /\ new.at = "watching" /\ ~new.renewing
    BY <1>0, UnbornIs DEF ProcessRecord
  <2>4. process' = [b EXCEPT ![p] = new]
    BY <1>12 DEF StartAgainWindows
  <2> HIDE DEF b, new
  <2>5. /\ process' \in [Processes -> ProcessRecord] /\ process'[p] = new /\ process'[q].at = "starting"
        /\ \A r \in Processes : r \notin {p, q} => process'[r] = process[r]
    BY <2>1, <2>2, <2>3, <2>4
  <2>6. \A r \in Processes : r # p => ~Running(r)
    BY <2>1, <1>0 DEF RunningHasLock, Running
  <2>7. RunningHasLock'
    BY <2>3, <2>5, <2>6 DEF RunningHasLock, Running
  <2>8. \A r \in Processes :
          process[r].at \in {"up", "closing", "watching", "ended"} => Steady(process[r], process'[r])
    BY <2>1, <2>3, <2>5, <1>0 DEF Steady, ProcessRecord
  <2> QED BY <2>1, <2>5, <2>7, <2>8, <1>0, LifeProcesses DEF Keep
<1>13. CASE StartAndWatch(p)
  <2>1. CASE \E code \in ExitCodes : Ends(p, code)
    BY <1>13, <2>1, EndsKeeps DEF StartAndWatch
  <2>2. ASSUME NEW q \in Unused,
               process' = [Born(process, q, FALSE) EXCEPT ![p].child = q, ![p].tries = @ + 1],
               UNCHANGED <<instanceLock, respawn>>, process[p].tries # restartsWatched
        PROVE  LifeInv'
    <3> DEFINE b == Born(process, q, FALSE)
               new == [process[p] EXCEPT !.child = q, !.tries = process[p].tries + 1]
    <3>1. process[p].at = "watching" /\ process[q].at = "none" /\ q \in Processes /\ Keep
      BY <1>13, <2>2 DEF StartAndWatch, Unused
    <3>2. /\ b \in [Processes -> ProcessRecord] /\ b[q].at = "starting"
          /\ \A r \in Processes : r # q => b[r] = process[r]
      BY <1>0, <3>1, BornIs
    <3>3. process[p].tries + 1 \in 0..restartsWatched
      BY <1>0, <2>2 DEF ProcessRecord
    <3>4. new \in ProcessRecord /\ new.at = "watching" /\ new.renewing = process[p].renewing
      BY <1>0, <3>1, <3>3 DEF ProcessRecord
    <3>5. process' = [b EXCEPT ![p] = new]
      <4>1. b[p] = process[p]
        BY <3>1, <3>2
      <4>2. process' = [b EXCEPT ![p] = [b[p] EXCEPT !.child = q, !.tries = @ + 1]]
        BY <2>2
      <4> QED BY <4>1, <4>2
    <3> HIDE DEF b, new
    <3>6. /\ process' \in [Processes -> ProcessRecord] /\ process'[p] = new /\ process'[q].at = "starting"
          /\ \A r \in Processes : r \notin {p, q} => process'[r] = process[r]
      BY <3>1, <3>2, <3>4, <3>5
    <3>7. RunningHasLock'
      BY <3>1, <3>4, <3>6, <2>2, <1>0 DEF RunningHasLock, Running
    <3>8. \A r \in Processes :
            process[r].at \in {"up", "closing", "watching", "ended"} => Steady(process[r], process'[r])
      BY <3>1, <3>4, <3>6, <1>0 DEF Steady, ProcessRecord
    <3> QED BY <2>2, <3>1, <3>6, <3>7, <3>8, <1>0, LifeProcesses DEF Keep
  <2> QED BY <1>13, <2>1, <2>2, <1>e DEF StartAndWatch
<1> QED BY <1>1, <1>2, <1>3, <1>4, <1>5, <1>6, <1>7, <1>8, <1>9, <1>10, <1>11, <1>12, <1>13

\* A command, as the model keeps it.
CommandRecord ==
  [verb : Verbs, named : Processes \cup {NoProcess},
   at : {"idle", "asked", "silence", "manager", "settling", "start", "done"}]

\* A step of a command keeps the invariant if the processes stay steady, the lock stays with whoever runs,
\* and the command, once past its wait, names nobody it did not wait for.
LEMMA LifeCommands ==
  ASSUME LifeInv, NEW k \in Commands, NEW new \in CommandRecord, command' = [command EXCEPT ![k] = new],
         process' \in [Processes -> ProcessRecord],
         instanceLock' \in Processes \cup {NoProcess}, installed' \in BOOLEAN, respawn' \in BOOLEAN,
         UNCHANGED platform, RunningHasLock',
         platform = "windows" => \A p \in Processes :
           process[p].at \in {"up", "closing", "watching", "ended"} => Steady(process[p], process'[p]),
         platform = "windows" /\ new.named \in Processes => new.at # "idle" /\
           \/ /\ new.named = command[k].named
              /\ command[k].at \in {"idle", "asked"} => new.at \in {"idle", "asked"}
           \/ LET x == process'[new.named]
              IN  /\ x.at \in {"up", "closing", "watching", "ended"} /\ (x.at = "up" => x.agreed) /\ (x.at = "ended" => ~x.renewing)
                  /\ new.at \notin {"idle", "asked"} => x.at # "up" /\ ~x.renewing
  PROVE  LifeInv'
<1>0. command \in [Commands -> CommandRecord]
  BY DEF LifeInv, LifecycleTypeOK, CommandRecord
<1>1. LifecycleTypeOK'
  <2>1. command' \in [Commands -> CommandRecord]
    BY <1>0
  <2> QED BY <2>1 DEF LifeInv, LifecycleTypeOK, ProcessRecord, CommandRecord
<1>2. NamedHasAgreed'
  <2> SUFFICES ASSUME platform = "windows", NEW j \in Commands, command'[j].named \in Processes
               PROVE  LET x == process'[command'[j].named]
                      IN  /\ command'[j].at # "idle" /\ x.at \in {"up", "closing", "watching", "ended"} /\ (x.at = "up" => x.agreed) /\ (x.at = "ended" => ~x.renewing)
                          /\ command'[j].at \notin {"idle", "asked"} => x.at # "up" /\ ~x.renewing
    BY DEF NamedHasAgreed
  <2>1. ASSUME NEW p \in Processes, p = command[j].named
        PROVE  /\ process'[p].at \in {"up", "closing", "watching", "ended"} /\ (process'[p].at = "up" => process'[p].agreed)
               /\ (process'[p].at = "ended" => ~process'[p].renewing)
               /\ command[j].at # "idle"
               /\ command[j].at \notin {"idle", "asked"} => process'[p].at # "up" /\ ~process'[p].renewing
    <3>1. /\ process[p].at \in {"up", "closing", "watching", "ended"} /\ (process[p].at = "up" => process[p].agreed)
          /\ (process[p].at = "ended" => ~process[p].renewing)
          /\ command[j].at # "idle"
          /\ command[j].at \notin {"idle", "asked"} => process[p].at # "up" /\ ~process[p].renewing
      BY <2>1 DEF LifeInv, NamedHasAgreed
    <3>2. Steady(process[p], process'[p])
      BY <3>1
    <3> QED BY <3>1, <3>2 DEF Steady
  <2>2. CASE j # k
    <3>1. command'[j] = command[j]
      BY <2>2, <1>0
    <3> QED BY <3>1, <2>1
  <2>3. CASE j = k
    <3>1. command'[j] = new
      BY <2>3, <1>0
    <3> QED BY <3>1, <2>1, <2>3
  <2> QED BY <2>2, <2>3
<1> QED BY <1>1, <1>2 DEF LifeInv

\* What the manager's stop does to the processes: those it signals close, on Windows those it runs end.
LEMMA LifeManaged ==
  ASSUME LifeInv
  PROVE  /\ process' = Signalled(process) \/ process' = BootedOut =>
              /\ process' \in [Processes -> ProcessRecord]
              /\ UNCHANGED instanceLock => RunningHasLock'
              /\ \A p \in Processes : process'[p].renewing = process[p].renewing
         /\ WindowsEnd =>
              /\ process' \in [Processes -> ProcessRecord] /\ RunningHasLock'
              /\ instanceLock' \in Processes \cup {NoProcess}
              /\ \A p \in Processes : Steady(process[p], process'[p])
<1>0. process \in [Processes -> ProcessRecord] /\ instanceLock \in Processes \cup {NoProcess} /\ RunningHasLock
  BY DEF LifeInv, LifecycleTypeOK, ProcessRecord
<1>1. ASSUME process' = Signalled(process) \/ process' = BootedOut
      PROVE  /\ process' \in [Processes -> ProcessRecord]
             /\ \A p \in Processes : /\ process'[p].renewing = process[p].renewing
                                     /\ process'[p].at \in {process[p].at, "closing"}
                                     /\ process'[p].at = "closing" => process[p].at \in {"up", "closing"}
  BY <1>0, <1>1, SignalledIs, BootedOutIs
<1>2. (process' = Signalled(process) \/ process' = BootedOut) /\ UNCHANGED instanceLock => RunningHasLock'
  BY <1>0, <1>1 DEF RunningHasLock, Running
<1>3. ASSUME WindowsEnd
      PROVE  /\ process' \in [Processes -> ProcessRecord] /\ RunningHasLock'
             /\ instanceLock' \in Processes \cup {NoProcess}
             /\ \A p \in Processes : Steady(process[p], process'[p])
  <2> DEFINE killed == [Unborn EXCEPT !.at = "ended", !.code = 1]
  <2>1. killed \in ProcessRecord /\ killed.at = "ended" /\ ~killed.renewing
    BY UnbornIs DEF ProcessRecord, ExitCodes
  <2>2. /\ process' = [p \in Processes |-> IF p \in Managed THEN killed ELSE process[p]]
        /\ instanceLock' = IF instanceLock \in Managed THEN NoProcess ELSE instanceLock
    BY <1>3 DEF WindowsEnd
  <2> HIDE DEF killed
  <2>3. \A p \in Processes : IF p \in Managed THEN process'[p] = killed ELSE process'[p] = process[p]
    BY <2>2
  <2>4. process' \in [Processes -> ProcessRecord] /\ instanceLock' \in Processes \cup {NoProcess}
    BY <1>0, <2>1, <2>2
  <2>5. RunningHasLock'
    BY <1>0, <2>1, <2>2, <2>3 DEF RunningHasLock, Running
  <2>6. \A p \in Processes : Steady(process[p], process'[p])
    <3> SUFFICES ASSUME NEW p \in Processes PROVE Steady(process[p], process'[p])
      OBVIOUS
    <3>1. CASE p \in Managed
      <4>1. process'[p] = killed /\ process[p].at # "ended"
        BY <3>1, <2>3 DEF Managed, Alive
      <4> QED BY <4>1, <2>1 DEF Steady
    <3>2. CASE p \notin Managed
      BY <3>2, <2>3 DEF Steady
    <3> QED BY <3>1, <3>2
  <2> QED BY <2>4, <2>5, <2>6
<1> QED BY <1>1, <1>2, <1>3

\* A manager that starts the daemon starts a new process, or none.
LEMMA StartsKeeps ==
  ASSUME LifeInv, NEW ps \in [Processes -> ProcessRecord], Starts(ps), UNCHANGED instanceLock,
         \A p \in Processes : /\ ps[p].at = "none" <=> process[p].at = "none"
                              /\ Running(p) \/ ps[p].at \notin {"up", "closing"}
                              /\ Steady(process[p], ps[p])
  PROVE  /\ process' \in [Processes -> ProcessRecord] /\ RunningHasLock'
         /\ \A p \in Processes :
              process[p].at \in {"up", "closing", "watching", "ended"} => Steady(process[p], process'[p])
<1>0. RunningHasLock
  BY DEF LifeInv
<1>1. CASE process' = ps
  BY <1>0, <1>1 DEF RunningHasLock, Running
<1>2. CASE process' # ps
  <2>0. PICK q \in Unused : process' = Born(ps, q, TRUE)
    BY <1>2 DEF Starts
  <2>1. q \in Processes /\ process[q].at = "none"
    BY DEF Unused
  <2>2. /\ process' \in [Processes -> ProcessRecord] /\ process'[q].at = "starting"
        /\ \A r \in Processes : r # q => process'[r] = ps[r]
    <3>1. ASSUME NEW managed \in BOOLEAN, process' = Born(ps, q, managed)
          PROVE  /\ process' \in [Processes -> ProcessRecord] /\ process'[q].at = "starting"
                 /\ \A r \in Processes : r # q => process'[r] = ps[r]
      BY <3>1, <2>1, BornIs
    <3> QED BY <2>0, <3>1
  <2>3. RunningHasLock'
    BY <1>0, <2>2 DEF RunningHasLock, Running
  <2> QED BY <2>1, <2>2, <2>3
<1> QED BY <1>1, <1>2

\* A process that is left alone is steady.
LEMMA SteadyStill == \A x : Steady(x, x)
BY DEF Steady

\* The commands: one that names a process has its answer, and goes to the manager only when that process
\* is gone or has nothing under way.
LEMMA LifeCommandStep == LifeInv /\ CommandNext => LifeInv'
<1> SUFFICES ASSUME LifeInv, NEW k \in Commands,
             \/ RestartRefused(k) \/ StopNotAsked(k) \/ (\E p \in Processes : StopRequested(k, p) \/ AnswerLost(k, p))
             \/ WaitForExit(k) \/ WaitForSilence(k) \/ NotInstalled(k)
             \/ SystemdStop(k) \/ SystemdSettled(k) \/ LaunchdStop(k) \/ LaunchdUninstall(k)
             \/ WindowsStop(k) \/ WindowsUninstall(k) \/ RestartStarts(k)
             PROVE  LifeInv'
  BY DEF CommandNext
<1>0. /\ process \in [Processes -> ProcessRecord] /\ instanceLock \in Processes \cup {NoProcess} /\ respawn \in BOOLEAN
      /\ installed \in BOOLEAN /\ RunningHasLock /\ platform \in Platforms
      /\ \A q \in Processes : process[q] \in ProcessRecord
      /\ command \in [Commands -> CommandRecord] /\ command[k] \in CommandRecord
  BY DEF LifeInv, LifecycleTypeOK, ProcessRecord, CommandRecord
<1>t. ASSUME NEW at \in {"silence", "manager", "settling", "start", "done"}, CommandTo(k, at),
             process' \in [Processes -> ProcessRecord],
             instanceLock' \in Processes \cup {NoProcess}, installed' \in BOOLEAN, respawn' \in BOOLEAN,
             UNCHANGED platform, RunningHasLock',
             platform = "windows" => \A p \in Processes :
               process[p].at \in {"up", "closing", "watching", "ended"} => Steady(process[p], process'[p]),
             \/ command[k].at \notin {"idle", "asked"}
             \/ command[k].named \in Processes /\ process' = process /\
                ~process[command[k].named].renewing /\ process[command[k].named].at # "up"
             \/ platform # "windows" \/ command[k].named \notin Processes
      PROVE  LifeInv'
  <2> DEFINE new == [command[k] EXCEPT !.at = at]
  <2>1. /\ new \in CommandRecord /\ command' = [command EXCEPT ![k] = new]
        /\ new.named = command[k].named /\ new.at = at
    BY <1>t, <1>0 DEF CommandTo, CommandRecord
  <2> HIDE DEF new
  <2>2. platform = "windows" /\ new.named \in Processes => new.at # "idle" /\
           \/ /\ new.named = command[k].named
              /\ command[k].at \in {"idle", "asked"} => new.at \in {"idle", "asked"}
           \/ LET x == process'[new.named]
              IN  /\ x.at \in {"up", "closing", "watching", "ended"} /\ (x.at = "up" => x.agreed) /\ (x.at = "ended" => ~x.renewing)
                  /\ new.at \notin {"idle", "asked"} => x.at # "up" /\ ~x.renewing
    BY <1>t, <2>1 DEF LifeInv, NamedHasAgreed
  <2> QED BY <1>t, <2>1, <2>2, LifeCommands
<1>s. ASSUME NEW at \in {"manager", "settling", "start", "done"}, Step(k, at),
             \/ command[k].at \notin {"idle", "asked"}
             \/ command[k].named \in Processes /\
                ~process[command[k].named].renewing /\ process[command[k].named].at # "up"
             \/ platform # "windows" \/ command[k].named \notin Processes
      PROVE  LifeInv'
  <2>1. /\ CommandTo(k, at) /\ UNCHANGED <<platform, process, instanceLock, installed, respawn>> /\ RunningHasLock'
    BY <1>s, <1>0 DEF Step, RunningHasLock, Running
  <2> QED BY <2>1, <1>0, <1>s, <1>t, SteadyStill
<1>i. command[k].at = "idle" => platform # "windows" \/ command[k].named \notin Processes
  BY DEF LifeInv, NamedHasAgreed
<1>a. After(k) \in {"manager", "settling", "start", "done"}
  BY DEF After
<1>1. CASE RestartRefused(k)
  BY <1>1, <1>i, <1>s DEF RestartRefused
<1>2. CASE StopNotAsked(k)
  BY <1>2, <1>i, <1>s DEF StopNotAsked, MayAsk
<1>3. ASSUME NEW p \in Processes, process[p].at = "up", process' = [process EXCEPT ![p].agreed = TRUE],
             UNCHANGED instanceLock
      PROVE  /\ process' \in [Processes -> ProcessRecord] /\ RunningHasLock'
             /\ process'[p].at = "up" /\ process'[p].agreed
             /\ \A q \in Processes : Steady(process[q], process'[q])
  <2> DEFINE new == [process[p] EXCEPT !.agreed = TRUE]
  <2>1. /\ new \in ProcessRecord /\ new.at = "up" /\ new.agreed /\ new.renewing = process[p].renewing
        /\ process' = [process EXCEPT ![p] = new]
    BY <1>3, <1>0 DEF ProcessRecord
  <2> HIDE DEF new
  <2>2. process' \in [Processes -> ProcessRecord]
    BY <2>1, <1>0
  <2>3. \A q \in Processes : IF q = p THEN process'[q] = new ELSE process'[q] = process[q]
    BY <2>1, <1>0
  <2>4. RunningHasLock'
    BY <1>3, <1>0, <2>1, <2>3 DEF RunningHasLock, Running
  <2>5. \A q \in Processes : Steady(process[q], process'[q])
    BY <1>3, <2>1, <2>3, SteadyStill DEF Steady
  <2> QED BY <2>1, <2>2, <2>3, <2>4, <2>5
<1>4. ASSUME NEW p \in Processes, StopRequested(k, p) PROVE LifeInv'
  <2> DEFINE new == [command[k] EXCEPT !.at = "asked", !.named = p]
  <2>1. /\ process[p].at = "up" /\ process' = [process EXCEPT ![p].agreed = TRUE]
        /\ UNCHANGED <<platform, instanceLock, installed, respawn>>
    BY <1>4 DEF StopRequested
  <2>2. /\ new \in CommandRecord /\ command' = [command EXCEPT ![k] = new] /\ new.named = p /\ new.at = "asked"
    BY <1>4, <1>0 DEF StopRequested, CommandRecord
  <2> HIDE DEF new
  <2> QED BY <1>0, <2>1, <2>2, <1>3, LifeCommands
<1>5. ASSUME NEW p \in Processes, AnswerLost(k, p) PROVE LifeInv'
  <2>1. /\ process[p].at = "up" /\ process' = [process EXCEPT ![p].agreed = TRUE] /\ CommandTo(k, "silence")
        /\ UNCHANGED <<platform, instanceLock, installed, respawn>> /\ command[k].at = "idle"
    BY <1>5 DEF AnswerLost, MayAsk
  <2> QED BY <1>0, <1>3, <1>i, <1>t, <2>1
<1>6. CASE WaitForExit(k)
  <2> DEFINE p == command[k].named
  <2>1. p \in Processes /\ Step(k, "manager") /\ (Exited(p) \/ StopWaitOver(p)) /\ command[k].at = "asked"
    BY <1>6 DEF WaitForExit
  <2>2. CASE platform = "windows"
    <3>1. process[p].at \in {"up", "closing", "watching", "ended"} /\ (process[p].at = "up" => process[p].agreed)
/\ (process[p].at = "ended" => ~process[p].renewing)
      BY <2>1, <2>2 DEF LifeInv, NamedHasAgreed
    <3>2. CASE StopWaitOver(p)
      BY <2>1, <3>1, <3>2, <1>s DEF StopWaitOver
    <3>3. CASE Exited(p)
      <4>1. process[p].at = "ended"
        BY <3>1, <3>3 DEF Exited
      <4>2. ~process[p].renewing
        BY <4>1, <2>1, <2>2 DEF LifeInv, NamedHasAgreed
      <4> QED BY <2>1, <4>1, <4>2, <1>s
    <3> QED BY <2>1, <3>2, <3>3
  <2>3. CASE platform # "windows"
    BY <2>1, <2>3, <1>s
  <2> QED BY <2>2, <2>3
<1>7. CASE WaitForSilence(k)
  BY <1>7, <1>s DEF WaitForSilence
<1>8. CASE NotInstalled(k)
  BY <1>8, <1>s DEF NotInstalled
<1>9. CASE SystemdStop(k)
  <2>1. /\ platform = "systemd" /\ command[k].at = "manager" /\ process' = Signalled(process) /\ respawn' = FALSE
        /\ CommandTo(k, "settling") /\ UNCHANGED <<platform, instanceLock, installed>>
    BY <1>9 DEF SystemdStop, Manages
  <2> QED BY <2>1, <1>0, LifeManaged, <1>t
<1>10. CASE SystemdSettled(k)
  <2>1. /\ command[k].at = "settling" /\ installed' = (installed /\ ~IsUninstall(k))
        /\ CommandTo(k, After(k)) /\ UNCHANGED <<platform, process, instanceLock, respawn>>
    BY <1>10 DEF SystemdSettled
  <2>2. RunningHasLock' /\ installed' \in BOOLEAN
    BY <2>1, <1>0 DEF RunningHasLock, Running
  <2> QED BY <2>1, <2>2, <1>0, <1>a, <1>t, SteadyStill
<1>11. CASE LaunchdStop(k)
  <2>1. /\ platform = "launchd" /\ command[k].at = "manager" /\ process' = Signalled(process)
        /\ CommandTo(k, After(k)) /\ UNCHANGED <<platform, instanceLock, installed, respawn>>
    BY <1>11 DEF LaunchdStop, Manages
  <2> QED BY <2>1, <1>0, <1>a, LifeManaged, <1>t
<1>12. CASE LaunchdUninstall(k)
  <2>1. /\ platform = "launchd" /\ command[k].at = "manager" /\ process' = BootedOut
        /\ CommandTo(k, "done") /\ UNCHANGED <<platform, instanceLock>> /\ installed' = FALSE /\ respawn' = FALSE
    BY <1>12 DEF LaunchdUninstall, Manages
  <2> QED BY <2>1, <1>0, LifeManaged, <1>t
<1>13. CASE WindowsStop(k)
  <2>1. /\ command[k].at = "manager" /\ WindowsEnd /\ CommandTo(k, After(k)) /\ UNCHANGED <<platform, installed, respawn>>
    BY <1>13 DEF WindowsStop, Manages
  <2> QED BY <2>1, <1>0, <1>a, LifeManaged, <1>t
<1>14. CASE WindowsUninstall(k)
  <2>1. /\ command[k].at = "manager" /\ WindowsEnd /\ CommandTo(k, "done") /\ UNCHANGED platform
        /\ installed' = FALSE /\ respawn' = FALSE
    BY <1>14 DEF WindowsUninstall, Manages
  <2> QED BY <2>1, <1>0, LifeManaged, <1>t
<1>15. CASE RestartStarts(k)
  <2>1. /\ command[k].at = "start" /\ CommandTo(k, "done") /\ UNCHANGED <<platform, instanceLock, installed, respawn>>
        /\ (Starts(process) \/ UNCHANGED process)
    BY <1>15 DEF RestartStarts
  <2>2. CASE Starts(process)
    <3>1. /\ process' \in [Processes -> ProcessRecord] /\ RunningHasLock'
          /\ \A p \in Processes :
               process[p].at \in {"up", "closing", "watching", "ended"} => Steady(process[p], process'[p])
      BY <1>0, <2>1, <2>2, StartsKeeps, SteadyStill DEF Running
    <3> QED BY <3>1, <2>1, <1>0, <1>t
  <2>3. CASE UNCHANGED process
    BY <2>1, <2>3, <1>s DEF Step
  <2> QED BY <2>1, <2>2, <2>3
<1> QED BY <1>1, <1>2, <1>4, <1>5, <1>6, <1>7, <1>8, <1>9, <1>10, <1>11, <1>12, <1>13, <1>14, <1>15

\* Installing starts a process at most, and where it loads the job anew signals those that ran.
LEMMA LifeServiceStep ==
  ASSUME LifeInv, StartService \/ SystemdInstall \/ WindowsInstall \/ LaunchdInstall \/ DaemonAfterSignIn
  PROVE  LifeInv'
<1>0. /\ process \in [Processes -> ProcessRecord] /\ instanceLock \in Processes \cup {NoProcess} /\ respawn \in BOOLEAN
      /\ installed \in BOOLEAN /\ RunningHasLock
  BY DEF LifeInv, LifecycleTypeOK, ProcessRecord
<1>s. ASSUME Starts(process) \/ UNCHANGED process, UNCHANGED <<platform, instanceLock, command>>,
             installed' \in BOOLEAN, respawn' \in BOOLEAN
      PROVE  LifeInv'
  <2>1. /\ process' \in [Processes -> ProcessRecord] /\ RunningHasLock'
        /\ \A p \in Processes :
             process[p].at \in {"up", "closing", "watching", "ended"} => Steady(process[p], process'[p])
    <3>1. CASE Starts(process)
      BY <1>0, <1>s, <3>1, StartsKeeps, SteadyStill DEF Running
    <3>2. CASE UNCHANGED process
      BY <1>0, <1>s, <3>2, SteadyStill DEF RunningHasLock, Running
    <3> QED BY <1>s, <3>1, <3>2
  <2> QED BY <1>0, <1>s, <2>1, LifeProcesses
<1>1. CASE StartService
  BY <1>1, <1>0, <1>s DEF StartService, Keep
<1>2. CASE SystemdInstall \/ WindowsInstall
  BY <1>2, <1>0, <1>s DEF SystemdInstall, WindowsInstall
<1>3. CASE LaunchdInstall
  <2>0. PICK p \in Unused : process' = Born(BootedOut, p, TRUE)
    BY <1>3 DEF LaunchdInstall
  <2>1. /\ platform = "launchd" /\ installed' = TRUE /\ respawn' = FALSE /\ UNCHANGED <<platform, instanceLock, command>>
        /\ p \in Processes
    BY <1>3 DEF LaunchdInstall, Unused
  <2>2. BootedOut \in [Processes -> ProcessRecord]
    BY <1>0, BootedOutIs
  <2>3. \A q \in Processes : BootedOut[q].at \in {"up", "closing"} => process[q].at \in {"up", "closing"}
    BY <1>0, BootedOutIs, SignalledIs
  <2>4. ASSUME NEW managed \in BOOLEAN, process' = Born(BootedOut, p, managed)
        PROVE  /\ process' \in [Processes -> ProcessRecord] /\ process'[p].at = "starting"
               /\ \A r \in Processes : r # p => process'[r] = BootedOut[r]
    BY <2>1, <2>2, <2>4, BornIs
  <2>5. /\ process' \in [Processes -> ProcessRecord] /\ process'[p].at = "starting"
        /\ \A r \in Processes : r # p => process'[r] = BootedOut[r]
    BY <2>0, <2>4
  <2>6. RunningHasLock'
    BY <1>0, <2>1, <2>3, <2>5 DEF RunningHasLock, Running
  <2> QED BY <1>0, <2>1, <2>5, <2>6, LifeProcesses
<1>4. CASE DaemonAfterSignIn
  BY <1>0, <1>1, <1>3, <1>4, <1>s DEF DaemonAfterSignIn, InstallAndStart
<1> QED BY <1>1, <1>2, <1>3, <1>4

\* Every step.
LEMMA LifeStepInv == LifeInv /\ LifecycleNext => LifeInv'
<1>1. LifeInv /\ ProcessNext => LifeInv'
  BY LifeProcessStep DEF ProcessNext
<1> QED BY <1>1, LifeCommandStep, LifeServiceStep DEF LifecycleNext

\* A step of another part leaves it.
LEMMA LifeStutterInv == LifeInv /\ UNCHANGED lifecycleVars => LifeInv'
BY DEF LifeInv, LifecycleTypeOK, RunningHasLock, NamedHasAgreed, Running, lifecycleVars

\* Two that run both hold the lock.
LEMMA LifeSafe == LifeInv => LifecycleTypeOK /\ OneDaemon
BY DEF LifeInv, RunningHasLock, OneDaemon

\* A manager that signals leaves a renewal to finish; the one that kills finds none.
LEMMA LifeNotKilled ==
  ASSUME LifeInv, LifecycleNext, NEW k \in Commands, NEW p \in Processes,
         command[k].at = "manager", command'[k].at # "manager", command[k].named = p, process[p].renewing
  PROVE  process'[p].renewing
<1>0. /\ process \in [Processes -> ProcessRecord] /\ command \in [Commands -> CommandRecord]
  BY DEF LifeInv, LifecycleTypeOK, ProcessRecord, CommandRecord
<1>1. platform # "windows"
  BY DEF LifeInv, NamedHasAgreed
<1>2. ~UNCHANGED command
  OBVIOUS
<1>3. CommandNext
  <2>1. ASSUME ProcessNext PROVE FALSE
    <3> PICK q \in Processes :
          \/ Respawn(q) \/ StartByHand(q) \/ AcquireInstanceLock(q) \/ ListenFails(q) \/ RunComponents(q)
          \/ RenewAnswered(q) \/ RenewStored(q) \/ RestartForUpdate(q) \/ GraceOver(q) \/ Finish(q)
          \/ StartAgainUnix(q) \/ (\E r \in Processes : StartAgainWindows(q, r)) \/ StartAndWatch(q) \/ Crashes(q)
      BY <2>1 DEF ProcessNext
    <3>1. Keep
      BY DEF Respawn, StartByHand, AcquireInstanceLock, ListenFails, RunComponents, RenewAnswered, RenewStored,
             RestartForUpdate, GraceOver, Finish, StartAgainUnix, StartAgainWindows, StartAndWatch, Crashes
    <3> QED BY <3>1, <1>2 DEF Keep
  <2>2. ASSUME StartService \/ SystemdInstall \/ WindowsInstall \/ LaunchdInstall \/ DaemonAfterSignIn PROVE FALSE
    BY <1>2, <2>2 DEF StartService, SystemdInstall, WindowsInstall, LaunchdInstall, DaemonAfterSignIn, InstallAndStart, Keep
  <2> QED BY <2>1, <2>2 DEF LifecycleNext
<1> PICK j \in Commands :
      \/ RestartRefused(j) \/ StopNotAsked(j) \/ (\E q \in Processes : StopRequested(j, q) \/ AnswerLost(j, q))
      \/ WaitForExit(j) \/ WaitForSilence(j) \/ NotInstalled(j)
      \/ SystemdStop(j) \/ SystemdSettled(j) \/ LaunchdStop(j) \/ LaunchdUninstall(j)
      \/ WindowsStop(j) \/ WindowsUninstall(j) \/ RestartStarts(j)
  BY <1>3 DEF CommandNext
<1>4. (\E at : CommandTo(j, at)) \/ (\E q \in Processes : StopRequested(j, q))
  BY DEF RestartRefused, StopNotAsked, AnswerLost, WaitForExit, WaitForSilence, NotInstalled, SystemdStop,
         SystemdSettled, LaunchdStop, LaunchdUninstall, WindowsStop, WindowsUninstall, RestartStarts, Step
<1>5. j = k
  BY <1>0, <1>4 DEF CommandTo, StopRequested
<1>6. CASE NotInstalled(j)
  BY <1>6 DEF NotInstalled, Step
<1>7. CASE SystemdStop(j) \/ LaunchdStop(j) \/ LaunchdUninstall(j)
  <2>1. process' = Signalled(process) \/ process' = BootedOut
    BY <1>7 DEF SystemdStop, LaunchdStop, LaunchdUninstall
  <2> QED BY <2>1, LifeManaged
<1>8. CASE ~(NotInstalled(j) \/ SystemdStop(j) \/ LaunchdStop(j) \/ LaunchdUninstall(j))
  BY <1>1, <1>5, <1>8 DEF RestartRefused, StopNotAsked, StopRequested, AnswerLost, WaitForExit, WaitForSilence,
         SystemdSettled, WindowsStop, WindowsUninstall, RestartStarts, MayAsk
<1> QED BY <1>6, <1>7, <1>8

-----------------------------------------------------------------------------
\* Voice calls.

\* A call, as the model keeps it.
CallRecord ==
  [at : CallStages, signIn : 0..MaxVoiceSignIns, worker : WorkerUp \cup {"none", "reaped"},
   cancelled : BOOLEAN, asked : BOOLEAN]

\* A join, as the model keeps it.
JoinRecord ==
  [at : {"idle", "queued", "leaving", "waiting"}, signIn : 0..MaxVoiceSignIns, waits : 0..MaxCalls]

\* A call that is not the current one was left, and its worker asked to leave if it had come so far that
\* only the worker could end it.
CallFollowed(x, c, ongoing) ==
  /\ ongoing = c => x.at \notin {"none", "done"}
  /\ ongoing # c => x.at \in {"none", "done"} \/ x.cancelled
  /\ x.at \in {"ready", "incall"} => /\ x.worker \in {"answered", "ready", "reaped"}
                                     /\ ongoing # c /\ x.worker \in WorkerUp => x.asked

\* One join at a time has its turn, and until it begins its call there is none.
OneTurn ==
  /\ \A j \in Joiners : joiner[j].at = "leaving" => talking = 0
  /\ \A i, j \in Joiners : joiner[i].at \in {"leaving", "waiting"} /\ joiner[j].at \in {"leaving", "waiting"} => i = j

\* The invariant of the calls.
VoiceInv ==
  /\ VoiceCallsTypeOK /\ ToldIsStatus /\ OneTurn
  /\ closing = "closed" => talking = 0
  /\ \A c \in CallIds : CallFollowed(calls[c], c, talking)

\* The types by record.
LEMMA VoiceTypes ==
  ASSUME VoiceCallsTypeOK
  PROVE  /\ calls \in [CallIds -> CallRecord] /\ joiner \in [Joiners -> JoinRecord]
         /\ \A c \in CallIds : calls[c] \in CallRecord
         /\ \A j \in Joiners : joiner[j] \in JoinRecord
BY DEF VoiceCallsTypeOK, CallRecord, JoinRecord

\* What no call and no join are.
LEMMA NoCallIs == NoCall \in CallRecord /\ NoCall.at = "none" /\ NoJoin \in JoinRecord /\ NoJoin.at = "idle"
BY VoiceAssumption DEF NoCall, CallRecord, NoJoin, JoinRecord, CallStages, WorkerUp

\* No call, nobody asks.
LEMMA VoiceInitInv == VoiceCallsInit => VoiceInv
<1> SUFFICES ASSUME VoiceCallsInit PROVE VoiceInv
  OBVIOUS
<1> USE VoiceAssumption DEF VoiceCallsInit
<1>1. calls \in [CallIds -> CallRecord] /\ joiner \in [Joiners -> JoinRecord]
      /\ (\A c \in CallIds : calls[c].at = "none") /\ (\A j \in Joiners : joiner[j].at = "idle")
  BY NoCallIs
<1>2. VoiceIdle \in Statuses /\ VoiceIdle.call = 0 /\ VoiceIdle.state = "idle"
  BY DEF VoiceIdle, Statuses
<1>z. 0 \in 0..MaxCalls /\ 0 \in 0..MaxVoiceSignIns
  OBVIOUS
<1>3. VoiceCallsTypeOK
  BY <1>1, <1>2, <1>z DEF VoiceCallsTypeOK, CallRecord, JoinRecord
<1>4. \A c \in CallIds : CallFollowed(calls[c], c, talking)
  BY <1>1 DEF CallFollowed, CallIds
<1> QED BY <1>1, <1>2, <1>3, <1>4 DEF VoiceInv, ToldIsStatus, OneTurn

\* A call's goroutine or its worker takes a step.
LEMMA VoiceRunStep ==
  ASSUME VoiceInv, NEW c \in CallIds, NEW new \in CallRecord, calls' = [calls EXCEPT ![c] = new],
         CallFollowed(new, c, talking),
         UNCHANGED <<voiceSignIn, joiner, talking, voiceStatus, told, unpublished, closing>>
  PROVE  VoiceInv'
<1>1. calls \in [CallIds -> CallRecord]
  BY VoiceTypes DEF VoiceInv
<1>2. calls' \in [CallIds -> CallRecord] /\ \A d \in CallIds : calls'[d] = IF d = c THEN new ELSE calls[d]
  BY <1>1
<1>3. VoiceCallsTypeOK'
  BY <1>2 DEF VoiceInv, VoiceCallsTypeOK, CallRecord
<1>4. \A d \in CallIds : CallFollowed(calls'[d], d, talking')
  BY <1>2 DEF VoiceInv
<1>5. ToldIsStatus' /\ OneTurn' /\ (closing' = "closed" => talking' = 0)
  BY DEF VoiceInv, ToldIsStatus, OneTurn
<1> QED BY <1>3, <1>4, <1>5 DEF VoiceInv

\* The current call is left: it is cancelled, and a worker past its HELLO is asked to leave.
LEMMA VoiceLeaveStep ==
  ASSUME VoiceInv, talking # 0, LeaveCall(talking), UNCHANGED told
  PROVE  /\ calls' \in [CallIds -> CallRecord] /\ talking' = 0 /\ voiceStatus' \in Statuses /\ unpublished' = TRUE
         /\ ToldIsStatus'
         /\ \A c \in CallIds : CallFollowed(calls'[c], c, talking')
<1> USE VoiceAssumption
<1>1. calls \in [CallIds -> CallRecord] /\ talking \in CallIds
  BY VoiceTypes DEF VoiceInv, VoiceCallsTypeOK, CallIds
<1> DEFINE old == calls[talking]
           new == [old EXCEPT !.cancelled = TRUE, !.asked = @ \/ old.worker \in WorkerUp \ {"starting"}]
<1>2. calls' = [calls EXCEPT ![talking] = new] /\ talking' = 0 /\ voiceStatus' = VoiceIdle /\ unpublished' = TRUE
  BY DEF LeaveCall, SetStatus, LeftCall
<1>3. old \in CallRecord /\ CallFollowed(old, talking, talking)
  BY <1>1 DEF VoiceInv
<1>4. /\ new \in CallRecord /\ new.at = old.at /\ new.cancelled /\ new.worker = old.worker
      /\ new.asked = (old.asked \/ old.worker \in WorkerUp \ {"starting"})
  BY <1>3 DEF CallRecord
<1> HIDE DEF new
<1>5. CallFollowed(new, talking, 0)
  BY <1>1, <1>3, <1>4 DEF CallFollowed, CallIds
<1>6. calls' \in [CallIds -> CallRecord] /\ \A d \in CallIds : calls'[d] = IF d = talking THEN new ELSE calls[d]
  BY <1>1, <1>2, <1>4
<1>7. ASSUME NEW d \in CallIds PROVE CallFollowed(calls'[d], d, 0)
  <2>1. CASE d = talking
    BY <1>5, <1>6, <2>1
  <2>2. CASE d # talking
    BY <1>6, <2>2 DEF VoiceInv, CallFollowed, CallIds
  <2> QED BY <2>1, <2>2
<1>8. VoiceIdle \in Statuses /\ VoiceIdle.call = 0 /\ VoiceIdle.state = "idle"
  BY DEF VoiceIdle, Statuses
<1> QED BY <1>2, <1>6, <1>7, <1>8 DEF ToldIsStatus

\* A join takes a step of its own.
LEMMA VoiceJoinStep ==
  ASSUME VoiceInv, NEW j \in Joiners, NEW new \in JoinRecord, joiner' = [joiner EXCEPT ![j] = new],
         new.at = "leaving" => talking' = 0,
         new.at \in {"leaving", "waiting"} =>
           joiner[j].at \in {"leaving", "waiting"} \/ JoinMuFree,
         talking' = 0 \/ talking' = talking \/ joiner[j].at = "leaving",
         calls' \in [CallIds -> CallRecord], voiceStatus' \in Statuses, unpublished' \in BOOLEAN,
         talking' \in 0..MaxCalls, UNCHANGED <<voiceSignIn, told, closing>>,
         closing = "closed" => talking' = 0, ToldIsStatus',
         \A c \in CallIds : CallFollowed(calls'[c], c, talking')
  PROVE  VoiceInv'
<1>1. joiner \in [Joiners -> JoinRecord] /\ \A i \in Joiners : joiner[i] \in JoinRecord
  BY VoiceTypes DEF VoiceInv
<1>2. joiner' \in [Joiners -> JoinRecord] /\ \A i \in Joiners : joiner'[i] = IF i = j THEN new ELSE joiner[i]
  BY <1>1
<1>3. VoiceCallsTypeOK'
  BY <1>2 DEF VoiceInv, VoiceCallsTypeOK, CallRecord, JoinRecord
<1>4. ASSUME NEW i \in Joiners, NEW k \in Joiners, joiner'[i].at \in {"leaving", "waiting"},
             joiner'[k].at \in {"leaving", "waiting"}
      PROVE  i = k
  BY <1>2, <1>4 DEF VoiceInv, OneTurn, JoinMuFree
<1>5. ASSUME NEW i \in Joiners, joiner'[i].at = "leaving"
      PROVE  talking' = 0
  BY <1>2, <1>5 DEF VoiceInv, OneTurn
<1>6. OneTurn'
  BY <1>4, <1>5 DEF OneTurn
<1> QED BY <1>3, <1>6 DEF VoiceInv

\* Joining: the call before is left first, and no join begins a call beside another's.
LEMMA VoiceJoinsStep ==
  ASSUME VoiceInv, NEW j \in Joiners, AskJoin(j) \/ TakeTurn(j) \/ BeginCall(j) \/ JoinReturns(j)
  PROVE  VoiceInv'
<1> USE VoiceAssumption
<1>0. /\ VoiceCallsTypeOK /\ joiner[j] \in JoinRecord /\ calls \in [CallIds -> CallRecord] /\ ToldIsStatus
      /\ joiner \in [Joiners -> JoinRecord]
      /\ voiceSignIn \in 0..MaxVoiceSignIns /\ talking \in 0..MaxCalls /\ voiceStatus \in Statuses /\ unpublished \in BOOLEAN
      /\ \A c \in CallIds : CallFollowed(calls[c], c, talking)
      /\ closing = "closed" => talking = 0
  BY VoiceTypes DEF VoiceInv, VoiceCallsTypeOK
<1>1. CASE AskJoin(j)
  <2> DEFINE new == [NoJoin EXCEPT !.at = "queued", !.signIn = voiceSignIn]
  <2>1. new \in JoinRecord /\ new.at = "queued"
    BY <1>0, NoCallIs DEF JoinRecord
  <2>2. joiner' = [joiner EXCEPT ![j] = new] /\ UNCHANGED <<voiceSignIn, calls, talking, voiceStatus, told, unpublished, closing>>
    BY <1>1 DEF AskJoin
  <2>3. ToldIsStatus'
    BY <1>0, <2>2 DEF ToldIsStatus
  <2> HIDE DEF new
  <2> QED BY <1>0, <2>1, <2>2, <2>3, VoiceJoinStep
<1>2. CASE TakeTurn(j)
  <2> DEFINE new == [joiner[j] EXCEPT !.at = "leaving", !.waits = talking]
  <2>1. new \in JoinRecord /\ new.at = "leaving"
    BY <1>0 DEF JoinRecord
  <2>2. joiner' = [joiner EXCEPT ![j] = new] /\ UNCHANGED <<voiceSignIn, told, closing>> /\ JoinMuFree
    BY <1>2, <1>0 DEF TakeTurn
  <2> HIDE DEF new
  <2>3. CASE talking = 0
    <3>1. UNCHANGED <<calls, talking, voiceStatus, unpublished>>
      BY <1>2, <2>3 DEF TakeTurn
    <3>2. ToldIsStatus'
      BY <1>0, <2>2, <3>1 DEF ToldIsStatus
    <3> QED BY <1>0, <2>1, <2>2, <2>3, <3>1, <3>2, VoiceJoinStep
  <2>4. CASE talking # 0
    <3>1. LeaveCall(talking)
      BY <1>2, <2>4 DEF TakeTurn
    <3>2. /\ calls' \in [CallIds -> CallRecord] /\ talking' = 0 /\ voiceStatus' \in Statuses /\ unpublished' = TRUE
          /\ ToldIsStatus' /\ \A c \in CallIds : CallFollowed(calls'[c], c, talking')
      BY <2>2, <2>4, <3>1, VoiceLeaveStep
    <3>3. talking' \in 0..MaxCalls
      BY <3>2
    <3> QED BY <2>1, <2>2, <3>2, <3>3, VoiceJoinStep
  <2> QED BY <2>3, <2>4
<1>3. CASE BeginCall(j)
  <2> DEFINE new == [joiner[j] EXCEPT !.at = "waiting", !.waits = 0]
  <2>0. 0 \in 0..MaxCalls
    OBVIOUS
  <2>1. new \in JoinRecord /\ new.at = "waiting"
    BY <1>0, <2>0 DEF JoinRecord
  <2>2. /\ joiner' = [joiner EXCEPT ![j] = new] /\ UNCHANGED <<voiceSignIn, told, closing>>
        /\ joiner[j].at = "leaving" /\ closing = "open"
    BY <1>3, <1>0 DEF BeginCall, Joinable
  <2> HIDE DEF new
  <2>3. PICK c \in CallIds :
          /\ calls[c].at = "none"
          /\ calls' = [calls EXCEPT ![c] = [NoCall EXCEPT !.at = "route", !.signIn = joiner[j].signIn]]
          /\ talking' = c /\ voiceStatus' = [state |-> "joining", call |-> c] /\ unpublished' = TRUE
    BY <1>3 DEF BeginCall, SetStatus
  <2> DEFINE call == [NoCall EXCEPT !.at = "route", !.signIn = joiner[j].signIn]
  <2>4. call \in CallRecord /\ call.at = "route"
    BY <1>0, NoCallIs DEF CallRecord, JoinRecord, CallStages
  <2>5. calls' = [calls EXCEPT ![c] = call]
    BY <2>3
  <2> HIDE DEF call
  <2>6. talking = 0
    BY <2>2 DEF VoiceInv, OneTurn
  <2>7. calls' \in [CallIds -> CallRecord] /\ \A d \in CallIds : calls'[d] = IF d = c THEN call ELSE calls[d]
    BY <1>0, <2>4, <2>5
  <2>8. \A d \in CallIds : CallFollowed(calls'[d], d, talking')
    <3> SUFFICES ASSUME NEW d \in CallIds PROVE CallFollowed(calls'[d], d, c)
      BY <2>3
    <3>1. CASE d = c
      BY <2>4, <2>7, <3>1 DEF CallFollowed
    <3>2. CASE d # c
      BY <1>0, <2>6, <2>7, <3>2 DEF CallFollowed, CallIds
    <3> QED BY <3>1, <3>2
  <2>9. ToldIsStatus' /\ voiceStatus' \in Statuses /\ unpublished' \in BOOLEAN /\ talking' \in 0..MaxCalls
    BY <2>3 DEF ToldIsStatus, Statuses, CallIds
  <2> QED BY <2>1, <2>2, <2>6, <2>7, <2>8, <2>9, VoiceJoinStep
<1>4. CASE JoinReturns(j)
  <2>1. joiner' = [joiner EXCEPT ![j] = NoJoin] /\ UNCHANGED <<voiceSignIn, calls, talking, voiceStatus, told, unpublished, closing>>
    BY <1>4 DEF JoinReturns
  <2>2. ToldIsStatus'
    BY <1>0, <2>1 DEF ToldIsStatus
  <2> QED BY <1>0, <2>1, <2>2, NoCallIs, VoiceJoinStep
<1> QED BY <1>1, <1>2, <1>3, <1>4

\* What leaves the joins alone.
LEMMA VoiceLeavesStep ==
  ASSUME VoiceInv,
         \/ SignInForVoice \/ SignOutOfVoice \/ LeaveVoice \/ CloseVoice \/ CloseLeaves \/ Publish
         \/ \E c \in CallIds : EndsWith(c)
  PROVE  VoiceInv'
<1> USE VoiceAssumption
<1>0. VoiceCallsTypeOK /\ ToldIsStatus /\ OneTurn /\ (closing = "closed" => talking = 0)
      /\ \A c \in CallIds : CallFollowed(calls[c], c, talking)
  BY DEF VoiceInv
<1>1. CASE SignInForVoice \/ SignOutOfVoice \/ CloseVoice \/ Publish
  <2>1. UNCHANGED <<joiner, calls, talking, voiceStatus>>
    BY <1>1 DEF SignInForVoice, SignOutOfVoice, CloseVoice, Publish
  <2>2. VoiceCallsTypeOK'
    <3>1. /\ voiceSignIn' \in 0..MaxVoiceSignIns /\ told' \in Statuses /\ unpublished' \in BOOLEAN
          /\ closing' \in {"open", "closing", "closed"}
      <4>1. /\ voiceSignIn \in 0..MaxVoiceSignIns /\ told \in Statuses /\ unpublished \in BOOLEAN
            /\ closing \in {"open", "closing", "closed"} /\ voiceStatus \in Statuses
        BY <1>0 DEF VoiceCallsTypeOK
      <4>2. CASE SignInForVoice
        BY <4>1, <4>2 DEF SignInForVoice
      <4>3. CASE SignOutOfVoice
        BY <4>1, <4>3 DEF SignOutOfVoice
      <4>4. CASE CloseVoice
        BY <4>1, <4>4 DEF CloseVoice
      <4>5. CASE Publish
        BY <4>1, <4>5 DEF Publish
      <4> QED BY <1>1, <4>2, <4>3, <4>4, <4>5
    <3> QED BY <1>0, <2>1, <3>1 DEF VoiceCallsTypeOK
  <2>3. ToldIsStatus' /\ (closing' = "closed" => talking' = 0)
    BY <1>0, <1>1, <2>1 DEF SignInForVoice, SignOutOfVoice, CloseVoice, Publish, ToldIsStatus
  <2> QED BY <1>0, <2>1, <2>2, <2>3 DEF VoiceInv, OneTurn
<1>2. ASSUME talking # 0, LeaveCall(talking), UNCHANGED <<voiceSignIn, joiner, told>>, closing' \in {"open", "closing", "closed"}
      PROVE  VoiceInv'
  <2>1. /\ calls' \in [CallIds -> CallRecord] /\ talking' = 0 /\ voiceStatus' \in Statuses /\ unpublished' = TRUE
        /\ ToldIsStatus' /\ \A c \in CallIds : CallFollowed(calls'[c], c, talking')
    BY <1>2, VoiceLeaveStep
  <2>2. VoiceCallsTypeOK'
    BY <1>0, <1>2, <2>1 DEF VoiceCallsTypeOK, CallRecord
  <2>3. OneTurn'
    BY <1>0, <1>2, <2>1 DEF OneTurn
  <2> QED BY <2>1, <2>2, <2>3 DEF VoiceInv
<1>3. CASE LeaveVoice
  BY <1>0, <1>2, <1>3 DEF LeaveVoice, VoiceCallsTypeOK
<1>4. CASE CloseLeaves
  <2>1. CASE talking = 0
    <3>1. UNCHANGED <<voiceSignIn, joiner, told, calls, talking, voiceStatus, unpublished>> /\ closing' = "closed"
      BY <1>4, <2>1 DEF CloseLeaves
    <3> QED BY <1>0, <2>1, <3>1 DEF VoiceInv, VoiceCallsTypeOK, ToldIsStatus, OneTurn
  <2>2. CASE talking # 0
    BY <1>2, <1>4, <2>2 DEF CloseLeaves
  <2> QED BY <2>1, <2>2
<1>5. ASSUME NEW c \in CallIds, EndsWith(c) PROVE VoiceInv'
  <2>1. talking = c /\ c # 0
    BY <1>5 DEF EndsWith, CallIds
  <2> QED BY <1>0, <1>2, <1>5, <2>1 DEF EndsWith, VoiceCallsTypeOK
<1> QED BY <1>1, <1>3, <1>4, <1>5

\* The call and its worker: only one that was not left gets an answer, so one that is up unanswered by Voice was asked.
LEMMA VoiceCallStep ==
  ASSUME VoiceInv, NEW c \in CallIds,
         \/ RouteCall(c) \/ StartWorker(c) \/ WorkerGreets(c) \/ TakeOffer(c) \/ TakeAnswer(c)
         \/ FailCall(c) \/ WorkerOffers(c) \/ WorkerConnects(c) \/ WorkerEnds(c)
  PROVE  VoiceInv'
<1>0. /\ calls[c] \in CallRecord /\ CallFollowed(calls[c], c, talking) /\ calls \in [CallIds -> CallRecord]
  BY VoiceTypes DEF VoiceInv
<1>r. ASSUME NEW from, NEW new, RunStep(c, from, new), new \in CallRecord, CallFollowed(new, c, talking)
      PROVE  VoiceInv'
  BY <1>r, VoiceRunStep DEF RunStep
<1>1. CASE RouteCall(c)
  <2> DEFINE new == [calls[c] EXCEPT !.at = "start"]
  <2>1. new \in CallRecord /\ new.at = "start" /\ new.cancelled = calls[c].cancelled
    BY <1>0 DEF CallRecord, CallStages
  <2>2. RunStep(c, "route", new) /\ calls[c].at = "route"
    BY <1>1 DEF RouteCall, RunStep
  <2> HIDE DEF new
  <2>3. CallFollowed(new, c, talking)
    BY <1>0, <2>1, <2>2 DEF CallFollowed
  <2> QED BY <1>r, <2>1, <2>2, <2>3
<1>2. CASE StartWorker(c)
  <2> DEFINE new == [calls[c] EXCEPT !.at = "hello", !.worker = "starting"]
  <2>1. new \in CallRecord /\ new.at = "hello" /\ new.cancelled = calls[c].cancelled
    BY <1>0 DEF CallRecord, CallStages, WorkerUp
  <2>2. RunStep(c, "start", new) /\ calls[c].at = "start"
    BY <1>2 DEF StartWorker, RunStep
  <2> HIDE DEF new
  <2>3. CallFollowed(new, c, talking)
    BY <1>0, <2>1, <2>2 DEF CallFollowed
  <2> QED BY <1>r, <2>1, <2>2, <2>3
<1>3. CASE WorkerGreets(c)
  <2> DEFINE new == [calls[c] EXCEPT !.at = "offer", !.worker = "joined"]
  <2>1. new \in CallRecord /\ new.at = "offer" /\ new.cancelled = calls[c].cancelled
    BY <1>0 DEF CallRecord, CallStages, WorkerUp
  <2>2. RunStep(c, "hello", new) /\ calls[c].at = "hello"
    BY <1>3 DEF WorkerGreets, RunStep
  <2> HIDE DEF new
  <2>3. CallFollowed(new, c, talking)
    BY <1>0, <2>1, <2>2 DEF CallFollowed
  <2> QED BY <1>r, <2>1, <2>2, <2>3
<1>4. CASE TakeOffer(c)
  <2> DEFINE new == [calls[c] EXCEPT !.at = "answer"]
  <2>1. new \in CallRecord /\ new.at = "answer" /\ new.cancelled = calls[c].cancelled
    BY <1>0 DEF CallRecord, CallStages, WorkerUp
  <2>2. RunStep(c, "offer", new) /\ calls[c].at = "offer"
    BY <1>4 DEF TakeOffer, RunStep
  <2> HIDE DEF new
  <2>3. CallFollowed(new, c, talking)
    BY <1>0, <2>1, <2>2 DEF CallFollowed
  <2> QED BY <1>r, <2>1, <2>2, <2>3
<1>5. CASE TakeAnswer(c)
  <2> DEFINE new == [calls[c] EXCEPT !.at = "ready", !.worker = "answered"]
  <2>1. new \in CallRecord /\ new.at = "ready" /\ new.worker = "answered"
    BY <1>0 DEF CallRecord, CallStages, WorkerUp
  <2>2. RunStep(c, "answer", new) /\ calls[c].at = "answer" /\ ~calls[c].cancelled
    BY <1>5 DEF TakeAnswer, RunStep
  <2> HIDE DEF new
  <2>3. CallFollowed(new, c, talking)
    BY <1>0, <2>1, <2>2 DEF CallFollowed
  <2> QED BY <1>r, <2>1, <2>2, <2>3
<1>6. CASE FailCall(c)
  <2> DEFINE new == [calls[c] EXCEPT !.at = "failing", !.asked = @ \/ calls[c].worker \in WorkerUp]
  <2>1. new \in CallRecord /\ new.at = "failing" /\ new.cancelled = calls[c].cancelled
    BY <1>0 DEF CallRecord, CallStages
  <2>2. RunStep(c, calls[c].at, new) /\ calls[c].at \in {"route", "start", "hello", "offer", "answer", "ready"}
    BY <1>6 DEF FailCall
  <2> HIDE DEF new
  <2>3. CallFollowed(new, c, talking)
    BY <1>0, <2>1, <2>2 DEF CallFollowed
  <2> QED BY <1>r, <2>1, <2>2, <2>3
<1>w. ASSUME NEW to \in {"offered", "ready", "reaped"}, NEW from, WorkerStep(c, from, to),
             calls[c].at \in {"ready", "incall"} => to = "reaped" \/ (to = "ready" /\ calls[c].worker \in WorkerUp)
      PROVE  VoiceInv'
  <2> DEFINE new == [calls[c] EXCEPT !.worker = to]
  <2>1. /\ new \in CallRecord /\ new.at = calls[c].at /\ new.worker = to /\ new.cancelled = calls[c].cancelled
        /\ new.asked = calls[c].asked
    BY <1>0 DEF CallRecord, WorkerUp
  <2>2. calls' = [calls EXCEPT ![c] = new] /\ UNCHANGED <<voiceSignIn, joiner, talking, voiceStatus, told, unpublished, closing>>
    BY <1>w DEF WorkerStep
  <2> HIDE DEF new
  <2>3. CallFollowed(new, c, talking)
    BY <1>0, <1>w, <2>1 DEF CallFollowed, WorkerUp
  <2> QED BY <2>1, <2>2, <2>3, VoiceRunStep
<1>7. CASE WorkerOffers(c)
  <2>1. WorkerStep(c, {"joined"}, "offered") /\ calls[c].worker = "joined"
    BY <1>7 DEF WorkerOffers, WorkerStep
  <2>2. calls[c].at \notin {"ready", "incall"}
    BY <1>0, <2>1 DEF CallFollowed
  <2> QED BY <2>1, <2>2, <1>w
<1>8. CASE WorkerConnects(c)
  <2>1. WorkerStep(c, {"answered"}, "ready") /\ calls[c].worker \in WorkerUp
    BY <1>8 DEF WorkerConnects, WorkerStep, WorkerUp
  <2> QED BY <2>1, <1>w
<1>9. CASE WorkerEnds(c)
  BY <1>9, <1>w DEF WorkerEnds
<1> QED BY <1>1, <1>2, <1>3, <1>4, <1>5, <1>6, <1>7, <1>8, <1>9

\* The call is up, or its goroutine returns.
LEMMA VoiceEndStep ==
  ASSUME VoiceInv, NEW c \in CallIds, EnterCall(c) \/ FinishCall(c)
  PROVE  VoiceInv'
<1> USE VoiceAssumption
<1>0. /\ VoiceCallsTypeOK /\ calls[c] \in CallRecord /\ CallFollowed(calls[c], c, talking) /\ calls \in [CallIds -> CallRecord]
      /\ ToldIsStatus /\ OneTurn /\ (closing = "closed" => talking = 0)
      /\ \A d \in CallIds : CallFollowed(calls[d], d, talking)
      /\ talking \in 0..MaxCalls /\ voiceStatus \in Statuses
  BY VoiceTypes DEF VoiceInv, VoiceCallsTypeOK
<1>1. CASE EnterCall(c)
  <2> DEFINE new == [calls[c] EXCEPT !.at = "incall"]
  <2>1. /\ new \in CallRecord /\ new.at = "incall" /\ new.worker = calls[c].worker /\ new.cancelled = calls[c].cancelled
        /\ new.asked = calls[c].asked
    BY <1>0 DEF CallRecord, CallStages
  <2>2. /\ calls[c].at = "ready" /\ calls' = [calls EXCEPT ![c] = new] /\ unpublished' = TRUE
        /\ UNCHANGED <<voiceSignIn, joiner, talking, told, closing>>
        /\ voiceStatus' = IF talking = c THEN [voiceStatus EXCEPT !.state = "in_call"] ELSE voiceStatus
    BY <1>1 DEF EnterCall, SetStatus
  <2> HIDE DEF new
  <2>3. CallFollowed(new, c, talking)
    BY <1>0, <2>1, <2>2 DEF CallFollowed
  <2>4. calls' \in [CallIds -> CallRecord] /\ \A d \in CallIds : calls'[d] = IF d = c THEN new ELSE calls[d]
    BY <1>0, <2>1, <2>2
  <2>5. \A d \in CallIds : CallFollowed(calls'[d], d, talking')
    BY <1>0, <2>2, <2>3, <2>4
  <2>6. voiceStatus' \in Statuses /\ ToldIsStatus'
    <3>1. CASE talking = c
      <4>1. voiceStatus' \in Statuses /\ voiceStatus'.state = "in_call" /\ voiceStatus'.call = voiceStatus.call
        BY <1>0, <2>2, <3>1 DEF Statuses
      <4> QED BY <1>0, <2>2, <3>1, <4>1 DEF ToldIsStatus, CallIds
    <3>2. CASE talking # c
      BY <1>0, <2>2, <3>2 DEF ToldIsStatus
    <3> QED BY <3>1, <3>2
  <2>7. VoiceCallsTypeOK'
    BY <1>0, <2>2, <2>4, <2>6 DEF VoiceCallsTypeOK, CallRecord
  <2> QED BY <1>0, <2>2, <2>5, <2>6, <2>7 DEF VoiceInv, OneTurn
<1>2. CASE FinishCall(c)
  <2> DEFINE new == [calls[c] EXCEPT !.at = "done"]
  <2>1. new \in CallRecord /\ new.at = "done"
    BY <1>0 DEF CallRecord, CallStages
  <2>2. calls' = [calls EXCEPT ![c] = new] /\ Ended(c) /\ UNCHANGED <<voiceSignIn, joiner, told, closing>>
    BY <1>2 DEF FinishCall
  <2> HIDE DEF new
  <2>3. calls' \in [CallIds -> CallRecord] /\ \A d \in CallIds : calls'[d] = IF d = c THEN new ELSE calls[d]
    BY <1>0, <2>1, <2>2
  <2>4. talking' # c /\ (talking' = talking \/ (talking' = 0 /\ talking = c)) /\ c # 0
    BY <2>2 DEF Ended, CallIds
  <2>5. \A d \in CallIds : CallFollowed(calls'[d], d, talking')
    <3> SUFFICES ASSUME NEW d \in CallIds PROVE CallFollowed(calls'[d], d, talking')
      OBVIOUS
    <3>1. CASE d = c
      BY <2>1, <2>3, <2>4, <3>1 DEF CallFollowed
    <3>2. CASE d # c
      BY <1>0, <2>3, <2>4, <3>2 DEF CallFollowed, CallIds
    <3> QED BY <3>1, <3>2
  <2>6. voiceStatus' \in Statuses /\ ToldIsStatus' /\ unpublished' \in BOOLEAN /\ talking' \in 0..MaxCalls
    <3>1. VoiceIdle \in Statuses /\ VoiceIdle.call = 0 /\ VoiceIdle.state = "idle"
      BY DEF VoiceIdle, Statuses
    <3>2. unpublished \in BOOLEAN
      BY <1>0 DEF VoiceCallsTypeOK
    <3>3. CASE talking = c
      <4>1. talking' = 0 /\ voiceStatus' = VoiceIdle /\ unpublished' = TRUE
        BY <2>2, <3>3 DEF Ended, SetStatus
      <4> QED BY <3>1, <4>1 DEF ToldIsStatus
    <3>4. CASE talking # c
      <4>1. UNCHANGED <<talking, voiceStatus, unpublished, told>>
        BY <2>2, <3>4 DEF Ended
      <4> QED BY <1>0, <3>2, <4>1 DEF ToldIsStatus
    <3> QED BY <3>3, <3>4
  <2>7. VoiceCallsTypeOK'
    BY <1>0, <2>2, <2>3, <2>6 DEF VoiceCallsTypeOK, CallRecord
  <2>8. OneTurn' /\ (closing' = "closed" => talking' = 0)
    BY <1>0, <2>2, <2>4 DEF OneTurn
  <2> QED BY <2>5, <2>6, <2>7, <2>8 DEF VoiceInv
<1> QED BY <1>1, <1>2

\* Every step.
LEMMA VoiceStepInv == VoiceInv /\ VoiceCallsNext => VoiceInv'
BY VoiceJoinsStep, VoiceLeavesStep, VoiceCallStep, VoiceEndStep DEF VoiceCallsNext

\* A step of another part leaves it.
LEMMA VoiceStutterInv == VoiceInv /\ UNCHANGED voiceCallVars => VoiceInv'
BY DEF VoiceInv, VoiceCallsTypeOK, ToldIsStatus, OneTurn, voiceCallVars

\* What the run checks of the calls.
LEMMA VoiceSafe == VoiceInv => VoiceCallsTypeOK /\ NoCallUnended /\ ToldIsStatus
BY DEF VoiceInv, NoCallUnended, CallFollowed

-----------------------------------------------------------------------------
\* The session and the credential store.

\* The sign-ins the instance serves and no fault has cost their token.
Served(k) == k \notin over \cup faulted

\* The sign-ins the store may have seen.
Saved == IF cli = 0 THEN issued ELSE issued - 1

\* The instance's sign-ins are numbered as they come, and supersede those before: nobody holds a token of
\* the one that is not yet saved.
SignInsInOrder ==
  /\ cli \in {0, issued} /\ over \subseteq 1..issued /\ 1..(issued - 1) \subseteq over
  /\ {lastSaved, read.secret[1], current[1], stored[1], dead[1]} \subseteq 0..Saved
  /\ taken \subseteq 1..Saved
  /\ \A k \in taken : lastSaved = 0 \/ k <= lastSaved
  /\ \A k \in SignIns : k > Saved => rotation[k] = 0

\* What Run has in hand where it stands.
RunHolds ==
  /\ have => current[1] # 0 /\ current[1] = stored[1]
  /\ pc # "down" /\ have => current[1] \in taken
  /\ pc \in {"renew", "write", "live"} => have
  /\ pc = "write" => pair = Newest(current[1])

\* A token refused, or found dead, is one of a sign-in that is over, and not of the one held.
RefusedIsOver ==
  /\ dead # NoToken => dead[1] \in over
  /\ pc \in {"signIn", "decide", "wait"} /\ refused => ~have /\ stored[1] \in over

\* What was read is what the store holds, or a sign-in out of date.
ReadIsOlder ==
  pc = "decide" /\ read.record =>
    /\ read.secret[1] # 0 /\ (lastSaved = 0 \/ read.secret[1] <= lastSaved)
    /\ \A k \in taken : k <= read.secret[1]
    /\ store.secret[1] = read.secret[1] => store.secret = read.secret
    /\ Served(read.secret[1]) => read.secret = Newest(read.secret[1]) \/ (have /\ read.secret = stored)

\* The store falls behind the instance only while the daemon holds what is to be written there.
StoreIsBehindTheDaemon ==
  /\ pc # "down" /\ have /\ store.secret[1] = stored[1] => store.secret = stored
  /\ store.record /\ Served(store.secret[1]) =>
       store.secret = Newest(store.secret[1]) \/ (pc # "down" /\ have /\ stored[1] = store.secret[1])

\* A running daemon has the newest token of what it took up.
DaemonHasNewest ==
  pc # "down" => \A k \in taken : Served(k) => IF pc = "write" THEN pair = Newest(k) ELSE have /\ current = Newest(k)

\* The invariant of the daemon's session.
SessInv ==
  /\ SessionTypeOK /\ StoreIsTheLastSignIns /\ SignInsInOrder /\ RunHolds /\ RefusedIsOver /\ ReadIsOlder
  /\ StoreIsBehindTheDaemon /\ DaemonHasNewest

\* A token is its sign-in and its rotation.
LEMMA TokenIs ==
  /\ \A t \in Tokens : /\ t[1] \in 0..MaxSignIns /\ t[2] \in 0..MaxRotations /\ t = <<t[1], t[2]>>
                       /\ t[1] = 0 <=> t = NoToken
                       /\ t[1] # 0 <=> t[1] \in SignIns
  /\ NoToken \in Tokens /\ NoToken[1] = 0
  /\ \A k \in SignIns : k \in 1..MaxSignIns /\ \A r \in 0..MaxRotations : <<k, r>> \in Tokens
<1> USE SessionAssumption DEF NoToken, SignIns
<1>1. ASSUME NEW t \in Tokens
      PROVE  /\ t[1] \in 0..MaxSignIns /\ t[2] \in 0..MaxRotations /\ t = <<t[1], t[2]>>
             /\ t[1] = 0 <=> t = NoToken
             /\ t[1] # 0 <=> t[1] \in SignIns
  <2>1. CASE t = NoToken
    BY <2>1
  <2>2. CASE t \in SignIns \X (0..MaxRotations)
    BY <2>2
  <2> QED BY <2>1, <2>2 DEF Tokens
<1> QED BY <1>1 DEF Tokens

\* What the store holds, or was read to hold.
StoreRecord == [record : BOOLEAN, secret : Tokens]

\* What the types say.
LEMMA SessTypes ==
  ASSUME SessionTypeOK
  PROVE  /\ issued \in 0..MaxSignIns /\ rotation \in [SignIns -> 0..MaxRotations] /\ over \subseteq SignIns
         /\ store \in StoreRecord /\ read \in StoreRecord /\ store.secret \in Tokens /\ read.secret \in Tokens
         /\ store.record \in BOOLEAN /\ read.record \in BOOLEAN
         /\ cli \in 0..MaxSignIns /\ lastSaved \in 0..MaxSignIns
         /\ have \in BOOLEAN /\ current \in Tokens /\ stored \in Tokens /\ dead \in Tokens /\ pair \in Tokens
         /\ taken \subseteq SignIns /\ faulted \subseteq SignIns
         /\ \A k \in SignIns : Newest(k) \in Tokens /\ Newest(k)[1] = k /\ Newest(k)[2] = rotation[k] /\ rotation[k] \in 0..MaxRotations
         /\ Gone \in StoreRecord /\ ~Gone.record /\ Gone.secret = NoToken
<1>1. \A k \in SignIns : Newest(k) \in Tokens /\ Newest(k)[1] = k /\ Newest(k)[2] = rotation[k] /\ rotation[k] \in 0..MaxRotations
  BY TokenIs DEF SessionTypeOK, Newest
<1>2. Gone \in StoreRecord /\ ~Gone.record /\ Gone.secret = NoToken
  BY TokenIs DEF Gone, StoreRecord
<1> QED BY <1>1, <1>2 DEF SessionTypeOK, StoreRecord

\* Nobody has signed in.
LEMMA SessInitInv == SessionInit => SessInv
<1> SUFFICES ASSUME SessionInit PROVE SessInv
  OBVIOUS
<1> USE SessionAssumption DEF SessionInit
<1>1. SessionTypeOK
  <2>1. 0 \in 0..MaxSignIns /\ 0 \in 0..MaxRotations
    OBVIOUS
  <2>2. Gone \in [record : BOOLEAN, secret : Tokens]
    BY TokenIs DEF Gone
  <2> QED BY <2>1, <2>2, TokenIs DEF SessionTypeOK
<1>2. ~Gone.record /\ Gone.secret[1] = 0 /\ NoToken[1] = 0
  BY DEF Gone, NoToken
<1>3. SignInsInOrder
  BY <1>2 DEF SignInsInOrder, Saved
<1>4. StoreIsTheLastSignIns /\ RunHolds /\ RefusedIsOver /\ ReadIsOlder /\ StoreIsBehindTheDaemon /\ DaemonHasNewest
  BY <1>2 DEF StoreIsTheLastSignIns, RunHolds, RefusedIsOver, ReadIsOlder, StoreIsBehindTheDaemon, DaemonHasNewest
<1> QED BY <1>1, <1>3, <1>4 DEF SessInv

\* The instance issues a sign-in: the earlier ones are over, and nobody holds its token yet.
LEMMA SessLogin ==
  ASSUME SessInv, Login
  PROVE  SessInv'
<1> USE SessionAssumption
<1>0. /\ SessionTypeOK /\ StoreIsTheLastSignIns /\ SignInsInOrder /\ RunHolds /\ RefusedIsOver /\ ReadIsOlder /\ StoreIsBehindTheDaemon /\ DaemonHasNewest
  BY DEF SessInv
<1>1. SessionTypeOK'
  <2>1. issued' \in 0..MaxSignIns /\ cli' \in 0..MaxSignIns /\ over' \subseteq SignIns
    BY <1>0, SessTypes DEF Login, SignIns
  <2> QED BY <1>0, <2>1 DEF Login, instanceVars, cliVars, sourceVars, historyVars, SessionTypeOK
<1>2. StoreIsTheLastSignIns'
  BY <1>0, <1>1, SessTypes, TokenIs DEF Login, instanceVars, cliVars, sourceVars, historyVars, StoreIsTheLastSignIns
<1>3. SignInsInOrder'
  <2>1. issued \in Nat /\ cli = 0 /\ issued' = issued + 1 /\ cli' = issued + 1 /\ over' = 1..issued /\ Saved = issued /\ Saved' = issued
    BY <1>0, SessTypes DEF Login, Saved
  <2>2. issued' - 1 = issued /\ over' \subseteq 1..issued'
    BY <2>1
  <2> QED BY <1>0, <1>1, <2>1, <2>2, SessTypes DEF Login, instanceVars, cliVars, sourceVars, historyVars, SignInsInOrder
<1>4. RunHolds'
  BY <1>0, <1>1, SessTypes, TokenIs DEF Login, instanceVars, cliVars, sourceVars, historyVars, Newest, RunHolds
<1>5. RefusedIsOver'
  BY <1>0, <1>1, SessTypes, TokenIs DEF Login, instanceVars, cliVars, sourceVars, historyVars, Newest, Saved, SignInsInOrder, RunHolds, RefusedIsOver
<1>6. ReadIsOlder'
  BY <1>0, <1>1, SessTypes, TokenIs DEF Login, instanceVars, cliVars, sourceVars, historyVars, Newest, Served, Saved, SignInsInOrder, RunHolds, ReadIsOlder
<1>7. StoreIsBehindTheDaemon'
  BY <1>0, <1>1, SessTypes, TokenIs DEF Login, instanceVars, cliVars, sourceVars, historyVars, Newest, Served, Saved, SignInsInOrder, RunHolds, StoreIsBehindTheDaemon
<1>8. DaemonHasNewest'
  BY <1>0, <1>1, SessTypes, TokenIs DEF Login, instanceVars, cliVars, sourceVars, historyVars, Newest, Served, Saved, SignInsInOrder, RunHolds, DaemonHasNewest
<1> QED BY <1>1, <1>2, <1>3, <1>4, <1>5, <1>6, <1>7, <1>8 DEF SessInv

\* It is saved: the store holds its newest token.
LEMMA SessSave ==
  ASSUME SessInv, Save
  PROVE  SessInv'
<1> USE SessionAssumption
<1>0. /\ SessionTypeOK /\ StoreIsTheLastSignIns /\ SignInsInOrder /\ RunHolds /\ RefusedIsOver /\ ReadIsOlder /\ StoreIsBehindTheDaemon /\ DaemonHasNewest
  BY DEF SessInv
<1>1. SessionTypeOK'
  <2>1. <<cli, 0>> \in Tokens
    <3>1. cli \in SignIns /\ 0 \in 0..MaxRotations
      BY <1>0, SessTypes DEF Save, SignIns
    <3> QED BY <3>1, TokenIs
  <2>2. store' \in [record : BOOLEAN, secret : Tokens] /\ reload' \in BOOLEAN
    BY <2>1 DEF Save
  <2>3. cli' \in 0..MaxSignIns /\ lastSaved' \in 0..MaxSignIns
    BY <1>0, SessTypes DEF Save
  <2> QED BY <1>0, <2>2, <2>3 DEF Save, instanceVars, cliVars, sourceVars, historyVars, SessionTypeOK
<1>2. StoreIsTheLastSignIns'
  BY <1>0, <1>1, SessTypes, TokenIs DEF Save, instanceVars, cliVars, sourceVars, historyVars, StoreIsTheLastSignIns
<1>3. SignInsInOrder'
  BY <1>0, <1>1, SessTypes, TokenIs DEF Save, instanceVars, cliVars, sourceVars, historyVars, Saved, SignInsInOrder
<1>4. RunHolds'
  BY <1>0, <1>1, SessTypes, TokenIs DEF Save, instanceVars, cliVars, sourceVars, historyVars, Newest, RunHolds
<1>5. RefusedIsOver'
  BY <1>0, <1>1, SessTypes, TokenIs DEF Save, instanceVars, cliVars, sourceVars, historyVars, RefusedIsOver
<1>6. ReadIsOlder'
  BY <1>0, <1>1, SessTypes, TokenIs DEF Save, instanceVars, cliVars, sourceVars, historyVars, Newest, Served, Saved, SignInsInOrder, RunHolds, ReadIsOlder
<1>7. StoreIsBehindTheDaemon'
  <2>1. store'.record /\ store'.secret = <<cli, 0>> /\ store'.secret[1] = cli /\ cli # 0 /\ cli = issued /\ Saved = issued - 1
    BY <1>0 DEF Save, SignInsInOrder, Saved
  <2>2. stored[1] < cli
    BY <1>0, <2>1, SessTypes DEF SignInsInOrder
  <2>3. cli \in SignIns /\ UNCHANGED <<rotation, over, faulted, stored>>
    BY <1>0, <2>1, SessTypes, TokenIs DEF Save, instanceVars, cliVars, sourceVars, historyVars, SignIns
  <2>4. Served(cli) => rotation[cli] = 0
    BY <1>0, <2>1, <2>3, SessTypes DEF SignInsInOrder
  <2>5. cli \notin over' \cup faulted' => rotation'[cli] = 0
    BY <2>3, <2>4 DEF Served
  <2>6. stored'[1] # store'.secret[1]
    BY <2>1, <2>2, <2>3, SessTypes, <1>0, TokenIs
  <2> QED BY <2>1, <2>5, <2>6 DEF StoreIsBehindTheDaemon, Served, Newest
<1>8. DaemonHasNewest'
  BY <1>0, <1>1, SessTypes, TokenIs DEF Save, instanceVars, cliVars, sourceVars, historyVars, Newest, Served, DaemonHasNewest
<1> QED BY <1>1, <1>2, <1>3, <1>4, <1>5, <1>6, <1>7, <1>8 DEF SessInv

\* The store is cleared: the daemon may still hold what was there.
LEMMA SessClear ==
  ASSUME SessInv, Clear
  PROVE  SessInv'
<1> USE SessionAssumption
<1>0. /\ SessionTypeOK /\ StoreIsTheLastSignIns /\ SignInsInOrder /\ RunHolds /\ RefusedIsOver /\ ReadIsOlder /\ StoreIsBehindTheDaemon /\ DaemonHasNewest
  BY DEF SessInv
<1>1. SessionTypeOK'
  <2>1. store' \in [record : BOOLEAN, secret : Tokens] /\ reload' \in BOOLEAN /\ taken' \subseteq SignIns /\ lastSaved' \in 0..MaxSignIns
    BY <1>0, SessTypes DEF Clear, StoreRecord
  <2> QED BY <1>0, <2>1 DEF Clear, instanceVars, cliVars, sourceVars, historyVars, SessionTypeOK
<1>2. StoreIsTheLastSignIns'
  BY <1>0, <1>1, SessTypes, TokenIs DEF Clear, instanceVars, cliVars, sourceVars, historyVars, StoreIsTheLastSignIns
<1>3. SignInsInOrder'
  BY <1>0, <1>1, SessTypes, TokenIs DEF Clear, instanceVars, cliVars, sourceVars, historyVars, Saved, SignInsInOrder
<1>4. RunHolds'
  BY <1>0, <1>1, SessTypes, TokenIs DEF Clear, instanceVars, cliVars, sourceVars, historyVars, Newest, RunHolds
<1>5. RefusedIsOver'
  BY <1>0, <1>1, SessTypes, TokenIs DEF Clear, instanceVars, cliVars, sourceVars, historyVars, RefusedIsOver
<1>6. ReadIsOlder'
  BY <1>0, <1>1, SessTypes, TokenIs DEF Clear, instanceVars, cliVars, sourceVars, historyVars, Newest, Served, ReadIsOlder
<1>7. StoreIsBehindTheDaemon'
  BY <1>0, <1>1, SessTypes, TokenIs DEF Clear, instanceVars, cliVars, sourceVars, historyVars, Newest, Served, StoreIsBehindTheDaemon
<1>8. DaemonHasNewest'
  BY <1>0, <1>1, SessTypes, TokenIs DEF Clear, instanceVars, cliVars, sourceVars, historyVars, Newest, Served, DaemonHasNewest
<1> QED BY <1>1, <1>2, <1>3, <1>4, <1>5, <1>6, <1>7, <1>8 DEF SessInv

\* A daemon starts with nothing in hand.
LEMMA SessStart ==
  ASSUME SessInv, Start
  PROVE  SessInv'
<1> USE SessionAssumption
<1>0. /\ SessionTypeOK /\ StoreIsTheLastSignIns /\ SignInsInOrder /\ RunHolds /\ RefusedIsOver /\ ReadIsOlder /\ StoreIsBehindTheDaemon /\ DaemonHasNewest
  BY DEF SessInv
<1>1. SessionTypeOK'
  BY <1>0, SessTypes, TokenIs DEF Start, instanceVars, cliVars, sourceVars, historyVars, SessionTypeOK
<1>2. StoreIsTheLastSignIns'
  BY <1>0, <1>1, SessTypes, TokenIs DEF Start, instanceVars, cliVars, sourceVars, historyVars, StoreIsTheLastSignIns
<1>3. SignInsInOrder'
  BY <1>0, <1>1, SessTypes, TokenIs DEF Start, instanceVars, cliVars, sourceVars, historyVars, Saved, SignInsInOrder
<1>4. RunHolds'
  BY <1>0, <1>1, SessTypes, TokenIs DEF Start, instanceVars, cliVars, sourceVars, historyVars, Newest, RunHolds
<1>5. RefusedIsOver'
  BY <1>0, <1>1, SessTypes, TokenIs DEF Start, instanceVars, cliVars, sourceVars, historyVars, RefusedIsOver
<1>6. ReadIsOlder'
  BY <1>0, <1>1, SessTypes, TokenIs DEF Start, instanceVars, cliVars, sourceVars, historyVars, Newest, Served, ReadIsOlder
<1>7. StoreIsBehindTheDaemon'
  BY <1>0, <1>1, SessTypes, TokenIs DEF Start, instanceVars, cliVars, sourceVars, historyVars, Newest, Served, StoreIsBehindTheDaemon
<1>8. DaemonHasNewest'
  BY <1>0, <1>1, SessTypes, TokenIs DEF Start, instanceVars, cliVars, sourceVars, historyVars, Newest, Served, DaemonHasNewest
<1> QED BY <1>1, <1>2, <1>3, <1>4, <1>5, <1>6, <1>7, <1>8 DEF SessInv

\* The store is read.
LEMMA SessLoad ==
  ASSUME SessInv, Load
  PROVE  SessInv'
<1> USE SessionAssumption
<1>0. /\ SessionTypeOK /\ StoreIsTheLastSignIns /\ SignInsInOrder /\ RunHolds /\ RefusedIsOver /\ ReadIsOlder /\ StoreIsBehindTheDaemon /\ DaemonHasNewest
  BY DEF SessInv
<1>1. SessionTypeOK'
  BY <1>0, SessTypes, TokenIs DEF Load, instanceVars, cliVars, sourceVars, historyVars, SessionTypeOK
<1>2. StoreIsTheLastSignIns'
  BY <1>0, <1>1, SessTypes, TokenIs DEF Load, instanceVars, cliVars, sourceVars, historyVars, StoreIsTheLastSignIns
<1>3. SignInsInOrder'
  BY <1>0, <1>1, SessTypes, TokenIs DEF Load, instanceVars, cliVars, sourceVars, historyVars, Newest, Served, Saved, StoreIsTheLastSignIns, SignInsInOrder, RunHolds, DaemonHasNewest
<1>4. RunHolds'
  BY <1>0, <1>1, SessTypes, TokenIs DEF Load, instanceVars, cliVars, sourceVars, historyVars, Newest, RunHolds
<1>5. RefusedIsOver'
  BY <1>0, <1>1, SessTypes, TokenIs DEF Load, instanceVars, cliVars, sourceVars, historyVars, RefusedIsOver
<1>6. ReadIsOlder'
  BY <1>0, <1>1, SessTypes, TokenIs DEF Load, instanceVars, cliVars, sourceVars, historyVars, Newest, Served, Saved, StoreIsTheLastSignIns, SignInsInOrder, RunHolds, RefusedIsOver, ReadIsOlder, StoreIsBehindTheDaemon, DaemonHasNewest
<1>7. StoreIsBehindTheDaemon'
  BY <1>0, <1>1, SessTypes, TokenIs DEF Load, instanceVars, cliVars, sourceVars, historyVars, Newest, Served, StoreIsBehindTheDaemon
<1>8. DaemonHasNewest'
  BY <1>0, <1>1, SessTypes, TokenIs DEF Load, instanceVars, cliVars, sourceVars, historyVars, Newest, Served, DaemonHasNewest
<1> QED BY <1>1, <1>2, <1>3, <1>4, <1>5, <1>6, <1>7, <1>8 DEF SessInv

\* What was read is dead or was refused: nothing is taken up.
LEMMA SessSpent ==
  ASSUME SessInv, Spent
  PROVE  SessInv'
<1> USE SessionAssumption
<1>0. /\ SessionTypeOK /\ StoreIsTheLastSignIns /\ SignInsInOrder /\ RunHolds /\ RefusedIsOver /\ ReadIsOlder /\ StoreIsBehindTheDaemon /\ DaemonHasNewest
  BY DEF SessInv
<1>1. SessionTypeOK'
  BY <1>0, SessTypes, TokenIs DEF Spent, Known, instanceVars, cliVars, sourceVars, historyVars, SessionTypeOK
<1>2. StoreIsTheLastSignIns'
  BY <1>0, <1>1, SessTypes, TokenIs DEF Spent, Known, instanceVars, cliVars, sourceVars, historyVars, StoreIsTheLastSignIns
<1>3. SignInsInOrder'
  BY <1>0, <1>1, SessTypes, TokenIs DEF Spent, Known, instanceVars, cliVars, sourceVars, historyVars, Saved, SignInsInOrder
<1>4. RunHolds'
  BY <1>0, <1>1, SessTypes, TokenIs DEF Spent, Known, instanceVars, cliVars, sourceVars, historyVars, Newest, RunHolds
<1>5. RefusedIsOver'
  BY <1>0, <1>1, SessTypes, TokenIs DEF Spent, Known, instanceVars, cliVars, sourceVars, historyVars, RefusedIsOver
<1>6. ReadIsOlder'
  BY <1>0, <1>1, SessTypes, TokenIs DEF Spent, Known, instanceVars, cliVars, sourceVars, historyVars, Newest, Served, ReadIsOlder
<1>7. StoreIsBehindTheDaemon'
  BY <1>0, <1>1, SessTypes, TokenIs DEF Spent, Known, instanceVars, cliVars, sourceVars, historyVars, Newest, Served, Saved, StoreIsTheLastSignIns, SignInsInOrder, RunHolds, RefusedIsOver, ReadIsOlder, StoreIsBehindTheDaemon, DaemonHasNewest
<1>8. DaemonHasNewest'
  BY <1>0, <1>1, SessTypes, TokenIs DEF Spent, Known, instanceVars, cliVars, sourceVars, historyVars, Newest, Served, Saved, StoreIsTheLastSignIns, SignInsInOrder, RunHolds, RefusedIsOver, ReadIsOlder, StoreIsBehindTheDaemon, DaemonHasNewest
<1> QED BY <1>1, <1>2, <1>3, <1>4, <1>5, <1>6, <1>7, <1>8 DEF SessInv

\* The store still holds what was taken from it.
LEMMA SessKeepSignIn ==
  ASSUME SessInv, KeepSignIn
  PROVE  SessInv'
<1> USE SessionAssumption
<1>0. /\ SessionTypeOK /\ StoreIsTheLastSignIns /\ SignInsInOrder /\ RunHolds /\ RefusedIsOver /\ ReadIsOlder /\ StoreIsBehindTheDaemon /\ DaemonHasNewest
  BY DEF SessInv
<1>1. SessionTypeOK'
  BY <1>0, SessTypes, TokenIs DEF KeepSignIn, Usable, Known, instanceVars, cliVars, sourceVars, historyVars, SessionTypeOK
<1>2. StoreIsTheLastSignIns'
  BY <1>0, <1>1, SessTypes, TokenIs DEF KeepSignIn, Usable, Known, instanceVars, cliVars, sourceVars, historyVars, StoreIsTheLastSignIns
<1>3. SignInsInOrder'
  BY <1>0, <1>1, SessTypes, TokenIs DEF KeepSignIn, Usable, Known, instanceVars, cliVars, sourceVars, historyVars, Saved, SignInsInOrder
<1>4. RunHolds'
  BY <1>0, <1>1, SessTypes, TokenIs DEF KeepSignIn, Usable, Known, instanceVars, cliVars, sourceVars, historyVars, Newest, RunHolds
<1>5. RefusedIsOver'
  BY <1>0, <1>1, SessTypes, TokenIs DEF KeepSignIn, Usable, Known, instanceVars, cliVars, sourceVars, historyVars, RefusedIsOver
<1>6. ReadIsOlder'
  BY <1>0, <1>1, SessTypes, TokenIs DEF KeepSignIn, Usable, Known, instanceVars, cliVars, sourceVars, historyVars, Newest, Served, ReadIsOlder
<1>7. StoreIsBehindTheDaemon'
  BY <1>0, <1>1, SessTypes, TokenIs DEF KeepSignIn, Usable, Known, instanceVars, cliVars, sourceVars, historyVars, Newest, Served, StoreIsBehindTheDaemon
<1>8. DaemonHasNewest'
  BY <1>0, <1>1, SessTypes, TokenIs DEF KeepSignIn, Usable, Known, instanceVars, cliVars, sourceVars, historyVars, Newest, Served, DaemonHasNewest
<1> QED BY <1>1, <1>2, <1>3, <1>4, <1>5, <1>6, <1>7, <1>8 DEF SessInv

\* No credential: what is held is handed back, and over unless that did not arrive.
LEMMA SessSignedOut ==
  ASSUME SessInv, NEW ok \in BOOLEAN, SignedOut(ok)
  PROVE  SessInv'
<1> USE SessionAssumption
<1>0. /\ SessionTypeOK /\ StoreIsTheLastSignIns /\ SignInsInOrder /\ RunHolds /\ RefusedIsOver /\ ReadIsOlder /\ StoreIsBehindTheDaemon /\ DaemonHasNewest
  BY DEF SessInv
<1>1. SessionTypeOK'
  <2>1. have => current[1] \in SignIns
    BY <1>0, SessTypes, TokenIs DEF RunHolds
  <2>2. over' \subseteq SignIns /\ faulted' \subseteq SignIns
    BY <1>0, <2>1, SessTypes DEF SignedOut, HandBack
  <2> QED BY <1>0, <2>2 DEF SignedOut, HandBack, instanceVars, cliVars, sourceVars, historyVars, SessionTypeOK
<1>2. StoreIsTheLastSignIns'
  BY <1>0, <1>1, SessTypes, TokenIs DEF SignedOut, HandBack, instanceVars, cliVars, sourceVars, historyVars, StoreIsTheLastSignIns
<1>3. SignInsInOrder'
  BY <1>0, <1>1, SessTypes, TokenIs DEF SignedOut, HandBack, instanceVars, cliVars, sourceVars, historyVars, Newest, Saved, SignInsInOrder, RunHolds
<1>4. RunHolds'
  BY <1>0, <1>1, SessTypes, TokenIs DEF SignedOut, HandBack, instanceVars, cliVars, sourceVars, historyVars, Newest, RunHolds
<1>5. RefusedIsOver'
  BY <1>0, <1>1, SessTypes, TokenIs DEF SignedOut, HandBack, instanceVars, cliVars, sourceVars, historyVars, RefusedIsOver
<1>6. ReadIsOlder'
  BY <1>0, <1>1, SessTypes, TokenIs DEF SignedOut, HandBack, instanceVars, cliVars, sourceVars, historyVars, Newest, Served, ReadIsOlder
<1>7. StoreIsBehindTheDaemon'
  BY <1>0, <1>1, SessTypes, TokenIs DEF SignedOut, HandBack, instanceVars, cliVars, sourceVars, historyVars, Newest, Served, Saved, SignInsInOrder, RunHolds, StoreIsBehindTheDaemon, DaemonHasNewest
<1>8. DaemonHasNewest'
  BY <1>0, <1>1, SessTypes, TokenIs DEF SignedOut, HandBack, instanceVars, cliVars, sourceVars, historyVars, Newest, Served, DaemonHasNewest
<1> QED BY <1>1, <1>2, <1>3, <1>4, <1>5, <1>6, <1>7, <1>8 DEF SessInv

\* Another sign-in is taken up: the one held is older, so it is over.
LEMMA SessTakeSignIn ==
  ASSUME SessInv, NEW ok \in BOOLEAN, TakeSignIn(ok)
  PROVE  SessInv'
<1> USE SessionAssumption
<1>0. /\ SessionTypeOK /\ StoreIsTheLastSignIns /\ SignInsInOrder /\ RunHolds /\ RefusedIsOver /\ ReadIsOlder /\ StoreIsBehindTheDaemon /\ DaemonHasNewest
  BY DEF SessInv
<1>1. SessionTypeOK'
  <2>1. (have => current[1] \in SignIns) /\ read.secret[1] \in SignIns /\ read.secret \in Tokens
    BY <1>0, SessTypes, TokenIs DEF RunHolds, ReadIsOlder, TakeSignIn, Usable
  <2>2. over' \subseteq SignIns /\ faulted' \subseteq SignIns
    BY <1>0, <2>1, SessTypes DEF TakeSignIn, HandBack
  <2>3. taken' \subseteq SignIns
    BY <1>0, <2>1, SessTypes DEF TakeSignIn
  <2> QED BY <1>0, <2>1, <2>2, <2>3 DEF TakeSignIn, HandBack, Usable, Known, instanceVars, cliVars, sourceVars, historyVars, SessionTypeOK
<1>2. StoreIsTheLastSignIns'
  BY <1>0, <1>1, SessTypes, TokenIs DEF TakeSignIn, HandBack, Usable, Known, instanceVars, cliVars, sourceVars, historyVars, StoreIsTheLastSignIns
<1>3. SignInsInOrder'
  BY <1>0, <1>1, SessTypes, TokenIs DEF TakeSignIn, HandBack, Usable, Known, instanceVars, cliVars, sourceVars, historyVars, Newest, Served, Saved, StoreIsTheLastSignIns, SignInsInOrder, RunHolds, RefusedIsOver, ReadIsOlder, StoreIsBehindTheDaemon, DaemonHasNewest
<1>4. RunHolds'
  BY <1>0, <1>1, SessTypes, TokenIs DEF TakeSignIn, HandBack, Usable, Known, instanceVars, cliVars, sourceVars, historyVars, Newest, Served, Saved, StoreIsTheLastSignIns, SignInsInOrder, RunHolds, RefusedIsOver, ReadIsOlder, StoreIsBehindTheDaemon, DaemonHasNewest
<1>5. RefusedIsOver'
  BY <1>0, <1>1, SessTypes, TokenIs DEF TakeSignIn, HandBack, Usable, Known, instanceVars, cliVars, sourceVars, historyVars, RefusedIsOver
<1>6. ReadIsOlder'
  BY <1>0, <1>1, SessTypes, TokenIs DEF TakeSignIn, HandBack, Usable, Known, instanceVars, cliVars, sourceVars, historyVars, Newest, Served, ReadIsOlder
<1>7. StoreIsBehindTheDaemon'
  BY <1>0, <1>1, SessTypes, TokenIs DEF TakeSignIn, HandBack, Usable, Known, instanceVars, cliVars, sourceVars, historyVars, Newest, Served, Saved, StoreIsTheLastSignIns, SignInsInOrder, RunHolds, RefusedIsOver, ReadIsOlder, StoreIsBehindTheDaemon, DaemonHasNewest
<1>8. DaemonHasNewest'
  BY <1>0, <1>1, SessTypes, TokenIs DEF TakeSignIn, HandBack, Usable, Known, instanceVars, cliVars, sourceVars, historyVars, Newest, Served, Saved, StoreIsTheLastSignIns, SignInsInOrder, RunHolds, RefusedIsOver, ReadIsOlder, StoreIsBehindTheDaemon, DaemonHasNewest
<1> QED BY <1>1, <1>2, <1>3, <1>4, <1>5, <1>6, <1>7, <1>8 DEF SessInv

\* A refresh: the pair in hand is the newest token.
LEMMA SessRenew ==
  ASSUME SessInv, Renew
  PROVE  SessInv'
<1> USE SessionAssumption
<1>0. /\ SessionTypeOK /\ StoreIsTheLastSignIns /\ SignInsInOrder /\ RunHolds /\ RefusedIsOver /\ ReadIsOlder /\ StoreIsBehindTheDaemon /\ DaemonHasNewest
  BY DEF SessInv
<1>1. SessionTypeOK'
  <2>1. current[1] \in SignIns /\ rotation[current[1]] + 1 \in 0..MaxRotations
    BY <1>0, SessTypes, TokenIs DEF RunHolds, Renew
  <2>2. rotation' \in [SignIns -> 0..MaxRotations]
    BY <1>0, <2>1, SessTypes DEF Renew
  <2>3. pair' \in Tokens
    BY <1>0, <2>1, TokenIs DEF Renew
  <2> QED BY <1>0, <2>2, <2>3 DEF Renew, instanceVars, cliVars, sourceVars, historyVars, SessionTypeOK
<1>2. StoreIsTheLastSignIns'
  BY <1>0, <1>1, SessTypes, TokenIs DEF Renew, instanceVars, cliVars, sourceVars, historyVars, StoreIsTheLastSignIns
<1>3. SignInsInOrder'
  BY <1>0, <1>1, SessTypes, TokenIs DEF Renew, instanceVars, cliVars, sourceVars, historyVars, Saved, SignInsInOrder
<1>4. RunHolds'
  BY <1>0, <1>1, SessTypes, TokenIs DEF Renew, instanceVars, cliVars, sourceVars, historyVars, Newest, RunHolds
<1>5. RefusedIsOver'
  BY <1>0, <1>1, SessTypes, TokenIs DEF Renew, instanceVars, cliVars, sourceVars, historyVars, RefusedIsOver
<1>6. ReadIsOlder'
  BY <1>0, <1>1, SessTypes, TokenIs DEF Renew, instanceVars, cliVars, sourceVars, historyVars, Newest, Served, ReadIsOlder
<1>7. StoreIsBehindTheDaemon'
  BY <1>0, <1>1, SessTypes, TokenIs DEF Renew, instanceVars, cliVars, sourceVars, historyVars, Newest, Served, RunHolds, StoreIsBehindTheDaemon
<1>8. DaemonHasNewest'
  BY <1>0, <1>1, SessTypes, TokenIs DEF Renew, instanceVars, cliVars, sourceVars, historyVars, Newest, Served, DaemonHasNewest
<1> QED BY <1>1, <1>2, <1>3, <1>4, <1>5, <1>6, <1>7, <1>8 DEF SessInv

\* A refresh whose answer is lost is a fault of that sign-in.
LEMMA SessLoseAnswer ==
  ASSUME SessInv, LoseAnswer
  PROVE  SessInv'
<1> USE SessionAssumption
<1>0. /\ SessionTypeOK /\ StoreIsTheLastSignIns /\ SignInsInOrder /\ RunHolds /\ RefusedIsOver /\ ReadIsOlder /\ StoreIsBehindTheDaemon /\ DaemonHasNewest
  BY DEF SessInv
<1>1. SessionTypeOK'
  <2>1. current[1] \in SignIns /\ rotation[current[1]] + 1 \in 0..MaxRotations
    BY <1>0, SessTypes, TokenIs DEF RunHolds, LoseAnswer
  <2>2. rotation' \in [SignIns -> 0..MaxRotations] /\ faulted' \subseteq SignIns
    BY <1>0, <2>1, SessTypes DEF LoseAnswer
  <2> QED BY <1>0, <2>2 DEF LoseAnswer, instanceVars, cliVars, sourceVars, historyVars, SessionTypeOK
<1>2. StoreIsTheLastSignIns'
  BY <1>0, <1>1, SessTypes, TokenIs DEF LoseAnswer, instanceVars, cliVars, sourceVars, historyVars, StoreIsTheLastSignIns
<1>3. SignInsInOrder'
  BY <1>0, <1>1, SessTypes, TokenIs DEF LoseAnswer, instanceVars, cliVars, sourceVars, historyVars, Saved, SignInsInOrder
<1>4. RunHolds'
  BY <1>0, <1>1, SessTypes, TokenIs DEF LoseAnswer, instanceVars, cliVars, sourceVars, historyVars, Newest, RunHolds
<1>5. RefusedIsOver'
  BY <1>0, <1>1, SessTypes, TokenIs DEF LoseAnswer, instanceVars, cliVars, sourceVars, historyVars, RefusedIsOver
<1>6. ReadIsOlder'
  BY <1>0, <1>1, SessTypes, TokenIs DEF LoseAnswer, instanceVars, cliVars, sourceVars, historyVars, Newest, Served, ReadIsOlder
<1>7. StoreIsBehindTheDaemon'
  BY <1>0, <1>1, SessTypes, TokenIs DEF LoseAnswer, instanceVars, cliVars, sourceVars, historyVars, Newest, Served, StoreIsBehindTheDaemon
<1>8. DaemonHasNewest'
  BY <1>0, <1>1, SessTypes, TokenIs DEF LoseAnswer, instanceVars, cliVars, sourceVars, historyVars, Newest, Served, DaemonHasNewest
<1> QED BY <1>1, <1>2, <1>3, <1>4, <1>5, <1>6, <1>7, <1>8 DEF SessInv

\* A refresh refused: the sign-in is over.
LEMMA SessRenewRefused ==
  ASSUME SessInv, RenewRefused
  PROVE  SessInv'
<1> USE SessionAssumption
<1>0. /\ SessionTypeOK /\ StoreIsTheLastSignIns /\ SignInsInOrder /\ RunHolds /\ RefusedIsOver /\ ReadIsOlder /\ StoreIsBehindTheDaemon /\ DaemonHasNewest
  BY DEF SessInv
<1>1. SessionTypeOK'
  <2>1. current[1] \in SignIns /\ current \in Tokens
    BY <1>0, SessTypes, TokenIs DEF RunHolds, RenewRefused
  <2>2. over' \subseteq SignIns
    BY <1>0, <2>1, SessTypes DEF RenewRefused
  <2> QED BY <1>0, <2>1, <2>2 DEF RenewRefused, instanceVars, cliVars, sourceVars, historyVars, SessionTypeOK
<1>2. StoreIsTheLastSignIns'
  BY <1>0, <1>1, SessTypes, TokenIs DEF RenewRefused, instanceVars, cliVars, sourceVars, historyVars, StoreIsTheLastSignIns
<1>3. SignInsInOrder'
  BY <1>0, <1>1, SessTypes, TokenIs DEF RenewRefused, instanceVars, cliVars, sourceVars, historyVars, Newest, Saved, SignInsInOrder, RunHolds
<1>4. RunHolds'
  BY <1>0, <1>1, SessTypes, TokenIs DEF RenewRefused, instanceVars, cliVars, sourceVars, historyVars, Newest, RunHolds
<1>5. RefusedIsOver'
  BY <1>0, <1>1, SessTypes, TokenIs DEF RenewRefused, instanceVars, cliVars, sourceVars, historyVars, Newest, RunHolds, RefusedIsOver
<1>6. ReadIsOlder'
  BY <1>0, <1>1, SessTypes, TokenIs DEF RenewRefused, instanceVars, cliVars, sourceVars, historyVars, Newest, Served, ReadIsOlder
<1>7. StoreIsBehindTheDaemon'
  BY <1>0, <1>1, SessTypes, TokenIs DEF RenewRefused, instanceVars, cliVars, sourceVars, historyVars, Newest, Served, RunHolds, StoreIsBehindTheDaemon
<1>8. DaemonHasNewest'
  BY <1>0, <1>1, SessTypes, TokenIs DEF RenewRefused, instanceVars, cliVars, sourceVars, historyVars, Newest, Served, DaemonHasNewest
<1> QED BY <1>1, <1>2, <1>3, <1>4, <1>5, <1>6, <1>7, <1>8 DEF SessInv

\* The new token is written where the spent one was.
LEMMA SessWriteBack ==
  ASSUME SessInv, WriteBack
  PROVE  SessInv'
<1> USE SessionAssumption
<1>0. /\ SessionTypeOK /\ StoreIsTheLastSignIns /\ SignInsInOrder /\ RunHolds /\ RefusedIsOver /\ ReadIsOlder /\ StoreIsBehindTheDaemon /\ DaemonHasNewest
  BY DEF SessInv
<1>1. SessionTypeOK'
  BY <1>0, SessTypes, TokenIs DEF WriteBack, Replaceable, instanceVars, cliVars, sourceVars, historyVars, SessionTypeOK
<1>2. StoreIsTheLastSignIns'
  BY <1>0, <1>1, SessTypes, TokenIs DEF WriteBack, Replaceable, instanceVars, cliVars, sourceVars, historyVars, Newest, StoreIsTheLastSignIns, RunHolds
<1>3. SignInsInOrder'
  BY <1>0, <1>1, SessTypes, TokenIs DEF WriteBack, Replaceable, instanceVars, cliVars, sourceVars, historyVars, Newest, Saved, SignInsInOrder, RunHolds
<1>4. RunHolds'
  BY <1>0, <1>1, SessTypes, TokenIs DEF WriteBack, Replaceable, instanceVars, cliVars, sourceVars, historyVars, Newest, RunHolds
<1>5. RefusedIsOver'
  BY <1>0, <1>1, SessTypes, TokenIs DEF WriteBack, Replaceable, instanceVars, cliVars, sourceVars, historyVars, RefusedIsOver
<1>6. ReadIsOlder'
  BY <1>0, <1>1, SessTypes, TokenIs DEF WriteBack, Replaceable, instanceVars, cliVars, sourceVars, historyVars, Newest, Served, ReadIsOlder
<1>7. StoreIsBehindTheDaemon'
  BY <1>0, <1>1, SessTypes, TokenIs DEF WriteBack, Replaceable, instanceVars, cliVars, sourceVars, historyVars, Newest, Served, RunHolds, StoreIsBehindTheDaemon
<1>8. DaemonHasNewest'
  BY <1>0, <1>1, SessTypes, TokenIs DEF WriteBack, Replaceable, instanceVars, cliVars, sourceVars, historyVars, Newest, Served, RunHolds, DaemonHasNewest
<1> QED BY <1>1, <1>2, <1>3, <1>4, <1>5, <1>6, <1>7, <1>8 DEF SessInv

\* It is kept in hand while the store cannot be written.
LEMMA SessWriteBackUnavailable ==
  ASSUME SessInv, WriteBackUnavailable
  PROVE  SessInv'
<1> USE SessionAssumption
<1>0. /\ SessionTypeOK /\ StoreIsTheLastSignIns /\ SignInsInOrder /\ RunHolds /\ RefusedIsOver /\ ReadIsOlder /\ StoreIsBehindTheDaemon /\ DaemonHasNewest
  BY DEF SessInv
<1>1. SessionTypeOK'
  BY <1>0, SessTypes, TokenIs DEF WriteBackUnavailable, instanceVars, cliVars, sourceVars, historyVars, SessionTypeOK
<1>2. StoreIsTheLastSignIns'
  BY <1>0, <1>1, SessTypes, TokenIs DEF WriteBackUnavailable, instanceVars, cliVars, sourceVars, historyVars, StoreIsTheLastSignIns
<1>3. SignInsInOrder'
  BY <1>0, <1>1, SessTypes, TokenIs DEF WriteBackUnavailable, instanceVars, cliVars, sourceVars, historyVars, Newest, Saved, SignInsInOrder, RunHolds
<1>4. RunHolds'
  BY <1>0, <1>1, SessTypes, TokenIs DEF WriteBackUnavailable, instanceVars, cliVars, sourceVars, historyVars, Newest, RunHolds
<1>5. RefusedIsOver'
  BY <1>0, <1>1, SessTypes, TokenIs DEF WriteBackUnavailable, instanceVars, cliVars, sourceVars, historyVars, RefusedIsOver
<1>6. ReadIsOlder'
  BY <1>0, <1>1, SessTypes, TokenIs DEF WriteBackUnavailable, instanceVars, cliVars, sourceVars, historyVars, Newest, Served, ReadIsOlder
<1>7. StoreIsBehindTheDaemon'
  BY <1>0, <1>1, SessTypes, TokenIs DEF WriteBackUnavailable, instanceVars, cliVars, sourceVars, historyVars, Newest, Served, StoreIsBehindTheDaemon
<1>8. DaemonHasNewest'
  BY <1>0, <1>1, SessTypes, TokenIs DEF WriteBackUnavailable, instanceVars, cliVars, sourceVars, historyVars, Newest, Served, RunHolds, DaemonHasNewest
<1> QED BY <1>1, <1>2, <1>3, <1>4, <1>5, <1>6, <1>7, <1>8 DEF SessInv

\* Somebody signed in or out meanwhile: the token obtained goes back.
LEMMA SessWriteBackChanged ==
  ASSUME SessInv, NEW ok \in BOOLEAN, WriteBackChanged(ok)
  PROVE  SessInv'
<1> USE SessionAssumption
<1>0. /\ SessionTypeOK /\ StoreIsTheLastSignIns /\ SignInsInOrder /\ RunHolds /\ RefusedIsOver /\ ReadIsOlder /\ StoreIsBehindTheDaemon /\ DaemonHasNewest
  BY DEF SessInv
<1>1. SessionTypeOK'
  <2>1. pair[1] \in SignIns
    BY <1>0, SessTypes, TokenIs DEF RunHolds, WriteBackChanged
  <2>2. over' \subseteq SignIns /\ faulted' \subseteq SignIns
    BY <1>0, <2>1, SessTypes DEF WriteBackChanged, HandBack
  <2> QED BY <1>0, <2>2 DEF WriteBackChanged, HandBack, Replaceable, instanceVars, cliVars, sourceVars, historyVars, SessionTypeOK
<1>2. StoreIsTheLastSignIns'
  BY <1>0, <1>1, SessTypes, TokenIs DEF WriteBackChanged, HandBack, Replaceable, instanceVars, cliVars, sourceVars, historyVars, StoreIsTheLastSignIns
<1>3. SignInsInOrder'
  BY <1>0, <1>1, SessTypes, TokenIs DEF WriteBackChanged, HandBack, Replaceable, instanceVars, cliVars, sourceVars, historyVars, Newest, Saved, SignInsInOrder, RunHolds
<1>4. RunHolds'
  BY <1>0, <1>1, SessTypes, TokenIs DEF WriteBackChanged, HandBack, Replaceable, instanceVars, cliVars, sourceVars, historyVars, Newest, RunHolds
<1>5. RefusedIsOver'
  BY <1>0, <1>1, SessTypes, TokenIs DEF WriteBackChanged, HandBack, Replaceable, instanceVars, cliVars, sourceVars, historyVars, RefusedIsOver
<1>6. ReadIsOlder'
  BY <1>0, <1>1, SessTypes, TokenIs DEF WriteBackChanged, HandBack, Replaceable, instanceVars, cliVars, sourceVars, historyVars, Newest, Served, ReadIsOlder
<1>7. StoreIsBehindTheDaemon'
  BY <1>0, <1>1, SessTypes, TokenIs DEF WriteBackChanged, HandBack, Replaceable, instanceVars, cliVars, sourceVars, historyVars, Newest, Served, StoreIsBehindTheDaemon
<1>8. DaemonHasNewest'
  BY <1>0, <1>1, SessTypes, TokenIs DEF WriteBackChanged, HandBack, Replaceable, instanceVars, cliVars, sourceVars, historyVars, Newest, Served, DaemonHasNewest
<1> QED BY <1>1, <1>2, <1>3, <1>4, <1>5, <1>6, <1>7, <1>8 DEF SessInv

\* Time for another refresh.
LEMMA SessDue ==
  ASSUME SessInv, Due
  PROVE  SessInv'
<1> USE SessionAssumption
<1>0. /\ SessionTypeOK /\ StoreIsTheLastSignIns /\ SignInsInOrder /\ RunHolds /\ RefusedIsOver /\ ReadIsOlder /\ StoreIsBehindTheDaemon /\ DaemonHasNewest
  BY DEF SessInv
<1>1. SessionTypeOK'
  BY <1>0, SessTypes, TokenIs DEF Due, instanceVars, cliVars, sourceVars, historyVars, SessionTypeOK
<1>2. StoreIsTheLastSignIns'
  BY <1>0, <1>1, SessTypes, TokenIs DEF Due, instanceVars, cliVars, sourceVars, historyVars, StoreIsTheLastSignIns
<1>3. SignInsInOrder'
  BY <1>0, <1>1, SessTypes, TokenIs DEF Due, instanceVars, cliVars, sourceVars, historyVars, Saved, SignInsInOrder
<1>4. RunHolds'
  BY <1>0, <1>1, SessTypes, TokenIs DEF Due, instanceVars, cliVars, sourceVars, historyVars, Newest, RunHolds
<1>5. RefusedIsOver'
  BY <1>0, <1>1, SessTypes, TokenIs DEF Due, instanceVars, cliVars, sourceVars, historyVars, RefusedIsOver
<1>6. ReadIsOlder'
  BY <1>0, <1>1, SessTypes, TokenIs DEF Due, instanceVars, cliVars, sourceVars, historyVars, Newest, Served, ReadIsOlder
<1>7. StoreIsBehindTheDaemon'
  BY <1>0, <1>1, SessTypes, TokenIs DEF Due, instanceVars, cliVars, sourceVars, historyVars, Newest, Served, StoreIsBehindTheDaemon
<1>8. DaemonHasNewest'
  BY <1>0, <1>1, SessTypes, TokenIs DEF Due, instanceVars, cliVars, sourceVars, historyVars, Newest, Served, DaemonHasNewest
<1> QED BY <1>1, <1>2, <1>3, <1>4, <1>5, <1>6, <1>7, <1>8 DEF SessInv

\* Back to the store, which changed.
LEMMA SessReload ==
  ASSUME SessInv, Reload
  PROVE  SessInv'
<1> USE SessionAssumption
<1>0. /\ SessionTypeOK /\ StoreIsTheLastSignIns /\ SignInsInOrder /\ RunHolds /\ RefusedIsOver /\ ReadIsOlder /\ StoreIsBehindTheDaemon /\ DaemonHasNewest
  BY DEF SessInv
<1>1. SessionTypeOK'
  BY <1>0, SessTypes, TokenIs DEF Reload, StoreChanged, instanceVars, cliVars, sourceVars, historyVars, SessionTypeOK
<1>2. StoreIsTheLastSignIns'
  BY <1>0, <1>1, SessTypes, TokenIs DEF Reload, StoreChanged, instanceVars, cliVars, sourceVars, historyVars, StoreIsTheLastSignIns
<1>3. SignInsInOrder'
  BY <1>0, <1>1, SessTypes, TokenIs DEF Reload, StoreChanged, instanceVars, cliVars, sourceVars, historyVars, Saved, SignInsInOrder
<1>4. RunHolds'
  BY <1>0, <1>1, SessTypes, TokenIs DEF Reload, StoreChanged, instanceVars, cliVars, sourceVars, historyVars, Newest, RunHolds
<1>5. RefusedIsOver'
  BY <1>0, <1>1, SessTypes, TokenIs DEF Reload, StoreChanged, instanceVars, cliVars, sourceVars, historyVars, RefusedIsOver
<1>6. ReadIsOlder'
  BY <1>0, <1>1, SessTypes, TokenIs DEF Reload, StoreChanged, instanceVars, cliVars, sourceVars, historyVars, Newest, Served, ReadIsOlder
<1>7. StoreIsBehindTheDaemon'
  BY <1>0, <1>1, SessTypes, TokenIs DEF Reload, StoreChanged, instanceVars, cliVars, sourceVars, historyVars, Newest, Served, StoreIsBehindTheDaemon
<1>8. DaemonHasNewest'
  BY <1>0, <1>1, SessTypes, TokenIs DEF Reload, StoreChanged, instanceVars, cliVars, sourceVars, historyVars, Newest, Served, DaemonHasNewest
<1> QED BY <1>1, <1>2, <1>3, <1>4, <1>5, <1>6, <1>7, <1>8 DEF SessInv

\* Signed out, until the store changes.
LEMMA SessWaitForStore ==
  ASSUME SessInv, WaitForStore
  PROVE  SessInv'
<1> USE SessionAssumption
<1>0. /\ SessionTypeOK /\ StoreIsTheLastSignIns /\ SignInsInOrder /\ RunHolds /\ RefusedIsOver /\ ReadIsOlder /\ StoreIsBehindTheDaemon /\ DaemonHasNewest
  BY DEF SessInv
<1>1. SessionTypeOK'
  BY <1>0, SessTypes, TokenIs DEF WaitForStore, instanceVars, cliVars, sourceVars, historyVars, SessionTypeOK
<1>2. StoreIsTheLastSignIns'
  BY <1>0, <1>1, SessTypes, TokenIs DEF WaitForStore, instanceVars, cliVars, sourceVars, historyVars, StoreIsTheLastSignIns
<1>3. SignInsInOrder'
  BY <1>0, <1>1, SessTypes, TokenIs DEF WaitForStore, instanceVars, cliVars, sourceVars, historyVars, Saved, SignInsInOrder
<1>4. RunHolds'
  BY <1>0, <1>1, SessTypes, TokenIs DEF WaitForStore, instanceVars, cliVars, sourceVars, historyVars, Newest, RunHolds
<1>5. RefusedIsOver'
  BY <1>0, <1>1, SessTypes, TokenIs DEF WaitForStore, instanceVars, cliVars, sourceVars, historyVars, RefusedIsOver
<1>6. ReadIsOlder'
  BY <1>0, <1>1, SessTypes, TokenIs DEF WaitForStore, instanceVars, cliVars, sourceVars, historyVars, Newest, Served, ReadIsOlder
<1>7. StoreIsBehindTheDaemon'
  BY <1>0, <1>1, SessTypes, TokenIs DEF WaitForStore, instanceVars, cliVars, sourceVars, historyVars, Newest, Served, StoreIsBehindTheDaemon
<1>8. DaemonHasNewest'
  BY <1>0, <1>1, SessTypes, TokenIs DEF WaitForStore, instanceVars, cliVars, sourceVars, historyVars, Newest, Served, DaemonHasNewest
<1> QED BY <1>1, <1>2, <1>3, <1>4, <1>5, <1>6, <1>7, <1>8 DEF SessInv

\* The last write as Run stops, or a fault of the sign-in held.
LEMMA SessSettleStore ==
  ASSUME SessInv, NEW ok \in BOOLEAN, SettleStore(ok)
  PROVE  SessInv'
<1> USE SessionAssumption
<1>0. /\ SessionTypeOK /\ StoreIsTheLastSignIns /\ SignInsInOrder /\ RunHolds /\ RefusedIsOver /\ ReadIsOlder /\ StoreIsBehindTheDaemon /\ DaemonHasNewest
  BY DEF SessInv
<1>1. SessionTypeOK'
  <2>1. (have => current[1] \in SignIns) /\ current \in Tokens
    BY <1>0, SessTypes, TokenIs DEF RunHolds
  <2>2. store' \in [record : BOOLEAN, secret : Tokens] /\ faulted' \subseteq SignIns
    BY <1>0, <2>1, SessTypes DEF SettleStore, StoreRecord
  <2> QED BY <1>0, <2>2 DEF SettleStore, Replaceable, instanceVars, cliVars, sourceVars, historyVars, SessionTypeOK
<1>2. StoreIsTheLastSignIns'
  <2>1. CASE store' = [store EXCEPT !.secret = current] /\ have /\ Replaceable(stored)
    <3>1. store'.secret = current /\ store'.record /\ current[1] = stored[1] /\ store.secret = stored /\ lastSaved' = lastSaved /\ store.record
      BY <1>0, <2>1, SessTypes DEF StoreRecord, RunHolds, SettleStore, Replaceable, cliVars
    <3>2. lastSaved # 0 /\ store.secret[1] = lastSaved
      BY <1>0, <3>1, SessTypes DEF StoreIsTheLastSignIns
    <3> QED BY <3>1, <3>2 DEF StoreIsTheLastSignIns
  <2>2. CASE UNCHANGED store
    BY <1>0, <2>2 DEF StoreIsTheLastSignIns, SettleStore, cliVars
  <2> QED BY <2>1, <2>2 DEF SettleStore
<1>3. SignInsInOrder'
  BY <1>0, <1>1, SessTypes, TokenIs DEF SettleStore, Replaceable, instanceVars, cliVars, sourceVars, historyVars, Saved, SignInsInOrder
<1>4. RunHolds'
  BY <1>0, <1>1, SessTypes, TokenIs DEF SettleStore, Replaceable, instanceVars, cliVars, sourceVars, historyVars, Newest, RunHolds
<1>5. RefusedIsOver'
  BY <1>0, <1>1, SessTypes, TokenIs DEF SettleStore, Replaceable, instanceVars, cliVars, sourceVars, historyVars, RefusedIsOver
<1>6. ReadIsOlder'
  BY <1>0, <1>1, SessTypes, TokenIs DEF SettleStore, Replaceable, instanceVars, cliVars, sourceVars, historyVars, Newest, Served, ReadIsOlder
<1>7. StoreIsBehindTheDaemon'
  <2>1. CASE store' = [store EXCEPT !.secret = current] /\ have /\ Replaceable(stored)
    <3>1. store'.secret = current
      BY <1>0, <2>1, SessTypes DEF StoreRecord
    <3> QED BY <1>0, <1>1, <2>1, <3>1, SessTypes, TokenIs DEF SettleStore, Replaceable, instanceVars, cliVars, sourceVars, historyVars, Newest, Served, StoreIsBehindTheDaemon, RunHolds, DaemonHasNewest
  <2>2. CASE UNCHANGED store /\ faulted' = (IF have /\ current # stored THEN faulted \cup {current[1]} ELSE faulted)
    BY <1>0, <1>1, <2>2, SessTypes, TokenIs DEF SettleStore, Replaceable, instanceVars, cliVars, sourceVars, historyVars, Newest, Served, StoreIsBehindTheDaemon, RunHolds, DaemonHasNewest
  <2> QED BY <2>1, <2>2 DEF SettleStore
<1>8. DaemonHasNewest'
  BY <1>0, <1>1, SessTypes, TokenIs DEF SettleStore, Replaceable, instanceVars, cliVars, sourceVars, historyVars, Newest, Served, DaemonHasNewest
<1> QED BY <1>1, <1>2, <1>3, <1>4, <1>5, <1>6, <1>7, <1>8 DEF SessInv

\* A crash is a fault of what only the process held.
LEMMA SessCrash ==
  ASSUME SessInv, Crash
  PROVE  SessInv'
<1> USE SessionAssumption
<1>0. /\ SessionTypeOK /\ StoreIsTheLastSignIns /\ SignInsInOrder /\ RunHolds /\ RefusedIsOver /\ ReadIsOlder /\ StoreIsBehindTheDaemon /\ DaemonHasNewest
  BY DEF SessInv
<1>1. SessionTypeOK'
  BY <1>0, SessTypes, TokenIs DEF Crash, instanceVars, cliVars, sourceVars, historyVars, SessionTypeOK
<1>2. StoreIsTheLastSignIns'
  BY <1>0, <1>1, SessTypes, TokenIs DEF Crash, instanceVars, cliVars, sourceVars, historyVars, StoreIsTheLastSignIns
<1>3. SignInsInOrder'
  BY <1>0, <1>1, SessTypes, TokenIs DEF Crash, instanceVars, cliVars, sourceVars, historyVars, Saved, SignInsInOrder
<1>4. RunHolds'
  BY <1>0, <1>1, SessTypes, TokenIs DEF Crash, instanceVars, cliVars, sourceVars, historyVars, Newest, RunHolds
<1>5. RefusedIsOver'
  BY <1>0, <1>1, SessTypes, TokenIs DEF Crash, instanceVars, cliVars, sourceVars, historyVars, RefusedIsOver
<1>6. ReadIsOlder'
  BY <1>0, <1>1, SessTypes, TokenIs DEF Crash, instanceVars, cliVars, sourceVars, historyVars, Newest, Served, ReadIsOlder
<1>7. StoreIsBehindTheDaemon'
  BY <1>0, <1>1, SessTypes, TokenIs DEF Crash, instanceVars, cliVars, sourceVars, historyVars, Newest, Served, Saved, SignInsInOrder, RunHolds, StoreIsBehindTheDaemon, DaemonHasNewest
<1>8. DaemonHasNewest'
  BY <1>0, <1>1, SessTypes, TokenIs DEF Crash, instanceVars, cliVars, sourceVars, historyVars, Newest, Served, DaemonHasNewest
<1> QED BY <1>1, <1>2, <1>3, <1>4, <1>5, <1>6, <1>7, <1>8 DEF SessInv

\* Every step.
LEMMA SessStepInv == SessInv /\ SessionNext => SessInv'
BY SessLogin, SessSave, SessClear, SessStart, SessLoad, SessSpent, SessKeepSignIn, SessSignedOut, SessTakeSignIn, SessRenew, SessLoseAnswer, SessRenewRefused, SessWriteBack, SessWriteBackUnavailable, SessWriteBackChanged, SessDue, SessReload, SessWaitForStore, SessSettleStore, SessCrash DEF SessionNext

\* A step of another part leaves it.
LEMMA SessStutterInv == SessInv /\ UNCHANGED sessionVars => SessInv'
<1> SUFFICES ASSUME SessInv, UNCHANGED sessionVars PROVE SessInv'
  OBVIOUS
<1> USE DEF sessionVars
<1>1. SessionTypeOK' /\ StoreIsTheLastSignIns' /\ SignInsInOrder' /\ RunHolds'
  BY DEF SessInv, SessionTypeOK, StoreIsTheLastSignIns, SignInsInOrder, Saved, RunHolds, Newest
<1>2. RefusedIsOver' /\ ReadIsOlder' /\ StoreIsBehindTheDaemon' /\ DaemonHasNewest'
  BY DEF SessInv, RefusedIsOver, ReadIsOlder, StoreIsBehindTheDaemon, DaemonHasNewest, Served, Newest
<1> QED BY <1>1, <1>2 DEF SessInv

\* A stopped daemon's session is in the store, or somebody signed out; a running one has it in hand.
LEMMA SessSafe == SessInv => SessionTypeOK /\ NoSessionAbandoned /\ StoreIsTheLastSignIns
<1> SUFFICES ASSUME SessInv PROVE NoSessionAbandoned
  BY DEF SessInv
<1> SUFFICES ASSUME NEW k \in taken, Served(k)
             PROVE  \/ store.secret = Newest(k)
                    \/ pc # "down" /\ have /\ current = Newest(k)
                    \/ pc = "write" /\ pair = Newest(k)
                    \/ pc = "down" /\ lastSaved = 0
  BY DEF NoSessionAbandoned, Served
<1>1. CASE pc # "down"
  BY <1>1 DEF SessInv, DaemonHasNewest
<1>2. CASE pc = "down" /\ lastSaved # 0
  <2>1. store.record /\ store.secret[1] = lastSaved /\ SessionTypeOK
    BY <1>2 DEF SessInv, StoreIsTheLastSignIns
  <2>2. k = issued /\ k <= lastSaved /\ lastSaved <= issued
    <3>1. SignInsInOrder /\ issued \in Nat /\ lastSaved \in Nat /\ taken \subseteq SignIns
      BY <2>1, SessTypes DEF SessInv
    <3>2. Saved \in {issued, issued - 1} /\ k \in 1..Saved /\ lastSaved \in 0..Saved
      BY <3>1 DEF SignInsInOrder, Saved
    <3>3. k \in Nat /\ k >= 1 /\ k <= issued /\ lastSaved <= issued
      BY <3>1, <3>2
    <3>4. k \notin 1..(issued - 1)
      BY <3>1 DEF SignInsInOrder, Served
    <3> QED BY <1>2, <3>1, <3>3, <3>4 DEF SignInsInOrder
  <2>3. k = lastSaved
    BY <2>1, <2>2, SessTypes
  <2> QED BY <1>2, <2>1, <2>3 DEF SessInv, StoreIsBehindTheDaemon
<1> QED BY <1>1, <1>2

-----------------------------------------------------------------------------
\* The port for scripts, turned on and off.

\* Where a request has the state file's lock.
UnderLock == {"open", "write", "off", "close"}

\* The stages in which the port may be as no file says yet.
Unsettled == {"write", "undo", "close"}

\* A port and its file: an open port's file is its own, and once the daemon has started there is no other.
PortOK(p, ctl) ==
  /\ p.srv <= p.n /\ (p.srv # 0 => p.file = p.srv)
  /\ ctl # "starting" => p.file = p.srv
  /\ ctl = "stopped" => p.srv = 0

\* The lock's holder is the one request under way, and knows the state file.
LockHeld ==
  /\ \A r \in Askers : stateLock = r <=> asked[r].at \in UnderLock
  /\ \A r \in Askers : asked[r].at \in {"open", "write", "off"} => asked[r].before = portState
  /\ \A r \in Askers : asked[r].at \in {"enable", "open", "write"} => asked[r].want.on
  /\ \A r \in Askers : asked[r].at = "off" => ~asked[r].want.on

\* While no request has overtaken a put-back: it is alone, the file is what it found, and the open port is
\* the file's, or what the request in progress wants.
PortFollows ==
  /\ \A r, q \in Askers : asked[r].at = "undo" /\ asked[q].at \in UnderLock \cup {"undo"} => r = q
  /\ \A r \in Askers : asked[r].at = "undo" => asked[r].before = portState
  /\ \A r \in Askers : asked[r].at = "close" => ~portState.on
  /\ \A r \in Askers : asked[r].at \in {"write", "undo"} =>
       IF srv = 0 THEN control = "stopped" ELSE openedAs = asked[r].want
  /\ (\A r \in Askers : asked[r].at \notin Unsettled) /\ srv # 0 => openedAs = portState /\ portState.on

\* The invariant of the port as its user turns it on and off.
ControlInv == ControlTypeOK /\ PortOK(OwnPort, control) /\ LockHeld /\ (~crossed => PortFollows)

\* A request, as the model keeps it.
AskRecord ==
  [at : {"idle", "enable", "disable", "open", "write", "undo", "off", "close"}, want : PortStates, before : PortStates]

\* The port and its file, as one record.
PortRecord == [srv : 0..MaxOpened, file : 0..StaleFile, n : 0..MaxOpened, as : PortStates]

\* What a silent state file and an idle request are.
LEMMA SilentIs == Silent \in PortStates /\ ~Silent.on /\ Unasked \in AskRecord /\ Unasked.at = "idle" /\ Unasked.want = Silent
BY DEF Silent, PortStates, Unasked, AskRecord

\* The open port and the file, as one record.
LEMMA OwnPortIs ==
  ASSUME ControlInv
  PROVE  /\ OwnPort \in PortRecord /\ PortOK(OwnPort, control)
         /\ OwnPort.srv = srv /\ OwnPort.file = portFile /\ OwnPort.n = opened /\ OwnPort.as = openedAs
<1>1. srv \in 0..MaxOpened /\ opened \in 0..MaxOpened
  BY ControlAssumption DEF ControlInv, ControlTypeOK
<1> QED BY <1>1 DEF ControlInv, ControlTypeOK, OwnPort, PortRecord

\* What the port becomes.
LEMMA PortBecomesOK ==
  ASSUME NEW p \in PortRecord, PortOK(p, control'), PortBecomes(p)
  PROVE  /\ srv' \in 0..opened' /\ opened' \in 0..MaxOpened /\ openedAs' \in PortStates /\ portFile' \in 0..StaleFile
         /\ PortOK(OwnPort, control)'
<1>1. /\ p.srv \in 0..MaxOpened /\ p.n \in 0..MaxOpened /\ p.file \in 0..StaleFile /\ p.as \in PortStates
      /\ srv' = p.srv /\ portFile' = p.file /\ opened' = p.n /\ openedAs' = p.as
  BY DEF PortRecord, PortBecomes
<1>2. srv' \in 0..opened'
  BY <1>1, ControlAssumption DEF PortOK
<1>3. PortOK(OwnPort, control)'
  BY <1>1 DEF PortOK, OwnPort
<1> QED BY <1>1, <1>2, <1>3

\* closeLocked leaves no port, and no file of the one it closed.
LEMMA ClosedPortIs ==
  ASSUME NEW p \in PortRecord, NEW ctl, PortOK(p, ctl)
  PROVE  /\ ClosedPort(p) \in PortRecord /\ PortOK(ClosedPort(p), ctl)
         /\ ClosedPort(p).srv = 0 /\ ClosedPort(p).n = p.n
         /\ ctl # "starting" => ClosedPort(p).file = 0
<1> DEFINE f == IF p.file = p.srv THEN 0 ELSE p.file
<1>1. 0 \in 0..MaxOpened /\ 0 \in 0..StaleFile /\ p.n \in Nat /\ f \in 0..StaleFile
  BY ControlAssumption DEF PortRecord, StaleFile
<1>2. ClosedPort(p) = [p EXCEPT !.srv = 0, !.as = Silent, !.file = f]
  BY DEF ClosedPort
<1>3. (f = 0 \/ f = p.file) /\ (p.file = p.srv => f = 0)
  OBVIOUS
<1> HIDE DEF f
<1>4. /\ ClosedPort(p) \in PortRecord /\ ClosedPort(p).srv = 0 /\ ClosedPort(p).n = p.n /\ ClosedPort(p).file = f
  BY <1>1, <1>2, SilentIs DEF PortRecord
<1> QED BY <1>1, <1>3, <1>4 DEF PortOK

\* openLocked that did not open removes at most a file that nobody's port is.
LEMMA NotOpenedIs ==
  ASSUME NEW p \in PortRecord, PortOK(p, control)
  PROVE  /\ NotOpened(p) \in PortRecord /\ PortOK(NotOpened(p), control)
         /\ NotOpened(p).srv = p.srv /\ NotOpened(p).n = p.n /\ NotOpened(p).as = p.as
         /\ control # "stopped" => NotOpened(p).file = p.srv
<1> DEFINE f == IF p.srv = 0 /\ control # "stopped" THEN 0 ELSE p.file
<1>1. f \in 0..StaleFile /\ (f = p.file \/ (f = 0 /\ p.srv = 0))
  BY ControlAssumption DEF PortRecord, StaleFile
<1>2. NotOpened(p) = [srv |-> p.srv, file |-> f, n |-> p.n, as |-> p.as]
  BY DEF NotOpened, PortRecord
<1>3. control # "stopped" => f = p.srv
  BY DEF PortOK
<1> HIDE DEF f
<1> QED BY <1>1, <1>2, <1>3 DEF PortRecord, PortOK

\* openLocked opens the port as asked, or leaves what there was.
LEMMA OpenLockedIs ==
  ASSUME NEW p \in PortRecord, PortOK(p, control), NEW st \in PortStates, NEW q \in OpenLocked(p, st)
  PROVE  /\ q \in PortRecord /\ PortOK(q, control) /\ (control # "stopped" => q.file = q.srv)
         /\ \/ ~DidOpen(p, q) /\ q.srv = p.srv /\ q.as = p.as /\ q.n = p.n
            \/ DidOpen(p, q) /\ q.srv # 0 /\ q.as = st /\ control # "stopped"
<1>0. p.n \in 0..MaxOpened
  BY DEF PortRecord
<1>1. CASE q = NotOpened(p)
  BY <1>0, <1>1, NotOpenedIs DEF DidOpen
<1>2. CASE q # NotOpened(p)
  <2>1. q = [srv |-> p.n + 1, file |-> p.n + 1, n |-> p.n + 1, as |-> st] /\ control # "stopped" /\ p.n # MaxOpened
    BY <1>2 DEF OpenLocked
  <2>2. p.n + 1 \in 0..MaxOpened /\ p.n + 1 \in 0..StaleFile /\ p.n + 1 # 0 /\ p.n + 1 > p.n /\ p.n + 1 <= p.n + 1
    BY <1>0, <2>1, ControlAssumption DEF StaleFile
  <2> QED BY <2>1, <2>2 DEF PortRecord, PortOK, DidOpen
<1> QED BY <1>1, <1>2

\* The port is off, or on record and not yet open.
LEMMA ControlInitInv == ControlInit => ControlInv
<1> SUFFICES ASSUME ControlInit PROVE ControlInv
  OBVIOUS
<1> USE ControlAssumption DEF ControlInit
<1>1. portState \in PortStates
  BY SilentIs DEF PortStates
<1>2. 0 \in 0..MaxOpened /\ 0 \in 0..0 /\ {0, StaleFile} \subseteq 0..StaleFile
  BY DEF StaleFile
<1>3. asked \in [Askers -> AskRecord] /\ \A r \in Askers : asked[r].at = "idle"
  BY SilentIs
<1>4. ControlTypeOK
  BY <1>1, <1>2, <1>3, SilentIs DEF ControlTypeOK, AskRecord
<1>5. PortOK(OwnPort, control)
  BY DEF PortOK, OwnPort
<1>6. LockHeld /\ PortFollows
  BY <1>3 DEF LockHeld, PortFollows, UnderLock, Unsettled
<1> QED BY <1>4, <1>5, <1>6 DEF ControlInv

\* One request's record replaced, and the port as it was or as closed or opened.
LEMMA AskedIs ==
  ASSUME ControlInv, NEW r \in Askers, NEW new \in AskRecord, asked' = [asked EXCEPT ![r] = new]
  PROVE  /\ asked' \in [Askers -> AskRecord]
         /\ \A q \in Askers : asked'[q] = IF q = r THEN new ELSE asked[q]
BY DEF ControlInv, ControlTypeOK, AskRecord

\* The types, by record.
LEMMA ControlTypes ==
  ASSUME control' \in {"starting", "started", "stopped"}, portState' \in PortStates, srv' \in 0..opened', opened' \in 0..MaxOpened,
         openedAs' \in PortStates, portFile' \in 0..StaleFile, stateLock' \in Askers \cup {NoOne},
         signedInTo' \in HomeInstances \cup {NoOne}, crossed' \in BOOLEAN, asked' \in [Askers -> AskRecord]
  PROVE  ControlTypeOK'
BY DEF ControlTypeOK, AskRecord

\* enable notes the instance it is for.
LEMMA ControlAskEnable ==
  ASSUME ControlInv, NEW r \in Askers, NEW port \in PortNumbers, AskEnable(r, port)
  PROVE  ControlInv'
<1> USE ControlAssumption
<1>0. /\ ControlTypeOK /\ PortOK(OwnPort, control) /\ LockHeld /\ (~crossed => PortFollows)
      /\ control \in {"starting", "started", "stopped"} /\ portState \in PortStates /\ srv \in 0..opened /\ opened \in 0..MaxOpened
      /\ openedAs \in PortStates /\ portFile \in 0..StaleFile /\ stateLock \in Askers \cup {NoOne}
      /\ signedInTo \in HomeInstances \cup {NoOne} /\ crossed \in BOOLEAN /\ asked \in [Askers -> AskRecord]
      /\ \A q \in Askers : asked[q] \in AskRecord
  BY DEF ControlInv, ControlTypeOK, AskRecord
<1> DEFINE new == [asked[r] EXCEPT !.at = "enable", !.want = [on |-> TRUE, port |-> port, for |-> signedInTo]]
<1>1. new \in AskRecord /\ new.at = "enable" /\ new.want.on
  BY <1>0, SilentIs DEF AskEnable, AskRecord, PortStates
<1>2. asked' = [asked EXCEPT ![r] = new] /\ asked[r].at = "idle" /\ UNCHANGED <<control, srv, openedAs, opened, portFile, signedInTo>> /\ UNCHANGED <<portState, stateLock, crossed>>
  BY <1>0, SilentIs DEF AskEnable, LetStateGo, AskRecord
<1> HIDE DEF new
<1>3. asked' \in [Askers -> AskRecord] /\ \A q \in Askers : asked'[q] = IF q = r THEN new ELSE asked[q]
  BY <1>1, <1>2, AskedIs
<1>4. PortOK(OwnPort, control)'
  BY <1>0, <1>2 DEF PortOK, OwnPort
<1>5. ControlTypeOK'
  BY <1>0, <1>1, <1>2, <1>3, ControlTypes DEF AskRecord
<1>6. LockHeld'
  BY <1>0, <1>1, <1>2, <1>3 DEF LockHeld, UnderLock
<1>7. ~crossed' => PortFollows'
  BY <1>0, <1>1, <1>2, <1>3 DEF PortFollows, LockHeld, UnderLock, Unsettled
<1> QED BY <1>4, <1>5, <1>6, <1>7 DEF ControlInv

\* disable has nothing to note.
LEMMA ControlAskDisable ==
  ASSUME ControlInv, NEW r \in Askers, AskDisable(r)
  PROVE  ControlInv'
<1> USE ControlAssumption
<1>0. /\ ControlTypeOK /\ PortOK(OwnPort, control) /\ LockHeld /\ (~crossed => PortFollows)
      /\ control \in {"starting", "started", "stopped"} /\ portState \in PortStates /\ srv \in 0..opened /\ opened \in 0..MaxOpened
      /\ openedAs \in PortStates /\ portFile \in 0..StaleFile /\ stateLock \in Askers \cup {NoOne}
      /\ signedInTo \in HomeInstances \cup {NoOne} /\ crossed \in BOOLEAN /\ asked \in [Askers -> AskRecord]
      /\ \A q \in Askers : asked[q] \in AskRecord
  BY DEF ControlInv, ControlTypeOK, AskRecord
<1> DEFINE new == [asked[r] EXCEPT !.at = "disable"]
<1>1. new \in AskRecord /\ new.at = "disable"
  BY <1>0, SilentIs DEF AskDisable, AskRecord, PortStates
<1>2. asked' = [asked EXCEPT ![r] = new] /\ asked[r].at = "idle" /\ UNCHANGED <<control, srv, openedAs, opened, portFile, signedInTo>> /\ UNCHANGED <<portState, stateLock, crossed>>
  BY <1>0, SilentIs DEF AskDisable, LetStateGo, AskRecord
<1> HIDE DEF new
<1>3. asked' \in [Askers -> AskRecord] /\ \A q \in Askers : asked'[q] = IF q = r THEN new ELSE asked[q]
  BY <1>1, <1>2, AskedIs
<1>4. PortOK(OwnPort, control)'
  BY <1>0, <1>2 DEF PortOK, OwnPort
<1>5. ControlTypeOK'
  BY <1>0, <1>1, <1>2, <1>3, ControlTypes DEF AskRecord
<1>6. LockHeld'
  BY <1>0, <1>1, <1>2, <1>3 DEF LockHeld, UnderLock
<1>7. ~crossed' => PortFollows'
  BY <1>0, <1>1, <1>2, <1>3 DEF PortFollows, LockHeld, UnderLock, Unsettled
<1> QED BY <1>4, <1>5, <1>6, <1>7 DEF ControlInv

\* With the lock a request has read the state file; one that meets a put-back has crossed it.
LEMMA ControlLockState ==
  ASSUME ControlInv, NEW r \in Askers, LockState(r)
  PROVE  ControlInv'
<1> USE ControlAssumption
<1>0. /\ ControlTypeOK /\ PortOK(OwnPort, control) /\ LockHeld /\ (~crossed => PortFollows)
      /\ control \in {"starting", "started", "stopped"} /\ portState \in PortStates /\ srv \in 0..opened /\ opened \in 0..MaxOpened
      /\ openedAs \in PortStates /\ portFile \in 0..StaleFile /\ stateLock \in Askers \cup {NoOne}
      /\ signedInTo \in HomeInstances \cup {NoOne} /\ crossed \in BOOLEAN /\ asked \in [Askers -> AskRecord]
      /\ \A q \in Askers : asked[q] \in AskRecord
  BY DEF ControlInv, ControlTypeOK, AskRecord
<1> DEFINE new == [asked[r] EXCEPT !.before = portState, !.at = IF @ = "enable" THEN "open" ELSE "off",
                            !.want = IF asked[r].at = "enable" THEN @ ELSE TurnedOff(portState)]
<1>1. new \in AskRecord /\ new.before = portState /\ asked[r].at \in {"enable", "disable"}
      /\ (asked[r].at = "enable" => new.at = "open" /\ new.want = asked[r].want)
      /\ (asked[r].at = "disable" => new.at = "off" /\ ~new.want.on)
  BY <1>0, SilentIs DEF LockState, AskRecord, PortStates, TurnedOff
<1>2. asked' = [asked EXCEPT ![r] = new] /\ stateLock = NoOne /\ stateLock' = r /\ crossed' = (crossed \/ \E q \in Askers : asked[q].at = "undo")
      /\ UNCHANGED <<control, srv, openedAs, opened, portFile, signedInTo>> /\ UNCHANGED portState
  BY <1>0, SilentIs DEF LockState, LetStateGo, AskRecord
<1> HIDE DEF new
<1>3. asked' \in [Askers -> AskRecord] /\ \A q \in Askers : asked'[q] = IF q = r THEN new ELSE asked[q]
  BY <1>1, <1>2, AskedIs
<1>4. PortOK(OwnPort, control)'
  BY <1>0, <1>2 DEF PortOK, OwnPort
<1>5. ControlTypeOK'
  BY <1>0, <1>1, <1>2, <1>3, ControlTypes DEF AskRecord
<1>6. LockHeld'
  BY <1>0, <1>1, <1>2, <1>3 DEF LockHeld, UnderLock
<1>7. ~crossed' => PortFollows'
  BY <1>0, <1>1, <1>2, <1>3 DEF PortFollows, LockHeld, UnderLock, Unsettled
<1> QED BY <1>4, <1>5, <1>6, <1>7 DEF ControlInv

\* Update gives up.
LEMMA ControlGiveUpOnLock ==
  ASSUME ControlInv, NEW r \in Askers, GiveUpOnLock(r)
  PROVE  ControlInv'
<1> USE ControlAssumption
<1>0. /\ ControlTypeOK /\ PortOK(OwnPort, control) /\ LockHeld /\ (~crossed => PortFollows)
      /\ control \in {"starting", "started", "stopped"} /\ portState \in PortStates /\ srv \in 0..opened /\ opened \in 0..MaxOpened
      /\ openedAs \in PortStates /\ portFile \in 0..StaleFile /\ stateLock \in Askers \cup {NoOne}
      /\ signedInTo \in HomeInstances \cup {NoOne} /\ crossed \in BOOLEAN /\ asked \in [Askers -> AskRecord]
      /\ \A q \in Askers : asked[q] \in AskRecord
  BY DEF ControlInv, ControlTypeOK, AskRecord
<1> DEFINE new == Unasked
<1>1. new \in AskRecord /\ new.at = "idle"
  BY <1>0, SilentIs DEF GiveUpOnLock, AskRecord, PortStates
<1>2. asked' = [asked EXCEPT ![r] = new] /\ asked[r].at \in {"enable", "disable"} /\ UNCHANGED <<control, srv, openedAs, opened, portFile, signedInTo>> /\ UNCHANGED <<portState, stateLock, crossed>>
  BY <1>0, SilentIs DEF GiveUpOnLock, LetStateGo, AskRecord
<1> HIDE DEF new
<1>3. asked' \in [Askers -> AskRecord] /\ \A q \in Askers : asked'[q] = IF q = r THEN new ELSE asked[q]
  BY <1>1, <1>2, AskedIs
<1>4. PortOK(OwnPort, control)'
  BY <1>0, <1>2 DEF PortOK, OwnPort
<1>5. ControlTypeOK'
  BY <1>0, <1>1, <1>2, <1>3, ControlTypes DEF AskRecord
<1>6. LockHeld'
  BY <1>0, <1>1, <1>2, <1>3 DEF LockHeld, UnderLock
<1>7. ~crossed' => PortFollows'
  BY <1>0, <1>1, <1>2, <1>3 DEF PortFollows, LockHeld, UnderLock, Unsettled
<1> QED BY <1>4, <1>5, <1>6, <1>7 DEF ControlInv

\* The state file says what the port was opened as.
LEMMA ControlEnableRecorded ==
  ASSUME ControlInv, NEW r \in Askers, EnableRecorded(r)
  PROVE  ControlInv'
<1> USE ControlAssumption
<1>0. /\ ControlTypeOK /\ PortOK(OwnPort, control) /\ LockHeld /\ (~crossed => PortFollows)
      /\ control \in {"starting", "started", "stopped"} /\ portState \in PortStates /\ srv \in 0..opened /\ opened \in 0..MaxOpened
      /\ openedAs \in PortStates /\ portFile \in 0..StaleFile /\ stateLock \in Askers \cup {NoOne}
      /\ signedInTo \in HomeInstances \cup {NoOne} /\ crossed \in BOOLEAN /\ asked \in [Askers -> AskRecord]
      /\ \A q \in Askers : asked[q] \in AskRecord
  BY DEF ControlInv, ControlTypeOK, AskRecord
<1> DEFINE new == Unasked
<1>1. new \in AskRecord /\ new.at = "idle"
  BY <1>0, SilentIs DEF EnableRecorded, AskRecord, PortStates
<1>2. asked' = [asked EXCEPT ![r] = new] /\ asked[r].at = "write" /\ portState' = asked[r].want /\ stateLock' = NoOne /\ UNCHANGED <<control, srv, openedAs, opened, portFile, signedInTo>> /\ UNCHANGED crossed
  BY <1>0, SilentIs DEF EnableRecorded, LetStateGo, AskRecord
<1> HIDE DEF new
<1>3. asked' \in [Askers -> AskRecord] /\ \A q \in Askers : asked'[q] = IF q = r THEN new ELSE asked[q]
  BY <1>1, <1>2, AskedIs
<1>4. PortOK(OwnPort, control)'
  BY <1>0, <1>2 DEF PortOK, OwnPort
<1>5. ControlTypeOK'
  BY <1>0, <1>1, <1>2, <1>3, ControlTypes DEF AskRecord
<1>6. LockHeld'
  BY <1>0, <1>1, <1>2, <1>3 DEF LockHeld, UnderLock
<1>7. ~crossed' => PortFollows'
  BY <1>0, <1>1, <1>2, <1>3 DEF PortFollows, LockHeld, UnderLock, Unsettled
<1> QED BY <1>4, <1>5, <1>6, <1>7 DEF ControlInv

\* The state file is as it was, and the port is not.
LEMMA ControlEnableNotRecorded ==
  ASSUME ControlInv, NEW r \in Askers, EnableNotRecorded(r)
  PROVE  ControlInv'
<1> USE ControlAssumption
<1>0. /\ ControlTypeOK /\ PortOK(OwnPort, control) /\ LockHeld /\ (~crossed => PortFollows)
      /\ control \in {"starting", "started", "stopped"} /\ portState \in PortStates /\ srv \in 0..opened /\ opened \in 0..MaxOpened
      /\ openedAs \in PortStates /\ portFile \in 0..StaleFile /\ stateLock \in Askers \cup {NoOne}
      /\ signedInTo \in HomeInstances \cup {NoOne} /\ crossed \in BOOLEAN /\ asked \in [Askers -> AskRecord]
      /\ \A q \in Askers : asked[q] \in AskRecord
  BY DEF ControlInv, ControlTypeOK, AskRecord
<1> DEFINE new == [asked[r] EXCEPT !.at = "undo"]
<1>1. new \in AskRecord /\ new.at = "undo" /\ new.want = asked[r].want /\ new.before = asked[r].before
  BY <1>0, SilentIs DEF EnableNotRecorded, AskRecord, PortStates
<1>2. asked' = [asked EXCEPT ![r] = new] /\ asked[r].at = "write" /\ stateLock' = NoOne /\ UNCHANGED <<control, srv, openedAs, opened, portFile, signedInTo>> /\ UNCHANGED <<portState, crossed>>
  BY <1>0, SilentIs DEF EnableNotRecorded, LetStateGo, AskRecord
<1> HIDE DEF new
<1>3. asked' \in [Askers -> AskRecord] /\ \A q \in Askers : asked'[q] = IF q = r THEN new ELSE asked[q]
  BY <1>1, <1>2, AskedIs
<1>4. PortOK(OwnPort, control)'
  BY <1>0, <1>2 DEF PortOK, OwnPort
<1>5. ControlTypeOK'
  BY <1>0, <1>1, <1>2, <1>3, ControlTypes DEF AskRecord
<1>6. LockHeld'
  BY <1>0, <1>1, <1>2, <1>3 DEF LockHeld, UnderLock
<1>7. ~crossed' => PortFollows'
  BY <1>0, <1>1, <1>2, <1>3 DEF PortFollows, LockHeld, UnderLock, Unsettled
<1> QED BY <1>4, <1>5, <1>6, <1>7 DEF ControlInv

\* The state file says the port is off; the port is closed next.
LEMMA ControlDisableRecorded ==
  ASSUME ControlInv, NEW r \in Askers, DisableRecorded(r)
  PROVE  ControlInv'
<1> USE ControlAssumption
<1>0. /\ ControlTypeOK /\ PortOK(OwnPort, control) /\ LockHeld /\ (~crossed => PortFollows)
      /\ control \in {"starting", "started", "stopped"} /\ portState \in PortStates /\ srv \in 0..opened /\ opened \in 0..MaxOpened
      /\ openedAs \in PortStates /\ portFile \in 0..StaleFile /\ stateLock \in Askers \cup {NoOne}
      /\ signedInTo \in HomeInstances \cup {NoOne} /\ crossed \in BOOLEAN /\ asked \in [Askers -> AskRecord]
      /\ \A q \in Askers : asked[q] \in AskRecord
  BY DEF ControlInv, ControlTypeOK, AskRecord
<1> DEFINE new == [asked[r] EXCEPT !.at = "close"]
<1>1. new \in AskRecord /\ new.at = "close"
  BY <1>0, SilentIs DEF DisableRecorded, AskRecord, PortStates
<1>2. asked' = [asked EXCEPT ![r] = new] /\ asked[r].at = "off" /\ portState' = asked[r].want /\ UNCHANGED <<control, srv, openedAs, opened, portFile, signedInTo>> /\ UNCHANGED <<stateLock, crossed>>
  BY <1>0, SilentIs DEF DisableRecorded, LetStateGo, AskRecord
<1> HIDE DEF new
<1>3. asked' \in [Askers -> AskRecord] /\ \A q \in Askers : asked'[q] = IF q = r THEN new ELSE asked[q]
  BY <1>1, <1>2, AskedIs
<1>4. PortOK(OwnPort, control)'
  BY <1>0, <1>2 DEF PortOK, OwnPort
<1>5. ControlTypeOK'
  BY <1>0, <1>1, <1>2, <1>3, ControlTypes DEF AskRecord
<1>6. LockHeld'
  BY <1>0, <1>1, <1>2, <1>3 DEF LockHeld, UnderLock
<1>7. ~crossed' => PortFollows'
  BY <1>0, <1>1, <1>2, <1>3 DEF PortFollows, LockHeld, UnderLock, Unsettled
<1> QED BY <1>4, <1>5, <1>6, <1>7 DEF ControlInv

\* The state file is as it was, and so is the port.
LEMMA ControlDisableNotRecorded ==
  ASSUME ControlInv, NEW r \in Askers, DisableNotRecorded(r)
  PROVE  ControlInv'
<1> USE ControlAssumption
<1>0. /\ ControlTypeOK /\ PortOK(OwnPort, control) /\ LockHeld /\ (~crossed => PortFollows)
      /\ control \in {"starting", "started", "stopped"} /\ portState \in PortStates /\ srv \in 0..opened /\ opened \in 0..MaxOpened
      /\ openedAs \in PortStates /\ portFile \in 0..StaleFile /\ stateLock \in Askers \cup {NoOne}
      /\ signedInTo \in HomeInstances \cup {NoOne} /\ crossed \in BOOLEAN /\ asked \in [Askers -> AskRecord]
      /\ \A q \in Askers : asked[q] \in AskRecord
  BY DEF ControlInv, ControlTypeOK, AskRecord
<1> DEFINE new == Unasked
<1>1. new \in AskRecord /\ new.at = "idle"
  BY <1>0, SilentIs DEF DisableNotRecorded, AskRecord, PortStates
<1>2. asked' = [asked EXCEPT ![r] = new] /\ asked[r].at = "off" /\ stateLock' = NoOne /\ UNCHANGED <<control, srv, openedAs, opened, portFile, signedInTo>> /\ UNCHANGED <<portState, crossed>>
  BY <1>0, SilentIs DEF DisableNotRecorded, LetStateGo, AskRecord
<1> HIDE DEF new
<1>3. asked' \in [Askers -> AskRecord] /\ \A q \in Askers : asked'[q] = IF q = r THEN new ELSE asked[q]
  BY <1>1, <1>2, AskedIs
<1>4. PortOK(OwnPort, control)'
  BY <1>0, <1>2 DEF PortOK, OwnPort
<1>5. ControlTypeOK'
  BY <1>0, <1>1, <1>2, <1>3, ControlTypes DEF AskRecord
<1>6. LockHeld'
  BY <1>0, <1>1, <1>2, <1>3 DEF LockHeld, UnderLock
<1>7. ~crossed' => PortFollows'
  BY <1>0, <1>1, <1>2, <1>3 DEF PortFollows, LockHeld, UnderLock, Unsettled
<1> QED BY <1>4, <1>5, <1>6, <1>7 DEF ControlInv

\* The port is closed before the lock goes.
LEMMA ControlDisableCloses ==
  ASSUME ControlInv, NEW r \in Askers, DisableCloses(r)
  PROVE  ControlInv'
<1> USE ControlAssumption
<1>0. /\ ControlTypeOK /\ PortOK(OwnPort, control) /\ LockHeld /\ (~crossed => PortFollows)
      /\ control \in {"starting", "started", "stopped"} /\ portState \in PortStates /\ srv \in 0..opened /\ opened \in 0..MaxOpened
      /\ openedAs \in PortStates /\ portFile \in 0..StaleFile /\ stateLock \in Askers \cup {NoOne}
      /\ signedInTo \in HomeInstances \cup {NoOne} /\ crossed \in BOOLEAN /\ asked \in [Askers -> AskRecord]
      /\ \A q \in Askers : asked[q] \in AskRecord
  BY DEF ControlInv, ControlTypeOK, AskRecord
<1> DEFINE new == Unasked
<1>1. new \in AskRecord /\ new.at = "idle"
  BY <1>0, SilentIs DEF DisableCloses, AskRecord, PortStates
<1>2. asked' = [asked EXCEPT ![r] = new] /\ asked[r].at = "close" /\ stateLock' = NoOne /\ PortBecomes(ClosedPort(OwnPort)) /\ UNCHANGED <<control, portState, signedInTo, crossed>>
  BY <1>0, SilentIs DEF DisableCloses, LetStateGo, AskRecord
<1> HIDE DEF new
<1>3. asked' \in [Askers -> AskRecord] /\ \A q \in Askers : asked'[q] = IF q = r THEN new ELSE asked[q]
  BY <1>1, <1>2, AskedIs
<1>p. srv' = 0 /\ PortOK(OwnPort, control)' /\ srv' \in 0..opened' /\ opened' \in 0..MaxOpened /\ openedAs' \in PortStates
      /\ portFile' \in 0..StaleFile
  <2>1. OwnPort \in PortRecord /\ PortOK(OwnPort, control)
    BY OwnPortIs
  <2>2. ClosedPort(OwnPort) \in PortRecord /\ PortOK(ClosedPort(OwnPort), control') /\ ClosedPort(OwnPort).srv = 0
    BY <1>2, <2>1, ClosedPortIs
  <2> QED BY <1>2, <2>2, PortBecomesOK DEF PortBecomes
<1>4. PortOK(OwnPort, control)'
  BY <1>p
<1>5. ControlTypeOK'
  BY <1>0, <1>1, <1>2, <1>3, <1>p, ControlTypes DEF AskRecord
<1>6. LockHeld'
  BY <1>0, <1>1, <1>2, <1>3 DEF LockHeld, UnderLock
<1>7. ~crossed' => PortFollows'
  BY <1>0, <1>1, <1>2, <1>3, <1>p DEF PortFollows, LockHeld, UnderLock, Unsettled
<1> QED BY <1>4, <1>5, <1>6, <1>7 DEF ControlInv

\* The port is as the request found it, or closed.
LEMMA ControlPutPortBack ==
  ASSUME ControlInv, NEW r \in Askers, PutPortBack(r)
  PROVE  ControlInv'
<1> USE ControlAssumption
<1>0. /\ ControlTypeOK /\ PortOK(OwnPort, control) /\ LockHeld /\ (~crossed => PortFollows)
      /\ control \in {"starting", "started", "stopped"} /\ portState \in PortStates /\ srv \in 0..opened /\ opened \in 0..MaxOpened
      /\ openedAs \in PortStates /\ portFile \in 0..StaleFile /\ stateLock \in Askers \cup {NoOne}
      /\ signedInTo \in HomeInstances \cup {NoOne} /\ crossed \in BOOLEAN /\ asked \in [Askers -> AskRecord]
      /\ \A q \in Askers : asked[q] \in AskRecord
  BY DEF ControlInv, ControlTypeOK, AskRecord
<1> DEFINE new == Unasked
<1>1. new \in AskRecord /\ new.at = "idle"
  BY <1>0, SilentIs DEF PutPortBack, AskRecord, PortStates
<1>2. asked' = [asked EXCEPT ![r] = new] /\ asked[r].at = "undo" /\ UNCHANGED <<control, portState, stateLock, signedInTo, crossed>>
  BY <1>0, SilentIs DEF PutPortBack, LetStateGo, AskRecord
<1> HIDE DEF new
<1>3. asked' \in [Askers -> AskRecord] /\ \A q \in Askers : asked'[q] = IF q = r THEN new ELSE asked[q]
  BY <1>1, <1>2, AskedIs
<1>b. \/ PortBecomes(ClosedPort(OwnPort))
      \/ asked[r].before.on /\ \E p \in OpenLocked(ClosedPort(OwnPort), asked[r].before) : PortBecomes(p)
  BY DEF PutPortBack
<1>p. /\ PortOK(OwnPort, control)' /\ srv' \in 0..opened' /\ opened' \in 0..MaxOpened /\ openedAs' \in PortStates
      /\ portFile' \in 0..StaleFile
      /\ (srv' # 0 => openedAs' = asked[r].before /\ asked[r].before.on)
  <2>1. OwnPort \in PortRecord /\ PortOK(OwnPort, control)
    BY OwnPortIs
  <2>2. ClosedPort(OwnPort) \in PortRecord /\ PortOK(ClosedPort(OwnPort), control) /\ ClosedPort(OwnPort).srv = 0
    BY <2>1, ClosedPortIs
  <2>3. PICK p \in PortRecord : /\ PortOK(p, control) /\ PortBecomes(p)
                                /\ p.srv # 0 => p.as = asked[r].before /\ asked[r].before.on
    <3>1. CASE PortBecomes(ClosedPort(OwnPort))
      BY <2>2, <3>1
    <3>2. ASSUME asked[r].before.on, NEW p \in OpenLocked(ClosedPort(OwnPort), asked[r].before), PortBecomes(p)
          PROVE  \E q \in PortRecord : PortOK(q, control) /\ PortBecomes(q) /\ (q.srv # 0 => q.as = asked[r].before /\ asked[r].before.on)
      <4>1. asked[r].before \in PortStates
        BY <1>0 DEF AskRecord
      <4>2. p \in PortRecord /\ PortOK(p, control) /\ (p.srv # 0 => p.as = asked[r].before)
        BY <2>2, <3>2, <4>1, OpenLockedIs
      <4> QED BY <3>2, <4>2
    <3> QED BY <1>b, <3>1, <3>2
  <2> QED BY <1>2, <2>3, PortBecomesOK DEF PortBecomes
<1>4. PortOK(OwnPort, control)'
  BY <1>p
<1>5. ControlTypeOK'
  BY <1>0, <1>1, <1>2, <1>3, <1>p, ControlTypes DEF AskRecord
<1>6. LockHeld'
  BY <1>0, <1>1, <1>2, <1>3 DEF LockHeld, UnderLock
<1>7. ~crossed' => PortFollows'
  BY <1>0, <1>1, <1>2, <1>3, <1>p DEF PortFollows, LockHeld, UnderLock, Unsettled
<1> QED BY <1>4, <1>5, <1>6, <1>7 DEF ControlInv

\* enable opens the port, or leaves the one that was open, or one opened again as the state says.
LEMMA ControlEnableOpens ==
  ASSUME ControlInv, NEW r \in Askers, EnableOpens(r)
  PROVE  ControlInv'
<1> USE ControlAssumption
<1>0. /\ ControlTypeOK /\ PortOK(OwnPort, control) /\ LockHeld /\ (~crossed => PortFollows)
      /\ control \in {"starting", "started", "stopped"} /\ portState \in PortStates /\ srv \in 0..opened /\ opened \in 0..MaxOpened
      /\ openedAs \in PortStates /\ portFile \in 0..StaleFile /\ stateLock \in Askers \cup {NoOne}
      /\ signedInTo \in HomeInstances \cup {NoOne} /\ crossed \in BOOLEAN /\ asked \in [Askers -> AskRecord]
      /\ \A q \in Askers : asked[q] \in AskRecord
  BY DEF ControlInv, ControlTypeOK, AskRecord
<1> DEFINE beside == srv # 0 /\ PortOf(asked[r].before) # asked[r].want.port
           room == IF beside THEN OwnPort ELSE ClosedPort(OwnPort)
<1>1. asked[r].at = "open" /\ UNCHANGED <<control, portState, signedInTo, crossed>> /\ stateLock = r
  BY <1>0 DEF EnableOpens, LockHeld, UnderLock
<1>2. asked[r].before = portState /\ asked[r].want \in PortStates /\ asked[r].before \in PortStates
  BY <1>0, <1>1 DEF LockHeld, AskRecord
<1>3. PICK p \in OpenLocked(room, asked[r].want) :
        \/ DidOpen(room, p) /\ PortBecomes(p) /\ asked' = [asked EXCEPT ![r].at = "write"] /\ UNCHANGED stateLock
        \/ ~DidOpen(room, p) /\ (srv = 0 \/ beside) /\ PortBecomes(p) /\ LetStateGo(r)
        \/ /\ ~DidOpen(room, p) /\ srv # 0 /\ ~beside /\ LetStateGo(r)
           /\ \E q \in OpenLocked(p, asked[r].before) : PortBecomes(q)
  BY DEF EnableOpens
<1>4. /\ room \in PortRecord /\ PortOK(room, control) /\ (beside => room.srv = srv /\ room.as = openedAs)
      /\ (~beside => room.srv = 0)
  BY OwnPortIs, ClosedPortIs
<1> HIDE DEF beside, room
<1>5. /\ p \in PortRecord /\ PortOK(p, control)
      /\ \/ ~DidOpen(room, p) /\ p.srv = room.srv /\ p.as = room.as
         \/ DidOpen(room, p) /\ p.srv # 0 /\ p.as = asked[r].want
  BY <1>2, <1>4, OpenLockedIs
<1>p. ASSUME NEW q \in PortRecord, PortOK(q, control), PortBecomes(q)
      PROVE  /\ srv' \in 0..opened' /\ opened' \in 0..MaxOpened /\ openedAs' \in PortStates /\ portFile' \in 0..StaleFile
             /\ PortOK(OwnPort, control)' /\ srv' = q.srv /\ openedAs' = q.as
  BY <1>1, <1>p, PortBecomesOK DEF PortBecomes
<1>6. CASE DidOpen(room, p) /\ PortBecomes(p) /\ asked' = [asked EXCEPT ![r].at = "write"] /\ UNCHANGED stateLock
  <2> DEFINE new == [asked[r] EXCEPT !.at = "write"]
  <2>1. new \in AskRecord /\ new.at = "write" /\ new.want = asked[r].want /\ new.before = asked[r].before
    BY <1>0 DEF AskRecord
  <2>2. asked' = [asked EXCEPT ![r] = new]
    BY <1>0, <1>6 DEF AskRecord
  <2> HIDE DEF new
  <2>3. asked' \in [Askers -> AskRecord] /\ \A q \in Askers : asked'[q] = IF q = r THEN new ELSE asked[q]
    BY <2>1, <2>2, AskedIs
  <2>4. srv' # 0 /\ openedAs' = asked[r].want
    BY <1>5, <1>6 DEF PortBecomes
  <2>5. ControlTypeOK' /\ PortOK(OwnPort, control)'
    BY <1>0, <1>1, <1>5, <1>6, <1>p, <2>3, ControlTypes
  <2>6. LockHeld'
    BY <1>0, <1>1, <1>2, <1>6, <2>1, <2>3 DEF LockHeld, UnderLock
  <2>7. ~crossed' => PortFollows'
    BY <1>0, <1>1, <2>1, <2>3, <2>4, <2>6 DEF PortFollows, LockHeld, UnderLock, Unsettled
  <2> QED BY <2>5, <2>6, <2>7 DEF ControlInv
<1>l. ASSUME LetStateGo(r), NEW q \in PortRecord, PortOK(q, control), PortBecomes(q),
             ~crossed /\ q.srv # 0 => q.as = portState /\ srv # 0
      PROVE  ControlInv'
  <2>1. asked' = [asked EXCEPT ![r] = Unasked] /\ stateLock' = NoOne
    BY <1>l DEF LetStateGo
  <2>2. asked' \in [Askers -> AskRecord] /\ \A s \in Askers : asked'[s] = IF s = r THEN Unasked ELSE asked[s]
    BY <2>1, SilentIs, AskedIs
  <2>3. \A s \in Askers : asked[s].at \in UnderLock => s = r
    BY <1>0, <1>1 DEF LockHeld
  <2>4. ControlTypeOK' /\ PortOK(OwnPort, control)'
    BY <1>0, <1>1, <1>l, <1>p, <2>1, <2>2, ControlTypes
  <2>5. LockHeld'
    BY <1>0, <1>1, <2>1, <2>2, <2>3, SilentIs DEF LockHeld, UnderLock
  <2>6. ~crossed => \A s \in Askers : asked[s].at \notin Unsettled
    BY <1>0, <1>1, <2>3 DEF PortFollows, UnderLock, Unsettled
  <2>7. ~crossed' => PortFollows'
    <3> SUFFICES ASSUME ~crossed PROVE PortFollows'
      BY <1>1
    <3>1. \A s \in Askers : asked'[s].at \notin Unsettled
      BY <2>2, <2>6, SilentIs DEF Unsettled
    <3>2. srv' # 0 => openedAs' = portState' /\ portState'.on
      BY <1>0, <1>1, <1>l, <1>p, <2>6 DEF PortFollows
    <3> QED BY <3>1, <3>2 DEF PortFollows, Unsettled
  <2> QED BY <2>4, <2>5, <2>7 DEF ControlInv
<1>n. \A s \in Askers : ~crossed => asked[s].at \notin Unsettled
  BY <1>0, <1>1 DEF PortFollows, LockHeld, UnderLock, Unsettled
<1>7. CASE ~DidOpen(room, p) /\ (srv = 0 \/ beside) /\ PortBecomes(p) /\ LetStateGo(r)
  <2>1. p.srv # 0 => beside /\ p.as = openedAs /\ srv # 0
    BY <1>4, <1>5, <1>7 DEF beside
  <2>2. ~crossed /\ p.srv # 0 => p.as = portState /\ srv # 0
    BY <1>0, <1>n, <2>1 DEF PortFollows
  <2> QED BY <1>5, <1>7, <1>l, <2>2
<1>8. ASSUME ~DidOpen(room, p), srv # 0, ~beside, LetStateGo(r), NEW q \in OpenLocked(p, asked[r].before), PortBecomes(q)
      PROVE  ControlInv'
  <2>1. /\ q \in PortRecord /\ PortOK(q, control) /\ (q.srv # 0 => q.srv = p.srv \/ q.as = asked[r].before)
    BY <1>2, <1>5, OpenLockedIs
  <2>2. p.srv = 0
    BY <1>4, <1>5, <1>8
  <2> QED BY <1>2, <1>8, <1>l, <2>1, <2>2
<1> QED BY <1>3, <1>6, <1>7, <1>8

\* The daemon starts and stops, and its sign-in changes.
LEMMA ControlStartStop ==
  ASSUME ControlInv, StartPort \/ StopPort \/ \E i \in HomeInstances \cup {NoOne} : SignInChanges(i)
  PROVE  ControlInv'
<1> USE ControlAssumption
<1>0. /\ ControlTypeOK /\ PortOK(OwnPort, control) /\ LockHeld /\ (~crossed => PortFollows)
      /\ control \in {"starting", "started", "stopped"} /\ portState \in PortStates /\ srv \in 0..opened /\ opened \in 0..MaxOpened
      /\ openedAs \in PortStates /\ portFile \in 0..StaleFile /\ stateLock \in Askers \cup {NoOne}
      /\ signedInTo \in HomeInstances \cup {NoOne} /\ crossed \in BOOLEAN /\ asked \in [Askers -> AskRecord]
      /\ \A q \in Askers : asked[q] \in AskRecord
  BY DEF ControlInv, ControlTypeOK, AskRecord
<1>o. OwnPort \in PortRecord /\ OwnPort.srv = srv /\ OwnPort.as = openedAs
  BY OwnPortIs
<1>1. CASE StartPort
  <2>1. control = "starting" /\ control' = "started" /\ UNCHANGED <<portState, stateLock, asked, signedInTo, crossed>>
    BY <1>1 DEF StartPort
  <2>2. PICK q \in PortRecord : /\ PortOK(q, control') /\ PortBecomes(q)
                                /\ \/ q.srv = srv /\ q.as = openedAs
                                   \/ srv = 0 /\ portState.on /\ q.as = portState
    <3>1. CASE srv # 0 /\ PortBecomes(OwnPort)
      <4>1. PortOK(OwnPort, control')
        BY <1>0, <1>o, <2>1, <3>1 DEF PortOK
      <4> QED BY <1>o, <3>1, <4>1
    <3>2. NotOpened(OwnPort) \in PortRecord /\ PortOK(NotOpened(OwnPort), control) /\ PortOK(NotOpened(OwnPort), control')
          /\ NotOpened(OwnPort).srv = srv /\ NotOpened(OwnPort).as = openedAs
      <4>1. /\ NotOpened(OwnPort) \in PortRecord /\ PortOK(NotOpened(OwnPort), control)
            /\ NotOpened(OwnPort).srv = srv /\ NotOpened(OwnPort).as = openedAs
            /\ NotOpened(OwnPort).file = NotOpened(OwnPort).srv
        BY <1>0, <1>o, <2>1, NotOpenedIs
      <4> QED BY <2>1, <4>1 DEF PortOK
    <3>3. CASE srv = 0 /\ PortBecomes(NotOpened(OwnPort))
      BY <3>2, <3>3
    <3>4. ASSUME srv = 0, portState.on, NEW p \in OpenLocked(NotOpened(OwnPort), portState), PortBecomes(p)
          PROVE  \E q \in PortRecord : /\ PortOK(q, control') /\ PortBecomes(q)
                                       /\ \/ q.srv = srv /\ q.as = openedAs
                                          \/ srv = 0 /\ portState.on /\ q.as = portState
      <4>1. /\ p \in PortRecord /\ PortOK(p, control) /\ p.file = p.srv
            /\ (p.srv = srv /\ p.as = openedAs) \/ p.as = portState
        BY <1>0, <2>1, <3>2, OpenLockedIs
      <4>2. PortOK(p, control')
        BY <2>1, <4>1 DEF PortOK
      <4> QED BY <3>4, <4>1, <4>2
    <3> QED BY <1>1, <3>1, <3>3, <3>4 DEF StartPort
  <2>3. /\ srv' \in 0..opened' /\ opened' \in 0..MaxOpened /\ openedAs' \in PortStates /\ portFile' \in 0..StaleFile
        /\ PortOK(OwnPort, control)' /\ srv' = q.srv /\ openedAs' = q.as
    BY <2>2, PortBecomesOK DEF PortBecomes
  <2>4. ControlTypeOK'
    BY <1>0, <2>1, <2>3, ControlTypes
  <2>5. LockHeld'
    BY <1>0, <2>1 DEF LockHeld
  <2>6. ~crossed' => PortFollows'
    BY <1>0, <2>1, <2>2, <2>3 DEF PortFollows, Unsettled
  <2> QED BY <2>3, <2>4, <2>5, <2>6 DEF ControlInv
<1>2. CASE StopPort
  <2>1. control' = "stopped" /\ control = "started" /\ UNCHANGED <<portState, stateLock, asked, signedInTo, crossed>> /\ PortBecomes(ClosedPort(OwnPort))
    BY <1>2 DEF StopPort
  <2>2. ClosedPort(OwnPort) \in PortRecord /\ ClosedPort(OwnPort).srv = 0 /\ PortOK(ClosedPort(OwnPort), control')
    <3>1. /\ ClosedPort(OwnPort) \in PortRecord /\ ClosedPort(OwnPort).srv = 0 /\ PortOK(ClosedPort(OwnPort), control)
          /\ ClosedPort(OwnPort).file = 0
      BY <1>0, <1>o, <2>1, ClosedPortIs
    <3> QED BY <2>1, <3>1 DEF PortOK
  <2>3. /\ srv' \in 0..opened' /\ opened' \in 0..MaxOpened /\ openedAs' \in PortStates /\ portFile' \in 0..StaleFile
        /\ PortOK(OwnPort, control)' /\ srv' = 0
    BY <2>1, <2>2, PortBecomesOK DEF PortBecomes
  <2>4. ControlTypeOK'
    BY <1>0, <2>1, <2>3, ControlTypes
  <2>5. LockHeld'
    BY <1>0, <2>1 DEF LockHeld
  <2>6. ~crossed' => PortFollows'
    BY <1>0, <2>1, <2>3 DEF PortFollows, Unsettled
  <2> QED BY <2>3, <2>4, <2>5, <2>6 DEF ControlInv
<1>3. ASSUME NEW i \in HomeInstances \cup {NoOne}, SignInChanges(i) PROVE ControlInv'
  <2>1. signedInTo' = i /\ UNCHANGED <<control, portState, srv, openedAs, opened, portFile, stateLock, asked, crossed>>
    BY <1>3 DEF SignInChanges
  <2>2. ControlTypeOK'
    BY <1>0, <2>1, ControlTypes
  <2>3. PortOK(OwnPort, control)' /\ LockHeld' /\ (~crossed' => PortFollows')
    BY <1>0, <2>1 DEF PortOK, OwnPort, LockHeld, PortFollows
  <2> QED BY <2>2, <2>3 DEF ControlInv
<1> QED BY <1>1, <1>2, <1>3

\* Every step.
LEMMA ControlStepInv == ControlInv /\ ControlNext => ControlInv'
BY ControlStartStop, ControlAskEnable, ControlAskDisable, ControlLockState, ControlGiveUpOnLock, ControlEnableOpens,
   ControlEnableRecorded, ControlEnableNotRecorded, ControlPutPortBack, ControlDisableRecorded, ControlDisableNotRecorded,
   ControlDisableCloses DEF ControlNext

\* A step of another part leaves it.
LEMMA ControlStutterInv == ControlInv /\ UNCHANGED controlVars => ControlInv'
BY DEF ControlInv, ControlTypeOK, PortOK, OwnPort, LockHeld, PortFollows, controlVars

\* What the run checks of the port for scripts.
LEMMA ControlSafe == ControlInv => ControlTypeOK /\ FileNamesThePort /\ PortAsRecorded
<1> SUFFICES ASSUME ControlInv PROVE ControlTypeOK /\ FileNamesThePort /\ PortAsRecorded
  OBVIOUS
<1>1. FileNamesThePort
  BY OwnPortIs DEF PortOK, FileNamesThePort
<1>2. PortAsRecorded
  BY DEF ControlInv, PortFollows, PortAsRecorded, Unsettled
<1> QED BY <1>1, <1>2 DEF ControlInv

-----------------------------------------------------------------------------
\* The updater.

\* What is kept of version v.
Kept(v) == [p \in {q \in Programs : Whole(v)[q] # 0} |-> Whole(v)[p]]

\* Where a program comes in the order of installation.
Place == [p \in Programs |-> IF p = "cli" THEN 1 ELSE IF p = "worker" THEN 2 ELSE 3]

\* The first programs in the order of version a, up to the n-th, and the others of version b.
Mixed(a, b, n) == [p \in Programs |-> IF Place[p] < n THEN Whole(a)[p] ELSE Whole(b)[p]]

\* What only the types of this component need.
ChoiceOK ==
  /\ previous \in [DOMAIN previous -> 0..MaxVersion]
  /\ staged # 0 => staged > running
  /\ \A v \in Versions : v \notin dropped => failures[v] < maxDownloads
  /\ stage = "keep" => staged # 0
  /\ stage = "atStart" => staged = 0
  /\ stage = "swap" => pending.phase # "none"
  /\ pending.phase # "none" => pending.to \in Versions

\* Nothing pending: what is installed is whole.
WholeWhenNone ==
  pending.phase = "none" =>
    /\ stage \in {"off", "atStart", "run", "keep", "undone"}
    /\ program["daemon"] \in Versions /\ program = Whole(program["daemon"])
    /\ stage \in {"atStart", "run", "keep"} => running = program["daemon"]
    /\ stage = "keep" => previous = Kept(running)

\* An installation begun: each program is old or new, the daemon the last to be new, and the old ones are
\* kept until all are old again.
Swapping ==
  pending.phase = "swapping" =>
    /\ pending.from \in Versions /\ pending.to \in Versions /\ pending.from < pending.to
    /\ stage \in {"off", "atStart", "restore", "settle", "run", "keep", "swap", "putBack"}
    /\ stage \notin {"off", "atStart"} => running = pending.from
    /\ stage = "atStart" => running = program["daemon"]
    /\ previous \in {Kept(pending.from), Nothing}
    /\ \A p \in Programs : program[p] \in {Whole(pending.from)[p], pending.to}
    /\ program["daemon"] = pending.to => program = Whole(pending.to)
    /\ previous = Nothing \/ stage \in {"settle", "run", "keep"} => program = Whole(pending.from)
    /\ stage = "keep" => previous = Kept(running)
    /\ stage = "swap" => staged = pending.to /\ previous = Kept(pending.from) /\ program = Mixed(pending.to, pending.from, step)
    /\ stage \in {"restore", "putBack"} =>
         /\ program["daemon"] = pending.from /\ (previous = Nothing => step = 1)
         /\ \A p \in Programs : Place[p] < step => program[p] = Whole(pending.from)[p]

\* An installation on trial: all programs are new, but for a rollback under way.
Applied ==
  pending.phase = "applied" =>
    /\ pending.from \in Versions /\ pending.to \in Versions /\ pending.from < pending.to
    /\ stage \in {"off", "atStart", "run", "confirm", "restore"}
    /\ stage # "off" => running = pending.to /\ staged = 0
    /\ previous \in {Kept(pending.from), Nothing}
    /\ stage = "restore" /\ previous = Nothing => step = 1
    /\ program = IF stage = "restore" THEN Mixed(pending.from, pending.to, step) ELSE Whole(pending.to)

\* The invariant of the updater: whole, swapping or on trial, unless a rollback was cut short.
UpdInv == UpdaterTypeOK /\ ChoiceOK /\ (~torn => WholeWhenNone /\ Swapping /\ Applied)

\* The record of an installation, as the model keeps it.
PendingRecord ==
  [from : 0..MaxVersion, to : 0..MaxVersion, phase : {"none", "swapping", "applied"}, starts : 0..unconfirmedStarts]

\* A version installed whole has a daemon and a command of its own; one that is not the first, a worker too.
LEMMA WholeIs ==
  ASSUME NEW v \in Versions
  PROVE  /\ Whole(v) \in [Programs -> 0..MaxVersion] /\ Whole(v)["daemon"] = v /\ Whole(v)["cli"] = v
         /\ v # 1 => \A p \in Programs : Whole(v)[p] = v
         /\ v \in Nat /\ v \in 0..MaxVersion /\ v # 0
         /\ \A w \in Versions : w < v => v # 1
BY UpdaterAssumption DEF Whole, Programs, Versions

\* What is kept of it is what puts it back.
LEMMA KeptIs ==
  ASSUME NEW v \in Versions
  PROVE  /\ DOMAIN Kept(v) \subseteq Programs /\ Kept(v) \in [DOMAIN Kept(v) -> 0..MaxVersion] /\ Kept(v) # Nothing
         /\ \A p \in Programs : (IF p \in DOMAIN Kept(v) THEN Kept(v)[p] ELSE 0) = Whole(v)[p]
         /\ \A p \in Programs : p \in DOMAIN Kept(v) \cup {"worker"}
<1>1. DOMAIN Kept(v) = {q \in Programs : Whole(v)[q] # 0} /\ \A p \in DOMAIN Kept(v) : Kept(v)[p] = Whole(v)[p]
  BY DEF Kept
<1>2. Whole(v) \in [Programs -> 0..MaxVersion] /\ Whole(v)["daemon"] # 0 /\ Whole(v)["cli"] # 0
  BY WholeIs
<1>3. {"daemon", "cli"} \subseteq DOMAIN Kept(v)
  BY <1>1, <1>2 DEF Programs
<1>4. DOMAIN Nothing = {}
  BY DEF Nothing
<1>5. Kept(v) = [p \in DOMAIN Kept(v) |-> Kept(v)[p]]
  BY DEF Kept
<1>6. Kept(v) \in [DOMAIN Kept(v) -> 0..MaxVersion]
  BY <1>1, <1>2, <1>5
<1> QED BY <1>1, <1>2, <1>3, <1>4, <1>6 DEF Programs

\* What is kept of a whole installation.
LEMMA KeptOf ==
  ASSUME NEW v \in Versions, program = Whole(v)
  PROVE  [p \in {q \in Programs : program[q] # 0} |-> program[p]] = Kept(v)
BY DEF Kept

\* One program after the other.
LEMMA MixedIs ==
  ASSUME NEW a \in Versions, NEW b \in Versions
  PROVE  /\ Mixed(a, b, 1) = Whole(b) /\ Mixed(a, b, 4) = Whole(a)
         /\ \A n \in 1..3 : [Mixed(a, b, n) EXCEPT ![programs[n]] = Whole(a)[programs[n]]] = Mixed(a, b, n + 1)
         /\ \A n \in 1..3 : Mixed(a, b, n)["daemon"] = b
         /\ \A n \in 1..4 : \A p \in Programs : Mixed(a, b, n)[p] \in {Whole(a)[p], Whole(b)[p]}
<1>1. /\ Whole(a) = [p \in Programs |-> Whole(a)[p]] /\ Whole(b) = [p \in Programs |-> Whole(b)[p]]
      /\ Whole(a)["daemon"] = a /\ Whole(b)["daemon"] = b
  BY WholeIs DEF Whole
<1>2. Place["cli"] = 1 /\ Place["worker"] = 2 /\ Place["daemon"] = 3 /\ "daemon" \in Programs
      /\ \A p \in Programs : Place[p] \in 1..3
  BY DEF Place, Programs
<1>3. programs[1] = "cli" /\ programs[2] = "worker" /\ programs[3] = "daemon"
  BY DEF programs
<1>4. Mixed(a, b, 1) = Whole(b) /\ Mixed(a, b, 4) = Whole(a)
  BY <1>1, <1>2 DEF Mixed
<1>5. ASSUME NEW n \in 1..3
      PROVE  [Mixed(a, b, n) EXCEPT ![programs[n]] = Whole(a)[programs[n]]] = Mixed(a, b, n + 1)
  <2>1. \A p \in Programs : Place[p] < n + 1 <=> Place[p] < n \/ p = programs[n]
    BY <1>2, <1>3 DEF Programs
  <2> QED BY <2>1 DEF Mixed
<1>6. \A n \in 1..3 : Mixed(a, b, n)["daemon"] = b
  BY <1>1, <1>2 DEF Mixed
<1>7. \A n \in 1..4 : \A p \in Programs : Mixed(a, b, n)[p] \in {Whole(a)[p], Whole(b)[p]}
  BY DEF Mixed
<1> QED BY <1>4, <1>5, <1>6, <1>7

\* The programs, in their order.
LEMMA ProgramsAre ==
  /\ Len(programs) = 3 /\ programs[1] = "cli" /\ programs[2] = "worker" /\ programs[3] = "daemon"
  /\ \A n \in 1..3 : programs[n] \in Programs /\ Place[programs[n]] = n
  /\ \A p \in Programs : Place[p] \in 1..3 /\ p = programs[Place[p]]
  /\ "daemon" \in Programs /\ "cli" \in Programs /\ Place["cli"] = 1
<1>1. Len(programs) = 3 /\ programs[1] = "cli" /\ programs[2] = "worker" /\ programs[3] = "daemon"
  BY DEF programs
<1>2. Place["cli"] = 1 /\ Place["worker"] = 2 /\ Place["daemon"] = 3
  BY DEF Place, Programs
<1> QED BY <1>1, <1>2 DEF Programs

\* The record of none.
LEMMA NoPendingIs == NoPending \in PendingRecord /\ NoPending.phase = "none" /\ DOMAIN Nothing = {} /\ Nothing \in [DOMAIN Nothing -> 0..MaxVersion]
BY UpdaterAssumption DEF NoPending, PendingRecord, Nothing

\* The types, by record.
LEMMA UpdTypes ==
  ASSUME UpdaterTypeOK
  PROVE  /\ pending \in PendingRecord /\ program \in [Programs -> 0..MaxVersion] /\ DOMAIN previous \subseteq Programs
         /\ step \in 1..4 /\ running \in 0..MaxVersion /\ staged \in 0..MaxVersion
         /\ pending.from \in 0..MaxVersion /\ pending.to \in 0..MaxVersion /\ pending.starts \in 0..unconfirmedStarts
         /\ pending.phase \in {"none", "swapping", "applied"}
BY DEF UpdaterTypeOK, PendingRecord

\* The first version, whole.
LEMMA UpdInitInv == UpdaterInit => UpdInv
<1> SUFFICES ASSUME UpdaterInit PROVE UpdInv
  OBVIOUS
<1> USE UpdaterAssumption DEF UpdaterInit
<1>1. 1 \in Versions /\ 0 \in 0..MaxVersion /\ 0 \in 0..maxDownloads /\ 0 \in 0..MaxRuns /\ 1 \in 1..4
  BY DEF Versions
<1>2. Whole(1) \in [Programs -> 0..MaxVersion] /\ Whole(1)["daemon"] = 1
  BY <1>1, WholeIs
<1>3. UpdaterTypeOK
  BY <1>1, <1>2, NoPendingIs DEF UpdaterTypeOK, PendingRecord
<1>4. ChoiceOK
  BY <1>1, NoPendingIs DEF ChoiceOK
<1>5. WholeWhenNone /\ Swapping /\ Applied
  BY <1>1, <1>2, NoPendingIs DEF WholeWhenNone, Swapping, Applied
<1> QED BY <1>3, <1>4, <1>5 DEF UpdInv

\* A start finds one of the three phases.
LEMMA UpdStartDaemon ==
  ASSUME UpdInv, StartDaemon
  PROVE  UpdInv'
<1> USE UpdaterAssumption
<1>0. /\ UpdaterTypeOK /\ ChoiceOK /\ (~torn => WholeWhenNone /\ Swapping /\ Applied)
  BY DEF UpdInv
<1>1. UpdaterTypeOK'
  <2>1. runs' \in 0..MaxRuns /\ running' \in 0..MaxVersion /\ staged' \in 0..MaxVersion
    BY <1>0, UpdTypes, ProgramsAre DEF StartDaemon, UpdaterTypeOK
  <2>2. failures' \in [Versions -> 0..maxDownloads]
    BY DEF StartDaemon
  <2> QED BY <1>0, <2>1, <2>2 DEF StartDaemon, recordVars, chosenVars, UpdaterTypeOK
<1>2. ChoiceOK'
  BY <1>0, UpdTypes, NoPendingIs, ProgramsAre, WholeIs, KeptIs DEF StartDaemon, recordVars, chosenVars, ChoiceOK, UpdaterTypeOK
<1>3. ~torn' => WholeWhenNone'
  BY <1>0, UpdTypes, NoPendingIs, ProgramsAre, WholeIs, KeptIs DEF StartDaemon, recordVars, chosenVars, WholeWhenNone, Swapping, Applied
<1>4. ~torn' => Swapping'
  BY <1>0, UpdTypes, NoPendingIs, ProgramsAre, WholeIs, KeptIs DEF StartDaemon, recordVars, chosenVars, WholeWhenNone, Swapping, Applied, ChoiceOK
<1>5. ~torn' => Applied'
  BY <1>0, UpdTypes, NoPendingIs, ProgramsAre, WholeIs, KeptIs DEF StartDaemon, recordVars, chosenVars, WholeWhenNone, Swapping, Applied
<1> QED BY <1>1, <1>2, <1>3, <1>4, <1>5 DEF UpdInv

\* A start that the record does not concern.
LEMMA UpdStartUnconcerned ==
  ASSUME UpdInv, StartUnconcerned
  PROVE  UpdInv'
<1> USE UpdaterAssumption
<1>0. /\ UpdaterTypeOK /\ ChoiceOK /\ (~torn => WholeWhenNone /\ Swapping /\ Applied)
  BY DEF UpdInv
<1>1. UpdaterTypeOK'
  <2>1. bad' \subseteq Versions /\ DOMAIN previous' \subseteq Programs /\ pending' \in PendingRecord
    BY <1>0, NoPendingIs, UpdTypes DEF StartUnconcerned, ChoiceOK, UpdaterTypeOK
  <2> QED BY <1>0, <2>1 DEF StartUnconcerned, recordVars, chosenVars, UpdaterTypeOK, PendingRecord
<1>2. ChoiceOK'
  BY <1>0, UpdTypes, NoPendingIs, ProgramsAre, WholeIs, KeptIs DEF StartUnconcerned, recordVars, chosenVars, ChoiceOK, UpdaterTypeOK
<1>3. ~torn' => WholeWhenNone'
  BY <1>0, UpdTypes, NoPendingIs, ProgramsAre, WholeIs, KeptIs DEF StartUnconcerned, recordVars, chosenVars, WholeWhenNone, Swapping, Applied
<1>4. ~torn' => Swapping'
  BY <1>0, UpdTypes, NoPendingIs, ProgramsAre, WholeIs, KeptIs DEF StartUnconcerned, recordVars, chosenVars, WholeWhenNone, Swapping, Applied, ChoiceOK
<1>5. ~torn' => Applied'
  BY <1>0, UpdTypes, NoPendingIs, ProgramsAre, WholeIs, KeptIs DEF StartUnconcerned, recordVars, chosenVars, WholeWhenNone, Swapping, Applied
<1> QED BY <1>1, <1>2, <1>3, <1>4, <1>5 DEF UpdInv

\* A start on trial is counted.
LEMMA UpdStartCounted ==
  ASSUME UpdInv, StartCounted
  PROVE  UpdInv'
<1> USE UpdaterAssumption
<1>0. /\ UpdaterTypeOK /\ ChoiceOK /\ (~torn => WholeWhenNone /\ Swapping /\ Applied)
  BY DEF UpdInv
<1>p. /\ pending' \in PendingRecord /\ pending'.phase = "applied" /\ pending'.from = pending.from /\ pending'.to = pending.to
      /\ stage' = "run" /\ stage = "atStart" /\ running = pending.to /\ pending.phase \in {"swapping", "applied"}
      /\ UNCHANGED <<program, previous, bad, step, running, chosenVars, runs, torn>>
  <2>1. pending.phase # "swapping" => pending.starts + 1 \in 0..unconfirmedStarts
    BY <1>0, UpdTypes DEF StartCounted, Undoing
  <2>2. 1 \in 0..unconfirmedStarts
    OBVIOUS
  <2>3. pending \in PendingRecord /\ pending.phase \in {"swapping", "applied"}
    BY <1>0, UpdTypes DEF StartCounted
  <2>4. CASE pending.phase = "swapping"
    <3>1. pending' = [pending EXCEPT !.phase = "applied", !.starts = 1]
      BY <2>4 DEF StartCounted
    <3>2. /\ pending' \in PendingRecord /\ pending'.phase = "applied" /\ pending'.from = pending.from /\ pending'.to = pending.to
      BY <2>2, <2>3, <3>1 DEF PendingRecord
    <3> QED BY <2>3, <3>2 DEF StartCounted
  <2>5. CASE pending.phase = "applied"
    <3>1. pending' = [pending EXCEPT !.starts = pending.starts + 1]
      BY <2>5 DEF StartCounted
    <3>2. /\ pending' \in PendingRecord /\ pending'.phase = "applied" /\ pending'.from = pending.from /\ pending'.to = pending.to
      BY <2>1, <2>3, <2>5, <3>1 DEF PendingRecord
    <3> QED BY <2>3, <3>2 DEF StartCounted
  <2> QED BY <2>3, <2>4, <2>5
<1>1. UpdaterTypeOK'
  BY <1>0, <1>p DEF StartCounted, Undoing, recordVars, chosenVars, UpdaterTypeOK, PendingRecord
<1>2. ChoiceOK'
  BY <1>0, <1>p DEF ChoiceOK, chosenVars
<1>3. ~torn' => WholeWhenNone'
  BY <1>p DEF WholeWhenNone
<1>4. ~torn' => Swapping'
  BY <1>p DEF Swapping
<1>5. ~torn' => Applied'
  <2> SUFFICES ASSUME ~torn PROVE Applied'
    BY <1>p
  <2>1. CASE pending.phase = "swapping"
    <3>1. program["daemon"] = pending.to /\ program = Whole(pending.to)
      BY <1>0, <1>p, <2>1 DEF Swapping
    <3> QED BY <1>0, <1>p, <2>1, <3>1 DEF Swapping, Applied, chosenVars, ChoiceOK
  <2>2. CASE pending.phase = "applied"
    BY <1>0, <1>p, <2>2 DEF Applied, chosenVars
  <2> QED BY <1>p, <2>1, <2>2
<1> QED BY <1>1, <1>2, <1>3, <1>4, <1>5 DEF UpdInv

\* A start that begins to put the old programs back.
LEMMA UpdStartRestoring ==
  ASSUME UpdInv, StartRestoring
  PROVE  UpdInv'
<1> USE UpdaterAssumption
<1>0. /\ UpdaterTypeOK /\ ChoiceOK /\ (~torn => WholeWhenNone /\ Swapping /\ Applied)
  BY DEF UpdInv
<1>p. /\ stage = "atStart" /\ stage' = "restore" /\ step' = 1 /\ traceback' = FALSE
      /\ \/ pending.phase = "applied" /\ running = pending.to
         \/ pending.phase = "swapping" /\ running = pending.from
      /\ UNCHANGED <<program, previous, pending, bad, running, chosenVars, runs, torn>>
  BY DEF StartRestoring, Undoing, recordVars
<1>1. UpdaterTypeOK'
  <2>1. step' \in 1..4
    BY <1>p
  <2>2. traceback' \in BOOLEAN
    BY <1>p, Zenon
  <2> QED BY <1>0, <1>p, <2>1, <2>2 DEF chosenVars, UpdaterTypeOK
<1>2. ChoiceOK'
  BY <1>0, <1>p DEF ChoiceOK, chosenVars
<1>3. ~torn' => WholeWhenNone'
  BY <1>p DEF WholeWhenNone
<1>4. ~torn' => Swapping'
  <2>1. \A p \in Programs : ~(Place[p] < step')
    BY <1>p, ProgramsAre
  <2> QED BY <1>0, <1>p, <2>1 DEF Swapping
<1>5. ~torn' => Applied'
  <2> SUFFICES ASSUME ~torn, pending.phase = "applied" PROVE Applied'
    BY <1>p DEF Applied
  <2>1. Applied
    BY <1>0
  <2>2. Mixed(pending.from, pending.to, 1) = Whole(pending.to)
    BY <2>1, MixedIs DEF Applied
  <2> QED BY <1>p, <2>1, <2>2 DEF Applied, chosenVars
<1> QED BY <1>1, <1>2, <1>3, <1>4, <1>5 DEF UpdInv

\* One program put back, in order.
LEMMA UpdRestoreProgram ==
  ASSUME UpdInv, RestoreProgram
  PROVE  UpdInv'
<1> USE UpdaterAssumption
<1>0. /\ UpdaterTypeOK /\ ChoiceOK /\ (~torn => WholeWhenNone /\ Swapping /\ Applied)
  BY DEF UpdInv
<1> DEFINE p == programs[step]
<1>p. /\ stage \in {"restore", "putBack"} /\ step \in 1..3 /\ p \in Programs /\ p \in DOMAIN previous \cup {"worker"}
      /\ program' = [program EXCEPT ![p] = IF p \in DOMAIN previous THEN previous[p] ELSE 0]
      /\ step' = step + 1 /\ UNCHANGED <<previous, pending, bad, stage, running, traceback, chosenVars, runs, torn>>
      /\ step + 1 \in 1..4
  BY <1>0, UpdTypes, ProgramsAre DEF RestoreProgram, recordVars
<1>k. ASSUME NEW v \in Versions, previous \in {Kept(v), Nothing}
      PROVE  \/ previous = Kept(v) /\ program' = [program EXCEPT ![p] = Whole(v)[p]]
             \/ p = "worker" /\ previous = Nothing
  <2>1. CASE previous = Nothing
    BY <1>p, <2>1, NoPendingIs
  <2>2. CASE previous = Kept(v)
    <3> HIDE DEF p
    <3>1. (IF p \in DOMAIN previous THEN previous[p] ELSE 0) = Whole(v)[p]
      BY <1>p, <2>2, KeptIs
    <3>2. program' = [program EXCEPT ![p] = IF p \in DOMAIN previous THEN previous[p] ELSE 0]
      BY <1>p
    <3>3. program' = [program EXCEPT ![p] = Whole(v)[p]]
      BY <3>1, <3>2
    <3> QED BY <2>2, <3>3
  <2> QED BY <1>k, <2>1, <2>2
<1> HIDE DEF p
<1>1. UpdaterTypeOK'
  <2>1. (IF p \in DOMAIN previous THEN previous[p] ELSE 0) \in 0..MaxVersion
    BY <1>0 DEF ChoiceOK
  <2>2. program' \in [Programs -> 0..MaxVersion]
    BY <1>0, <1>p, <2>1, UpdTypes
  <2> QED BY <1>0, <1>p, <2>2 DEF chosenVars, UpdaterTypeOK
<1>2. ChoiceOK'
  BY <1>0, <1>p DEF ChoiceOK, chosenVars
<1>3. ~torn' => WholeWhenNone'
  BY <1>0, <1>p DEF WholeWhenNone
<1>4. ~torn' => Swapping'
  <2> SUFFICES ASSUME ~torn, pending.phase = "swapping" PROVE Swapping'
    BY <1>p DEF Swapping
  <2> DEFINE f == pending.from
  <2>1. Swapping /\ f \in Versions /\ pending.to \in Versions /\ f < pending.to
    BY <1>0 DEF Swapping
  <2>2. program \in [Programs -> 0..MaxVersion] /\ program["daemon"] = f
    BY <1>0, <1>p, <2>1, UpdTypes DEF Swapping
  <2>3. f # pending.to
    BY <2>1, WholeIs
  <2>4. CASE previous = Kept(f) /\ program' = [program EXCEPT ![p] = Whole(f)[p]]
    <3>1. \A q \in Programs : program'[q] = IF q = p THEN Whole(f)[q] ELSE program[q]
      BY <1>p, <2>2, <2>4
    <3>2. program'["daemon"] = f
      BY <2>1, <2>2, <3>1, ProgramsAre, WholeIs
    <3>3. \A q \in Programs : Place[q] < step + 1 => Place[q] < step \/ q = p
      BY <1>p, ProgramsAre DEF p
    <3>4. Kept(f) # Nothing
      BY <2>1, KeptIs
    <3>5. \A q \in Programs : program'[q] \in {Whole(f)[q], pending.to}
      BY <2>1, <3>1 DEF Swapping
    <3>6. \A q \in Programs : Place[q] < step' => program'[q] = Whole(f)[q]
      BY <1>p, <2>1, <3>1, <3>3 DEF Swapping
    <3> QED BY <1>p, <2>1, <2>3, <2>4, <3>2, <3>4, <3>5, <3>6 DEF Swapping, chosenVars
  <2>5. CASE p = "worker" /\ previous = Nothing
    <3>1. program = Whole(f) /\ DOMAIN previous = {}
      BY <2>1, <2>5, NoPendingIs DEF Swapping
    <3>2. step = 2
      BY <1>p, <2>5, ProgramsAre DEF p
    <3> QED BY <1>p, <2>1, <2>5, <3>2 DEF Swapping
  <2> QED BY <1>k, <2>1, <2>4, <2>5 DEF Swapping
<1>5. ~torn' => Applied'
  <2> SUFFICES ASSUME ~torn, pending.phase = "applied" PROVE Applied'
    BY <1>p DEF Applied
  <2> DEFINE f == pending.from
  <2>1. Applied /\ f \in Versions /\ pending.to \in Versions /\ program = Mixed(f, pending.to, step) /\ stage = "restore"
    BY <1>0, <1>p DEF Applied
  <2>2. CASE previous = Kept(f) /\ program' = [program EXCEPT ![p] = Whole(f)[p]]
    <3>1. program' = Mixed(f, pending.to, step + 1)
      BY <1>p, <2>1, <2>2, MixedIs DEF p
    <3>2. Kept(f) # Nothing
      BY <2>1, KeptIs
    <3> QED BY <1>p, <2>1, <2>2, <3>1, <3>2 DEF Applied, chosenVars
  <2>3. CASE p = "worker" /\ previous = Nothing
    <3>1. step = 2
      BY <1>p, <2>3, ProgramsAre DEF p
    <3> QED BY <2>1, <2>3, <3>1 DEF Applied
  <2> QED BY <1>k, <2>1, <2>2, <2>3 DEF Applied
<1> QED BY <1>1, <1>2, <1>3, <1>4, <1>5 DEF UpdInv

\* One that could not be.
LEMMA UpdRestoreFails ==
  ASSUME UpdInv, RestoreFails
  PROVE  UpdInv'
<1> USE UpdaterAssumption
<1>0. /\ UpdaterTypeOK /\ ChoiceOK /\ (~torn => WholeWhenNone /\ Swapping /\ Applied)
  BY DEF UpdInv
<1>1. UpdaterTypeOK'
  BY <1>0, UpdTypes, NoPendingIs, ProgramsAre, WholeIs, KeptIs DEF RestoreFails, recordVars, chosenVars, UpdaterTypeOK, PendingRecord
<1>2. ChoiceOK'
  BY <1>0, UpdTypes, NoPendingIs, ProgramsAre, WholeIs, KeptIs DEF RestoreFails, recordVars, chosenVars, ChoiceOK, UpdaterTypeOK
<1>3. ~torn' => WholeWhenNone'
  BY <1>0, UpdTypes, NoPendingIs, ProgramsAre, WholeIs, KeptIs DEF RestoreFails, recordVars, chosenVars, WholeWhenNone, Swapping, Applied
<1>4. ~torn' => Swapping'
  BY <1>0, UpdTypes, NoPendingIs, ProgramsAre, WholeIs, KeptIs DEF RestoreFails, recordVars, chosenVars, WholeWhenNone, Swapping, Applied, ChoiceOK
<1>5. ~torn' => Applied'
  <2>1. ~torn /\ pending.phase = "applied" => Mixed(pending.from, pending.to, 1) = Whole(pending.to)
    BY <1>0, MixedIs DEF Applied
  <2> QED BY <1>0, <2>1 DEF RestoreFails, recordVars, chosenVars, Applied
<1> QED BY <1>1, <1>2, <1>3, <1>4, <1>5 DEF UpdInv

\* What was kept goes once nothing needs it.
LEMMA UpdDropKept ==
  ASSUME UpdInv, DropKept
  PROVE  UpdInv'
<1> USE UpdaterAssumption
<1>0. /\ UpdaterTypeOK /\ ChoiceOK /\ (~torn => WholeWhenNone /\ Swapping /\ Applied)
  BY DEF UpdInv
<1>1. UpdaterTypeOK'
  BY <1>0, UpdTypes, NoPendingIs, ProgramsAre, WholeIs, KeptIs DEF DropKept, recordVars, chosenVars, UpdaterTypeOK, PendingRecord
<1>2. ChoiceOK'
  BY <1>0, UpdTypes, NoPendingIs, ProgramsAre, WholeIs, KeptIs DEF DropKept, recordVars, chosenVars, ChoiceOK, UpdaterTypeOK
<1>3. ~torn' => WholeWhenNone'
  BY <1>0, UpdTypes, NoPendingIs, ProgramsAre, WholeIs, KeptIs DEF DropKept, recordVars, chosenVars, WholeWhenNone, Swapping, Applied
<1>4. ~torn' => Swapping'
  <2> SUFFICES ASSUME ~torn PROVE Swapping'
    BY DEF DropKept
  <2>1. \A p \in Programs : program[p] = Whole(pending.from)[p]
    BY <1>0, UpdTypes, ProgramsAre DEF DropKept, Swapping
  <2>2. program = Whole(pending.from)
    BY <1>0, <2>1, UpdTypes DEF DropKept, Swapping, Whole
  <2>3. pending.from # pending.to
    BY <1>0, WholeIs DEF DropKept, Swapping
  <2> QED BY <1>0, <2>2, <2>3 DEF DropKept, recordVars, chosenVars, Swapping
<1>5. ~torn' => Applied'
  BY <1>0, UpdTypes, NoPendingIs, ProgramsAre, WholeIs, KeptIs DEF DropKept, recordVars, chosenVars, WholeWhenNone, Swapping, Applied
<1> QED BY <1>1, <1>2, <1>3, <1>4, <1>5 DEF UpdInv

\* The record goes once the old programs are back.
LEMMA UpdSettle ==
  ASSUME UpdInv, Settle
  PROVE  UpdInv'
<1> USE UpdaterAssumption
<1>0. /\ UpdaterTypeOK /\ ChoiceOK /\ (~torn => WholeWhenNone /\ Swapping /\ Applied)
  BY DEF UpdInv
<1>1. UpdaterTypeOK'
  BY <1>0, UpdTypes, NoPendingIs, ProgramsAre, WholeIs, KeptIs DEF Settle, recordVars, chosenVars, UpdaterTypeOK, PendingRecord
<1>2. ChoiceOK'
  BY <1>0, UpdTypes, NoPendingIs, ProgramsAre, WholeIs, KeptIs DEF Settle, recordVars, chosenVars, ChoiceOK, UpdaterTypeOK
<1>3. ~torn' => WholeWhenNone'
  BY <1>0, UpdTypes, NoPendingIs, ProgramsAre, WholeIs, KeptIs DEF Settle, recordVars, chosenVars, WholeWhenNone, Swapping, Applied
<1>4. ~torn' => Swapping'
  BY <1>0, UpdTypes, NoPendingIs, ProgramsAre, WholeIs, KeptIs DEF Settle, recordVars, chosenVars, WholeWhenNone, Swapping, Applied, ChoiceOK
<1>5. ~torn' => Applied'
  BY <1>0, UpdTypes, NoPendingIs, ProgramsAre, WholeIs, KeptIs DEF Settle, recordVars, chosenVars, WholeWhenNone, Swapping, Applied
<1> QED BY <1>1, <1>2, <1>3, <1>4, <1>5 DEF UpdInv

\* A rollback complete is recorded.
LEMMA UpdRecordRollback ==
  ASSUME UpdInv, RecordRollback
  PROVE  UpdInv'
<1> USE UpdaterAssumption
<1>0. /\ UpdaterTypeOK /\ ChoiceOK /\ (~torn => WholeWhenNone /\ Swapping /\ Applied)
  BY DEF UpdInv
<1>1. UpdaterTypeOK'
  <2>1. bad' \subseteq Versions /\ pending' \in PendingRecord
    BY <1>0, NoPendingIs DEF RecordRollback, ChoiceOK, UpdaterTypeOK
  <2> QED BY <1>0, <2>1 DEF RecordRollback, recordVars, chosenVars, UpdaterTypeOK, PendingRecord
<1>2. ChoiceOK'
  BY <1>0, UpdTypes, NoPendingIs, ProgramsAre, WholeIs, KeptIs DEF RecordRollback, recordVars, chosenVars, ChoiceOK, UpdaterTypeOK
<1>3. ~torn' => WholeWhenNone'
  <2> SUFFICES ASSUME ~torn PROVE WholeWhenNone'
    BY DEF RecordRollback
  <2>1. step = 4 /\ pending.from \in Versions /\ pending.to \in Versions /\ program = Mixed(pending.from, pending.to, step)
    BY <1>0, UpdTypes, ProgramsAre DEF RecordRollback, Applied
  <2>2. program = Whole(pending.from) /\ program["daemon"] = pending.from
    BY <2>1, MixedIs, WholeIs
  <2> QED BY <2>1, <2>2 DEF RecordRollback, recordVars, chosenVars, WholeWhenNone
<1>4. ~torn' => Swapping'
  BY <1>0, UpdTypes, NoPendingIs, ProgramsAre, WholeIs, KeptIs DEF RecordRollback, recordVars, chosenVars, WholeWhenNone, Swapping, Applied, ChoiceOK
<1>5. ~torn' => Applied'
  BY <1>0, UpdTypes, NoPendingIs, ProgramsAre, WholeIs, KeptIs DEF RecordRollback, recordVars, chosenVars, WholeWhenNone, Swapping, Applied
<1> QED BY <1>1, <1>2, <1>3, <1>4, <1>5 DEF UpdInv

\* What was kept for it goes.
LEMMA UpdDropUndone ==
  ASSUME UpdInv, DropUndone
  PROVE  UpdInv'
<1> USE UpdaterAssumption
<1>0. /\ UpdaterTypeOK /\ ChoiceOK /\ (~torn => WholeWhenNone /\ Swapping /\ Applied)
  BY DEF UpdInv
<1>1. UpdaterTypeOK'
  BY <1>0, UpdTypes, NoPendingIs, ProgramsAre, WholeIs, KeptIs DEF DropUndone, recordVars, chosenVars, UpdaterTypeOK, PendingRecord
<1>2. ChoiceOK'
  BY <1>0, UpdTypes, NoPendingIs, ProgramsAre, WholeIs, KeptIs DEF DropUndone, recordVars, chosenVars, ChoiceOK, UpdaterTypeOK
<1>3. ~torn' => WholeWhenNone'
  BY <1>0, UpdTypes, NoPendingIs, ProgramsAre, WholeIs, KeptIs DEF DropUndone, recordVars, chosenVars, WholeWhenNone, Swapping, Applied
<1>4. ~torn' => Swapping'
  BY <1>0, UpdTypes, NoPendingIs, ProgramsAre, WholeIs, KeptIs DEF DropUndone, recordVars, chosenVars, WholeWhenNone, Swapping, Applied, ChoiceOK
<1>5. ~torn' => Applied'
  BY <1>0, UpdTypes, NoPendingIs, ProgramsAre, WholeIs, KeptIs DEF DropUndone, recordVars, chosenVars, WholeWhenNone, Swapping, Applied
<1> QED BY <1>1, <1>2, <1>3, <1>4, <1>5 DEF UpdInv

\* The mode is no part of what is installed.
LEMMA UpdSetMode ==
  ASSUME UpdInv, NEW m \in {"auto", "notify", "off"}, SetMode(m)
  PROVE  UpdInv'
<1> USE UpdaterAssumption
<1>0. /\ UpdaterTypeOK /\ ChoiceOK /\ (~torn => WholeWhenNone /\ Swapping /\ Applied)
  BY DEF UpdInv
<1>1. UpdaterTypeOK'
  BY <1>0, UpdTypes, NoPendingIs, ProgramsAre, WholeIs, KeptIs DEF SetMode, recordVars, chosenVars, UpdaterTypeOK, PendingRecord
<1>2. ChoiceOK'
  BY <1>0, UpdTypes, NoPendingIs, ProgramsAre, WholeIs, KeptIs DEF SetMode, recordVars, chosenVars, ChoiceOK, UpdaterTypeOK
<1>3. ~torn' => WholeWhenNone'
  BY <1>0, UpdTypes, NoPendingIs, ProgramsAre, WholeIs, KeptIs DEF SetMode, recordVars, chosenVars, WholeWhenNone, Swapping, Applied
<1>4. ~torn' => Swapping'
  BY <1>0, UpdTypes, NoPendingIs, ProgramsAre, WholeIs, KeptIs DEF SetMode, recordVars, chosenVars, WholeWhenNone, Swapping, Applied, ChoiceOK
<1>5. ~torn' => Applied'
  BY <1>0, UpdTypes, NoPendingIs, ProgramsAre, WholeIs, KeptIs DEF SetMode, recordVars, chosenVars, WholeWhenNone, Swapping, Applied
<1> QED BY <1>1, <1>2, <1>3, <1>4, <1>5 DEF UpdInv

\* What was staged is let go.
LEMMA UpdLetGo ==
  ASSUME UpdInv, LetGo
  PROVE  UpdInv'
<1> USE UpdaterAssumption
<1>0. /\ UpdaterTypeOK /\ ChoiceOK /\ (~torn => WholeWhenNone /\ Swapping /\ Applied)
  BY DEF UpdInv
<1>1. UpdaterTypeOK'
  <2>1. staged' \in 0..MaxVersion
    BY DEF LetGo
  <2> QED BY <1>0, <2>1 DEF LetGo, recordVars, chosenVars, UpdaterTypeOK
<1>2. ChoiceOK'
  BY <1>0, UpdTypes, NoPendingIs, ProgramsAre, WholeIs, KeptIs DEF LetGo, recordVars, chosenVars, ChoiceOK, UpdaterTypeOK
<1>3. ~torn' => WholeWhenNone'
  BY <1>0, UpdTypes, NoPendingIs, ProgramsAre, WholeIs, KeptIs DEF LetGo, recordVars, chosenVars, WholeWhenNone, Swapping, Applied
<1>4. ~torn' => Swapping'
  BY <1>0, UpdTypes, NoPendingIs, ProgramsAre, WholeIs, KeptIs DEF LetGo, recordVars, chosenVars, WholeWhenNone, Swapping, Applied, ChoiceOK
<1>5. ~torn' => Applied'
  BY <1>0, UpdTypes, NoPendingIs, ProgramsAre, WholeIs, KeptIs DEF LetGo, recordVars, chosenVars, WholeWhenNone, Swapping, Applied
<1> QED BY <1>1, <1>2, <1>3, <1>4, <1>5 DEF UpdInv

\* The staged release is to be installed.
LEMMA UpdApplyStaged ==
  ASSUME UpdInv, ApplyStaged
  PROVE  UpdInv'
<1> USE UpdaterAssumption
<1>0. /\ UpdaterTypeOK /\ ChoiceOK /\ (~torn => WholeWhenNone /\ Swapping /\ Applied)
  BY DEF UpdInv
<1>1. UpdaterTypeOK'
  BY <1>0, UpdTypes, NoPendingIs, ProgramsAre, WholeIs, KeptIs DEF ApplyStaged, recordVars, chosenVars, UpdaterTypeOK, PendingRecord
<1>2. ChoiceOK'
  BY <1>0, UpdTypes, NoPendingIs, ProgramsAre, WholeIs, KeptIs DEF ApplyStaged, recordVars, chosenVars, ChoiceOK, UpdaterTypeOK
<1>3. ~torn' => WholeWhenNone'
  BY <1>0, UpdTypes, NoPendingIs, ProgramsAre, WholeIs, KeptIs DEF ApplyStaged, recordVars, chosenVars, WholeWhenNone, Swapping, Applied
<1>4. ~torn' => Swapping'
  BY <1>0, UpdTypes, NoPendingIs, ProgramsAre, WholeIs, KeptIs DEF ApplyStaged, recordVars, chosenVars, WholeWhenNone, Swapping, Applied, ChoiceOK
<1>5. ~torn' => Applied'
  BY <1>0, UpdTypes, NoPendingIs, ProgramsAre, WholeIs, KeptIs DEF ApplyStaged, recordVars, chosenVars, WholeWhenNone, Swapping, Applied
<1> QED BY <1>1, <1>2, <1>3, <1>4, <1>5 DEF UpdInv

\* The trial is over.
LEMMA UpdConfirm ==
  ASSUME UpdInv, Confirm
  PROVE  UpdInv'
<1> USE UpdaterAssumption
<1>0. /\ UpdaterTypeOK /\ ChoiceOK /\ (~torn => WholeWhenNone /\ Swapping /\ Applied)
  BY DEF UpdInv
<1>1. UpdaterTypeOK'
  BY <1>0, UpdTypes, NoPendingIs, ProgramsAre, WholeIs, KeptIs DEF Confirm, recordVars, chosenVars, UpdaterTypeOK, PendingRecord
<1>2. ChoiceOK'
  BY <1>0, UpdTypes, NoPendingIs, ProgramsAre, WholeIs, KeptIs DEF Confirm, recordVars, chosenVars, ChoiceOK, UpdaterTypeOK
<1>3. ~torn' => WholeWhenNone'
  BY <1>0, UpdTypes, NoPendingIs, ProgramsAre, WholeIs, KeptIs DEF Confirm, recordVars, chosenVars, WholeWhenNone, Swapping, Applied
<1>4. ~torn' => Swapping'
  BY <1>0, UpdTypes, NoPendingIs, ProgramsAre, WholeIs, KeptIs DEF Confirm, recordVars, chosenVars, WholeWhenNone, Swapping, Applied, ChoiceOK
<1>5. ~torn' => Applied'
  BY <1>0, UpdTypes, NoPendingIs, ProgramsAre, WholeIs, KeptIs DEF Confirm, recordVars, chosenVars, WholeWhenNone, Swapping, Applied
<1> QED BY <1>1, <1>2, <1>3, <1>4, <1>5 DEF UpdInv

\* Its record goes.
LEMMA UpdConfirmed ==
  ASSUME UpdInv, Confirmed
  PROVE  UpdInv'
<1> USE UpdaterAssumption
<1>0. /\ UpdaterTypeOK /\ ChoiceOK /\ (~torn => WholeWhenNone /\ Swapping /\ Applied)
  BY DEF UpdInv
<1>1. UpdaterTypeOK'
  BY <1>0, UpdTypes, NoPendingIs, ProgramsAre, WholeIs, KeptIs DEF Confirmed, recordVars, chosenVars, UpdaterTypeOK, PendingRecord
<1>2. ChoiceOK'
  BY <1>0, UpdTypes, NoPendingIs, ProgramsAre, WholeIs, KeptIs DEF Confirmed, recordVars, chosenVars, ChoiceOK, UpdaterTypeOK
<1>3. ~torn' => WholeWhenNone'
  BY <1>0, UpdTypes, NoPendingIs, ProgramsAre, WholeIs, KeptIs DEF Confirmed, recordVars, chosenVars, WholeWhenNone, Swapping, Applied
<1>4. ~torn' => Swapping'
  BY <1>0, UpdTypes, NoPendingIs, ProgramsAre, WholeIs, KeptIs DEF Confirmed, recordVars, chosenVars, WholeWhenNone, Swapping, Applied, ChoiceOK
<1>5. ~torn' => Applied'
  BY <1>0, UpdTypes, NoPendingIs, ProgramsAre, WholeIs, KeptIs DEF Confirmed, recordVars, chosenVars, WholeWhenNone, Swapping, Applied
<1> QED BY <1>1, <1>2, <1>3, <1>4, <1>5 DEF UpdInv

\* The daemon exits in order.
LEMMA UpdCleanExit ==
  ASSUME UpdInv, CleanExit
  PROVE  UpdInv'
<1> USE UpdaterAssumption
<1>0. /\ UpdaterTypeOK /\ ChoiceOK /\ (~torn => WholeWhenNone /\ Swapping /\ Applied)
  BY DEF UpdInv
<1>p. /\ pending' \in PendingRecord /\ pending'.phase = pending.phase /\ pending'.from = pending.from /\ pending'.to = pending.to
  <2>1. CASE pending.phase = "applied" /\ pending.starts > 0
    <3>1. pending.starts - 1 \in 0..unconfirmedStarts /\ pending \in PendingRecord
      BY <1>0, <2>1, UpdTypes
    <3>2. pending' = [pending EXCEPT !.starts = pending.starts - 1]
      BY <2>1 DEF CleanExit
    <3> QED BY <3>1, <3>2 DEF PendingRecord
  <2>2. CASE ~(pending.phase = "applied" /\ pending.starts > 0)
    BY <1>0, <2>2, UpdTypes DEF CleanExit
  <2> QED BY <2>1, <2>2
<1>q. /\ stage = "run" /\ stage' = "off"
      /\ UNCHANGED <<program, previous, bad, step, running, traceback, chosenVars, runs, torn>>
  BY DEF CleanExit
<1>1. UpdaterTypeOK'
  BY <1>0, <1>p, <1>q DEF UpdaterTypeOK, PendingRecord, chosenVars
<1>2. ChoiceOK'
  BY <1>0, <1>p, <1>q DEF ChoiceOK, chosenVars
<1>3. ~torn' => WholeWhenNone'
  BY <1>0, <1>p, <1>q DEF WholeWhenNone
<1>4. ~torn' => Swapping'
  BY <1>0, <1>p, <1>q DEF Swapping
<1>5. ~torn' => Applied'
  BY <1>0, <1>p, <1>q DEF Applied
<1> QED BY <1>1, <1>2, <1>3, <1>4, <1>5 DEF UpdInv

\* The programs are kept before the first is replaced.
LEMMA UpdKeepCurrent ==
  ASSUME UpdInv, KeepCurrent
  PROVE  UpdInv'
<1> USE UpdaterAssumption
<1>0. /\ UpdaterTypeOK /\ ChoiceOK /\ (~torn => WholeWhenNone /\ Swapping /\ Applied)
  BY DEF UpdInv
<1>p. stage = "run" /\ stage' = "keep" /\ staged # 0 /\ UNCHANGED <<program, pending, bad, step, running, traceback, chosenVars, runs, torn>>
  BY DEF KeepCurrent, Applying, recordVars
<1>q. /\ DOMAIN previous' \subseteq Programs /\ previous' \in [DOMAIN previous' -> 0..MaxVersion]
      /\ \A v \in Versions : program = Whole(v) => previous' = Kept(v)
  BY <1>0, UpdTypes, KeptOf DEF KeepCurrent
<1>1. UpdaterTypeOK'
  BY <1>0, <1>p, <1>q DEF UpdaterTypeOK, chosenVars
<1>2. ChoiceOK'
  BY <1>0, <1>p, <1>q DEF ChoiceOK, chosenVars
<1>3. ~torn' => WholeWhenNone'
  BY <1>0, <1>p, <1>q DEF WholeWhenNone
<1>4. ~torn' => Swapping'
  <2> SUFFICES ASSUME ~torn, pending.phase = "swapping" PROVE Swapping'
    BY <1>p DEF Swapping
  <2>1. Swapping /\ previous' = Kept(pending.from) /\ Kept(pending.from) # Nothing
    BY <1>0, <1>p, <1>q, KeptIs DEF Swapping
  <2> QED BY <1>p, <2>1 DEF Swapping
<1>5. ~torn' => Applied'
  BY <1>0, <1>p DEF Applied
<1> QED BY <1>1, <1>2, <1>3, <1>4, <1>5 DEF UpdInv

\* The installation is recorded before the first is replaced.
LEMMA UpdRecordSwapping ==
  ASSUME UpdInv, RecordSwapping
  PROVE  UpdInv'
<1> USE UpdaterAssumption
<1>0. /\ UpdaterTypeOK /\ ChoiceOK /\ (~torn => WholeWhenNone /\ Swapping /\ Applied)
  BY DEF UpdInv
<1>1. UpdaterTypeOK'
  <2>1. pending' \in [from : 0..MaxVersion, to : 0..MaxVersion, phase : {"none", "swapping", "applied"},
                      starts : 0..unconfirmedStarts]
    BY <1>0 DEF RecordSwapping, UpdaterTypeOK
  <2>2. step' \in 1..4 /\ stage' = "swap"
    BY DEF RecordSwapping
  <2>3. UNCHANGED <<program, previous, bad, running, traceback, dropped, staged, wanted, failures, mode, runs, torn>>
    BY DEF RecordSwapping, chosenVars
  <2> QED BY <1>0, <2>1, <2>2, <2>3 DEF UpdaterTypeOK
<1>2. ChoiceOK'
  <2>1. staged \in Versions
    BY <1>0, UpdTypes DEF RecordSwapping, ChoiceOK, Versions
  <2>2. pending'.to = staged /\ pending'.phase = "swapping" /\ stage' = "swap" /\ UNCHANGED <<previous, staged, running, dropped, failures>>
    BY DEF RecordSwapping, chosenVars
  <2> QED BY <1>0, <2>1, <2>2 DEF ChoiceOK
<1>3. ~torn' => WholeWhenNone'
  BY <1>0, UpdTypes, NoPendingIs, ProgramsAre, WholeIs, KeptIs DEF RecordSwapping, recordVars, chosenVars, WholeWhenNone, Swapping, Applied
<1>4. ~torn' => Swapping'
  <2> SUFFICES ASSUME ~torn PROVE Swapping'
    BY DEF RecordSwapping
  <2>1. running \in Versions /\ program = Whole(running) /\ previous = Kept(running)
    <3>1. CASE pending.phase = "none"
      BY <1>0, <3>1 DEF RecordSwapping, WholeWhenNone
    <3>2. CASE pending.phase = "swapping"
      BY <1>0, <3>2 DEF RecordSwapping, Swapping
    <3>3. CASE pending.phase = "applied"
      BY <1>0, <3>3 DEF RecordSwapping, Applied
    <3> QED BY <1>0, <3>1, <3>2, <3>3, UpdTypes
  <2>2. staged \in Versions /\ running < staged
    BY <1>0, UpdTypes, <2>1 DEF RecordSwapping, ChoiceOK, Versions
  <2>3. Mixed(staged, running, 1) = Whole(running) /\ Whole(running)["daemon"] = running /\ running # staged
    BY <2>1, <2>2, MixedIs, WholeIs
  <2>4. /\ pending'.from = running /\ pending'.to = staged /\ pending'.phase = "swapping" /\ stage' = "swap" /\ step' = 1
        /\ UNCHANGED <<program, previous, running, staged>>
    BY DEF RecordSwapping, chosenVars
  <2>5. Kept(running) # Nothing
    BY <2>1, KeptIs
  <2> QED BY <2>1, <2>2, <2>3, <2>4, <2>5 DEF Swapping
<1>5. ~torn' => Applied'
  BY <1>0, UpdTypes, NoPendingIs, ProgramsAre, WholeIs, KeptIs DEF RecordSwapping, recordVars, chosenVars, WholeWhenNone, Swapping, Applied
<1> QED BY <1>1, <1>2, <1>3, <1>4, <1>5 DEF UpdInv

\* One program replaced, the daemon last.
LEMMA UpdReplaceProgram ==
  ASSUME UpdInv, ReplaceProgram
  PROVE  UpdInv'
<1> USE UpdaterAssumption
<1>0. /\ UpdaterTypeOK /\ ChoiceOK /\ (~torn => WholeWhenNone /\ Swapping /\ Applied)
  BY DEF UpdInv
<1> DEFINE p == programs[step]
<1>p. /\ stage = "swap" /\ step \in 1..3 /\ p \in Programs /\ program' = [program EXCEPT ![p] = staged]
      /\ step' = step + 1 /\ UNCHANGED <<previous, pending, bad, stage, running, traceback, chosenVars, runs, torn>>
      /\ step + 1 \in 1..4
  BY <1>0, UpdTypes, ProgramsAre DEF ReplaceProgram, recordVars
<1> HIDE DEF p
<1>1. UpdaterTypeOK'
  <2>1. program' \in [Programs -> 0..MaxVersion]
    BY <1>0, <1>p, UpdTypes
  <2> QED BY <1>0, <1>p, <2>1 DEF UpdaterTypeOK, chosenVars
<1>2. ChoiceOK'
  BY <1>0, <1>p DEF ChoiceOK, chosenVars
<1>3. ~torn' => WholeWhenNone'
  BY <1>0, <1>p DEF WholeWhenNone
<1>4. ~torn' => Swapping'
  <2> SUFFICES ASSUME ~torn, pending.phase = "swapping" PROVE Swapping'
    BY <1>p DEF Swapping
  <2> DEFINE f == pending.from
             t == pending.to
  <2>1. Swapping /\ f \in Versions /\ t \in Versions /\ f < t /\ staged = t /\ program = Mixed(t, f, step) /\ previous = Kept(f)
    BY <1>0, <1>p DEF Swapping
  <2>2. f # t /\ Kept(f) # Nothing /\ \A q \in Programs : Whole(t)[q] = t
    BY <2>1, WholeIs, KeptIs
  <2>3. program' = Mixed(t, f, step + 1)
    BY <1>p, <2>1, <2>2, MixedIs DEF p
  <2>4. \A q \in Programs : program'[q] \in {Whole(f)[q], t}
    BY <1>p, <2>1, <2>2, <2>3, MixedIs
  <2>5. program'["daemon"] = t => program' = Whole(t)
    <3>1. CASE step + 1 \in 1..3
      BY <2>1, <2>2, <2>3, <3>1, MixedIs
    <3>2. CASE step + 1 = 4
      BY <2>1, <2>3, <3>2, MixedIs
    <3> QED BY <1>p, <3>1, <3>2
  <2> QED BY <1>p, <2>1, <2>2, <2>3, <2>4, <2>5 DEF Swapping, chosenVars
<1>5. ~torn' => Applied'
  BY <1>0, <1>p DEF Applied
<1> QED BY <1>1, <1>2, <1>3, <1>4, <1>5 DEF UpdInv

\* One that could not be: those replaced are put back.
LEMMA UpdReplaceFails ==
  ASSUME UpdInv, ReplaceFails
  PROVE  UpdInv'
<1> USE UpdaterAssumption
<1>0. /\ UpdaterTypeOK /\ ChoiceOK /\ (~torn => WholeWhenNone /\ Swapping /\ Applied)
  BY DEF UpdInv
<1>1. UpdaterTypeOK'
  <2>1. step' \in 1..4 /\ stage' = "putBack"
    BY DEF ReplaceFails
  <2>2. UNCHANGED <<program, previous, pending, bad, running, traceback, dropped, staged, wanted, failures, mode, runs, torn>>
    BY DEF ReplaceFails, recordVars, chosenVars
  <2> QED BY <1>0, <2>1, <2>2 DEF UpdaterTypeOK
<1>2. ChoiceOK'
  BY <1>0, UpdTypes, NoPendingIs, ProgramsAre, WholeIs, KeptIs DEF ReplaceFails, recordVars, chosenVars, ChoiceOK, UpdaterTypeOK
<1>3. ~torn' => WholeWhenNone'
  BY <1>0, UpdTypes, NoPendingIs, ProgramsAre, WholeIs, KeptIs DEF ReplaceFails, recordVars, chosenVars, WholeWhenNone, Swapping, Applied
<1>4. ~torn' => Swapping'
  <2> SUFFICES ASSUME ~torn PROVE Swapping'
    BY DEF ReplaceFails
  <2>1. step \in 1..3 /\ (pending.phase = "swapping" => program["daemon"] = pending.from)
    BY <1>0, UpdTypes, ProgramsAre, MixedIs DEF ReplaceFails, Swapping
  <2>2. \A p \in Programs : ~(Place[p] < step')
    BY ProgramsAre DEF ReplaceFails
  <2> QED BY <1>0, <2>1, <2>2 DEF ReplaceFails, recordVars, chosenVars, Swapping
<1>5. ~torn' => Applied'
  BY <1>0, UpdTypes, NoPendingIs, ProgramsAre, WholeIs, KeptIs DEF ReplaceFails, recordVars, chosenVars, WholeWhenNone, Swapping, Applied
<1> QED BY <1>1, <1>2, <1>3, <1>4, <1>5 DEF UpdInv

\* One program put back by the daemon that replaced it.
LEMMA UpdPutBack ==
  ASSUME UpdInv, PutBack
  PROVE  UpdInv'
<1> USE UpdaterAssumption
<1>0. /\ UpdaterTypeOK /\ ChoiceOK /\ (~torn => WholeWhenNone /\ Swapping /\ Applied)
  BY DEF UpdInv
<1>1. UpdaterTypeOK'
  BY <1>0, UpdTypes, NoPendingIs, ProgramsAre, WholeIs, KeptIs DEF PutBack, recordVars, chosenVars, UpdaterTypeOK, PendingRecord
<1>2. ChoiceOK'
  BY <1>0, UpdTypes, NoPendingIs, ProgramsAre, WholeIs, KeptIs DEF PutBack, recordVars, chosenVars, ChoiceOK, UpdaterTypeOK
<1>3. ~torn' => WholeWhenNone'
  <2> SUFFICES ASSUME ~torn PROVE WholeWhenNone'
    BY DEF PutBack
  <2>1. pending.phase = "swapping" /\ pending.from \in Versions
    BY <1>0, UpdTypes DEF PutBack, WholeWhenNone, Swapping, Applied
  <2>2. \A p \in Programs : program[p] = Whole(pending.from)[p]
    BY <1>0, <2>1, UpdTypes, ProgramsAre DEF PutBack, Swapping
  <2>3. program = Whole(pending.from) /\ program["daemon"] = pending.from
    BY <1>0, <2>1, <2>2, UpdTypes, WholeIs DEF Whole
  <2> QED BY <2>1, <2>3 DEF PutBack, recordVars, chosenVars, WholeWhenNone
<1>4. ~torn' => Swapping'
  BY <1>0, UpdTypes, NoPendingIs, ProgramsAre, WholeIs, KeptIs DEF PutBack, recordVars, chosenVars, WholeWhenNone, Swapping, Applied, ChoiceOK
<1>5. ~torn' => Applied'
  BY <1>0, UpdTypes, NoPendingIs, ProgramsAre, WholeIs, KeptIs DEF PutBack, recordVars, chosenVars, WholeWhenNone, Swapping, Applied
<1> QED BY <1>1, <1>2, <1>3, <1>4, <1>5 DEF UpdInv

\* All are new: the trial begins.
LEMMA UpdRecordApplied ==
  ASSUME UpdInv, RecordApplied
  PROVE  UpdInv'
<1> USE UpdaterAssumption
<1>0. /\ UpdaterTypeOK /\ ChoiceOK /\ (~torn => WholeWhenNone /\ Swapping /\ Applied)
  BY DEF UpdInv
<1>1. UpdaterTypeOK'
  BY <1>0, UpdTypes, NoPendingIs, ProgramsAre, WholeIs, KeptIs DEF RecordApplied, recordVars, chosenVars, UpdaterTypeOK, PendingRecord
<1>2. ChoiceOK'
  <2>1. pending'.to = pending.to /\ stage' = "off" /\ UNCHANGED <<previous, staged, running, dropped, failures>>
    BY <1>0, UpdTypes DEF RecordApplied, chosenVars, PendingRecord
  <2>2. pending.phase # "none"
    BY <1>0 DEF RecordApplied, ChoiceOK
  <2> QED BY <1>0, <2>1, <2>2 DEF ChoiceOK
<1>3. ~torn' => WholeWhenNone'
  BY <1>0, UpdTypes, NoPendingIs, ProgramsAre, WholeIs, KeptIs DEF RecordApplied, recordVars, chosenVars, WholeWhenNone, Swapping, Applied
<1>4. ~torn' => Swapping'
  BY <1>0, UpdTypes, NoPendingIs, ProgramsAre, WholeIs, KeptIs DEF RecordApplied, recordVars, chosenVars, WholeWhenNone, Swapping, Applied, ChoiceOK
<1>5. ~torn' => Applied'
  <2> SUFFICES ASSUME ~torn PROVE Applied'
    BY DEF RecordApplied
  <2>1. pending.phase = "swapping" /\ Swapping
    BY <1>0, UpdTypes DEF RecordApplied, WholeWhenNone, Applied
  <2>2. /\ pending'.from = pending.from /\ pending'.to = pending.to /\ stage' = "off" /\ UNCHANGED <<program, previous>>
    BY <1>0, UpdTypes DEF RecordApplied, PendingRecord
  <2>3. step = 4 /\ program = Mixed(pending.to, pending.from, step) /\ pending.from \in Versions /\ pending.to \in Versions
    BY <1>0, <2>1, UpdTypes, ProgramsAre DEF RecordApplied, Swapping
  <2>4. program = Whole(pending.to)
    BY <2>3, MixedIs
  <2> QED BY <2>1, <2>2, <2>4 DEF Applied, Swapping
<1> QED BY <1>1, <1>2, <1>3, <1>4, <1>5 DEF UpdInv

\* The daemon dies at any point.
LEMMA UpdDie ==
  ASSUME UpdInv, NEW left \in BOOLEAN, Die(left)
  PROVE  UpdInv'
<1> USE UpdaterAssumption
<1>0. /\ UpdaterTypeOK /\ ChoiceOK /\ (~torn => WholeWhenNone /\ Swapping /\ Applied)
  BY DEF UpdInv
<1>1. UpdaterTypeOK'
  BY <1>0, UpdTypes, NoPendingIs, ProgramsAre, WholeIs, KeptIs DEF Die, recordVars, chosenVars, UpdaterTypeOK, PendingRecord
<1>2. ChoiceOK'
  BY <1>0, UpdTypes, NoPendingIs, ProgramsAre, WholeIs, KeptIs DEF Die, recordVars, chosenVars, ChoiceOK, UpdaterTypeOK
<1>3. ~torn' => WholeWhenNone'
  BY <1>0, UpdTypes, NoPendingIs, ProgramsAre, WholeIs, KeptIs DEF Die, recordVars, chosenVars, WholeWhenNone, Swapping, Applied
<1>4. ~torn' => Swapping'
  BY <1>0, UpdTypes, NoPendingIs, ProgramsAre, WholeIs, KeptIs DEF Die, recordVars, chosenVars, WholeWhenNone, Swapping, Applied, ChoiceOK
<1>5. ~torn' => Applied'
  BY <1>0, UpdTypes, NoPendingIs, ProgramsAre, WholeIs, KeptIs DEF Die, recordVars, chosenVars, WholeWhenNone, Swapping, Applied
<1> QED BY <1>1, <1>2, <1>3, <1>4, <1>5 DEF UpdInv

\* The greatest of a set of versions that is not empty is one of them.
LEMMA MaxIsMember ==
  ASSUME NEW S \in SUBSET Versions, S # {} PROVE Max(S) \in S
<1>1. S \subseteq Nat /\ MaxVersion \in Nat /\ \A y \in S : y <= MaxVersion
  BY UpdaterAssumption DEF Versions
<1>2. PICK m \in S : \A y \in S : y <= m
  BY <1>1, GreatestNat
<1>3. \E x \in S : \A y \in S : x >= y
  BY <1>1, <1>2
<1> QED BY <1>3 DEF Max

\* What is chosen is newer than what runs, and not passed over.
LEMMA ChosenIs ==
  ASSUME UpdaterTypeOK, NEW offered \in SUBSET Versions, NEW v \in Choose(offered)
  PROVE  v \in Versions /\ v > running /\ v \notin dropped /\ v # 0
<1> DEFINE fit == {w \in offered : w > running /\ w \notin PassedOver}
<1>1. fit # {} /\ v = Max(fit) /\ fit \in SUBSET Versions
  BY DEF Choose
<1>2. v \in fit
  <2> HIDE DEF fit
  <2> QED BY <1>1, MaxIsMember
<1> QED BY <1>2 DEF PassedOver, Versions

\* A release is staged only where nothing is on trial.
LEMMA UpdStageRelease ==
  ASSUME UpdInv, NEW offered \in SUBSET Versions, NEW byHand \in BOOLEAN, StageRelease(offered, byHand)
  PROVE  UpdInv'
<1> USE UpdaterAssumption
<1>0. UpdaterTypeOK /\ ChoiceOK /\ (~torn => WholeWhenNone /\ Swapping /\ Applied)
  BY DEF UpdInv
<1>1. PICK v \in Choose(offered) : staged' = v
  BY DEF StageRelease
<1>2. v \in Versions /\ v > running /\ v # 0 /\ v \in 0..MaxVersion
  BY <1>0, <1>1, ChosenIs DEF Versions
<1>3. /\ stage = "run" /\ ~OnTrial /\ wanted' = byHand
      /\ UNCHANGED <<program, previous, pending, bad, stage, step, running, traceback, dropped, failures, mode, runs, torn>>
  BY DEF StageRelease, Stages, recordVars
<1>4. UpdaterTypeOK'
  BY <1>0, <1>1, <1>2, <1>3 DEF UpdaterTypeOK
<1>5. ChoiceOK'
  BY <1>0, <1>1, <1>2, <1>3 DEF ChoiceOK
<1>6. ~torn' => WholeWhenNone' /\ Swapping'
  BY <1>0, <1>3 DEF WholeWhenNone, Swapping
<1>7. ~torn' => Applied'
  BY <1>0, <1>3 DEF Applied, OnTrial
<1> QED BY <1>4, <1>5, <1>6, <1>7 DEF UpdInv

\* A version is dropped before its failures pass their limit.
LEMMA UpdStageFails ==
  ASSUME UpdInv, NEW offered \in SUBSET Versions, NEW byHand \in BOOLEAN, NEW downloading \in BOOLEAN,
         StageFails(offered, byHand, downloading)
  PROVE  UpdInv'
<1> USE UpdaterAssumption
<1>0. UpdaterTypeOK /\ ChoiceOK /\ (~torn => WholeWhenNone /\ Swapping /\ Applied)
  BY DEF UpdInv
<1>1. PICK v \in Choose(offered) :
        /\ failures' = [failures EXCEPT ![v] = IF downloading THEN @ + 1 ELSE @]
        /\ dropped' = IF downloading /\ failures[v] + 1 < maxDownloads THEN dropped ELSE dropped \cup {v}
  BY DEF StageFails
<1>2. v \in Versions /\ v \notin dropped
  BY <1>0, <1>1, ChosenIs
<1>3. failures \in [Versions -> 0..maxDownloads] /\ failures[v] \in 0..maxDownloads /\ failures[v] < maxDownloads
  BY <1>0, <1>2 DEF UpdaterTypeOK, ChoiceOK
<1>4. /\ UNCHANGED <<program, previous, pending, bad, stage, step, running, traceback, staged, wanted, mode, runs, torn>>
  BY DEF StageFails, recordVars
<1>5. failures[v] + 1 \in 0..maxDownloads
  BY <1>3
<1>6. (IF downloading THEN failures[v] + 1 ELSE failures[v]) \in 0..maxDownloads
  BY <1>3, <1>5
<1>7. failures' \in [Versions -> 0..maxDownloads] /\ dropped' \subseteq Versions
  BY <1>0, <1>1, <1>2, <1>3, <1>6 DEF UpdaterTypeOK
<1>8. \A w \in Versions : w \notin dropped' => failures'[w] < maxDownloads
  <2> SUFFICES ASSUME NEW w \in Versions, w \notin dropped' PROVE failures'[w] < maxDownloads
    OBVIOUS
  <2>1. w \notin dropped /\ failures[w] < maxDownloads
    BY <1>0, <1>1 DEF ChoiceOK
  <2>2. CASE w = v
    <3>1. downloading /\ failures[v] + 1 < maxDownloads
      BY <1>1, <2>2
    <3> QED BY <1>1, <1>3, <2>2, <3>1
  <2>3. CASE w # v
    BY <1>1, <1>3, <2>1, <2>3
  <2> QED BY <2>2, <2>3
<1>9. UpdaterTypeOK'
  BY <1>0, <1>4, <1>7 DEF UpdaterTypeOK
<1>10. ChoiceOK'
  BY <1>0, <1>4, <1>8 DEF ChoiceOK
<1>11. ~torn' => WholeWhenNone' /\ Swapping' /\ Applied'
  BY <1>0, <1>4 DEF WholeWhenNone, Swapping, Applied
<1> QED BY <1>9, <1>10, <1>11 DEF UpdInv

\* Every step of the updater keeps its invariant.
LEMMA UpdStepInv == UpdInv /\ UpdaterNext => UpdInv'
<1> SUFFICES ASSUME UpdInv, UpdaterNext PROVE UpdInv'
  OBVIOUS
<1>1. ASSUME NEW offered \in SUBSET Versions, NEW byHand \in BOOLEAN,
             StageRelease(offered, byHand) \/ \E downloading \in BOOLEAN : StageFails(offered, byHand, downloading)
      PROVE  UpdInv'
  BY <1>1, UpdStageRelease, UpdStageFails
<1> QED BY <1>1, UpdStartDaemon, UpdStartUnconcerned, UpdStartCounted, UpdStartRestoring, UpdRestoreProgram, UpdRestoreFails, UpdDropKept, UpdSettle, UpdRecordRollback, UpdDropUndone, UpdSetMode, UpdLetGo, UpdApplyStaged, UpdConfirm, UpdConfirmed, UpdCleanExit, UpdKeepCurrent, UpdRecordSwapping, UpdReplaceProgram, UpdReplaceFails, UpdPutBack, UpdRecordApplied, UpdDie DEF UpdaterNext

\* A step of another part leaves it.
LEMMA UpdStutterInv == UpdInv /\ UNCHANGED updaterVars => UpdInv'
BY DEF UpdInv, updaterVars, UpdaterTypeOK, ChoiceOK, WholeWhenNone, Swapping, Applied

\* A daemon past its start runs in a whole installation.
LEMMA UpdSafe == UpdInv => UpdaterTypeOK /\ InstalledWhole
<1> SUFFICES ASSUME UpdInv PROVE UpdaterTypeOK /\ InstalledWhole
  OBVIOUS
<1>0. UpdaterTypeOK /\ (~torn => WholeWhenNone /\ Swapping /\ Applied)
  BY DEF UpdInv
<1>1. pending.phase \in {"none", "swapping", "applied"}
  BY <1>0, UpdTypes
<1>2. ASSUME ~torn, stage \in {"run", "confirm"} PROVE program = Whole(running)
  <2>1. CASE pending.phase = "none"
    BY <1>0, <1>2, <2>1 DEF WholeWhenNone
  <2>2. CASE pending.phase = "swapping"
    BY <1>0, <1>2, <2>2 DEF Swapping
  <2>3. CASE pending.phase = "applied"
    BY <1>0, <1>2, <2>3 DEF Applied
  <2> QED BY <1>1, <2>1, <2>2, <2>3
<1> QED BY <1>0, <1>2 DEF InstalledWhole

-----------------------------------------------------------------------------
\* The attach server.

\* A connection, as the attach server keeps it.
ConnRecord == [at : {"off", "added", "ready", "gone"}, watching : BOOLEAN, account : Gens,
               view : SUBSET CachedGuilds, queue : Seq(GuildEvent)]

\* What is so of one connection that watches, whatever the others do: its queue is of its own account; where
\* its account is the one served, that is the one named, and its view and queue end in the guilds there are.
ConnOK(k, acc, gen, gs) ==
  k.at = "ready" /\ k.watching =>
    /\ \A i \in DOMAIN k.queue : k.queue[i].gen = k.account
    /\ (gen # 0 /\ acc = gen) => k.account = acc
    /\ (k.account = acc /\ acc = gen) => InTheEnd(k) = gs
    /\ (k.account = 0 /\ gen = 0) => InTheEnd(k) = {}

\* The places taken.
PlacesTaken == {c \in Clients : client[c].at # "off"}

\* A sign-in is named but once, and what is served was named.
AttachInv ==
  /\ account \in Gens /\ generations \in Gens /\ gwSignIn \in Gens /\ stateGen \in Gens
  /\ guilds \subseteq CachedGuilds /\ attachClosing \in BOOLEAN
  /\ client \in [Clients -> ConnRecord]
  /\ \A c \in Clients : Len(client[c].queue) <= queueFrames /\ client[c].account <= generations
  /\ Cardinality(PlacesTaken) <= maxClients
  /\ account \in {0, generations} /\ gwSignIn <= generations /\ stateGen \in {0, gwSignIn}
  /\ stateGen = 0 => guilds = {}
  /\ \A c \in Clients : ConnOK(client[c], account, stateGen, guilds)

\* Nothing queued: what is shown is the view.
LEMMA EndsAtOnce ==
  ASSUME NEW k, k.queue = <<>>, k.view \subseteq CachedGuilds PROVE InTheEnd(k) = k.view
<1>1. \A g : LastOf(g, k.queue) = {}
  BY DEF LastOf
<1> QED BY <1>1 DEF InTheEnd

\* One more event queued is applied to what would be shown.
LEMMA EndsWithMore ==
  ASSUME NEW k \in ConnRecord, NEW e \in GuildEvent, NEW l \in ConnRecord,
         l.view = k.view, l.queue = Append(k.queue, e)
  PROVE  InTheEnd(l) = Apply(InTheEnd(k), e)
<1> DEFINE q == k.queue
           n == Len(q) + 1
<1>1. q \in Seq(GuildEvent) /\ Len(q) \in Nat /\ DOMAIN q = 1..Len(q)
  BY DEF ConnRecord
<1>2. DOMAIN l.queue = 1..n /\ l.queue[n] = e /\ \A i \in 1..Len(q) : l.queue[i] = q[i]
  BY <1>1
<1>3. e.guild \in CachedGuilds /\ e.created \in BOOLEAN
  BY DEF GuildEvent
<1> HIDE DEF q
<1>4. LastOf(e.guild, l.queue) = {n}
  BY <1>1, <1>2 DEF LastOf
<1>5. ASSUME NEW g \in CachedGuilds, g # e.guild PROVE g \in InTheEnd(l) <=> g \in InTheEnd(k)
  <2>1. LastOf(g, l.queue) = LastOf(g, q) /\ LastOf(g, q) \subseteq 1..Len(q)
    BY <1>1, <1>2, <1>5 DEF LastOf
  <2> QED BY <1>2, <2>1 DEF InTheEnd, q
<1>6. e.guild \in InTheEnd(l) <=> e.created
  BY <1>2, <1>3, <1>4 DEF InTheEnd
<1>7. \A g \in CachedGuilds : g \in InTheEnd(l) <=> g \in Apply(InTheEnd(k), e)
  BY <1>3, <1>5, <1>6 DEF Apply
<1>8. InTheEnd(l) \subseteq CachedGuilds /\ Apply(InTheEnd(k), e) \subseteq CachedGuilds
  BY <1>3 DEF InTheEnd, Apply
<1> QED BY <1>7, <1>8

\* The oldest event read is one that was to be applied.
LEMMA EndsTheSame ==
  ASSUME NEW k \in ConnRecord, k.queue # <<>>, NEW l \in ConnRecord,
         l.view = Apply(k.view, Head(k.queue)), l.queue = Tail(k.queue)
  PROVE  InTheEnd(l) = InTheEnd(k)
<1> DEFINE q == k.queue
           e == Head(q)
<1>1. q \in Seq(GuildEvent) /\ Len(q) \in Nat /\ DOMAIN q = 1..Len(q) /\ Len(q) >= 1 /\ e = q[1] /\ e \in GuildEvent
  BY DEF ConnRecord
<1>2. DOMAIN l.queue = 1..(Len(q) - 1) /\ \A i \in 1..(Len(q) - 1) : l.queue[i] = q[i + 1]
  BY <1>1
<1>3. e.guild \in CachedGuilds /\ e.created \in BOOLEAN
  BY <1>1 DEF GuildEvent
<1> HIDE DEF q, e
<1>4. ASSUME NEW g \in CachedGuilds PROVE g \in InTheEnd(l) <=> g \in InTheEnd(k)
  <2>1. \A i \in LastOf(g, l.queue) : i + 1 \in LastOf(g, q) /\ q[i + 1] = l.queue[i]
    <3> SUFFICES ASSUME NEW i \in LastOf(g, l.queue) PROVE i + 1 \in LastOf(g, q) /\ q[i + 1] = l.queue[i]
      OBVIOUS
    <3>1. i \in 1..(Len(q) - 1) /\ l.queue[i].guild = g /\ \A j \in 1..(Len(q) - 1) : l.queue[j].guild = g => j <= i
      BY <1>2 DEF LastOf
    <3>2. i + 1 \in 1..Len(q) /\ q[i + 1] = l.queue[i]
      BY <1>1, <1>2, <3>1
    <3>3. ASSUME NEW j \in 1..Len(q), q[j].guild = g PROVE j <= i + 1
      <4>1. CASE j = 1
        BY <3>1, <4>1
      <4>2. CASE j # 1
        <5>1. j - 1 \in 1..(Len(q) - 1) /\ (j - 1) + 1 = j
          BY <1>1, <4>2
        <5>2. l.queue[j - 1].guild = g
          BY <1>2, <3>3, <5>1
        <5>3. j - 1 <= i
          BY <3>1, <5>1, <5>2
        <5> QED BY <1>1, <3>1, <5>3
      <4> QED BY <4>1, <4>2
    <3> QED BY <1>1, <3>1, <3>2, <3>3 DEF LastOf
  <2>2. \A i \in LastOf(g, q) : i = 1 \/ i - 1 \in LastOf(g, l.queue)
    <3> SUFFICES ASSUME NEW i \in LastOf(g, q), i # 1 PROVE i - 1 \in LastOf(g, l.queue)
      OBVIOUS
    <3>1. i \in 1..Len(q) /\ q[i].guild = g /\ \A j \in 1..Len(q) : q[j].guild = g => j <= i
      BY <1>1 DEF LastOf
    <3>2. i - 1 \in 1..(Len(q) - 1) /\ l.queue[i - 1] = q[i]
      <4>1. i - 1 \in 1..(Len(q) - 1) /\ (i - 1) + 1 = i
        BY <1>1, <3>1
      <4> QED BY <1>2, <4>1
    <3>3. ASSUME NEW j \in 1..(Len(q) - 1), l.queue[j].guild = g PROVE j <= i - 1
      <4>1. j + 1 \in 1..Len(q) /\ q[j + 1].guild = g
        BY <1>1, <1>2, <3>3
      <4>2. j + 1 <= i
        BY <3>1, <4>1
      <4> QED BY <3>1, <4>2
    <3> QED BY <1>2, <3>1, <3>2, <3>3 DEF LastOf
  <2>3. \A i, j \in LastOf(g, q) : i = j
    BY <1>1 DEF LastOf
  <2>4. \A i, j \in LastOf(g, l.queue) : i = j
    BY <1>1, <1>2 DEF LastOf
  <2>5. CASE LastOf(g, l.queue) # {}
    <3>1. PICK i \in LastOf(g, l.queue) : TRUE
      BY <2>5
    <3>2. i + 1 \in LastOf(g, q) /\ q[i + 1] = l.queue[i]
      BY <2>1, <3>1
    <3>3. LastOf(g, l.queue) = {i} /\ LastOf(g, q) = {i + 1}
      BY <2>3, <2>4, <3>1, <3>2
    <3>4. g \in InTheEnd(l) <=> l.queue[i].created
      BY <3>3 DEF InTheEnd
    <3>5. g \in InTheEnd(k) <=> q[i + 1].created
      BY <3>3 DEF InTheEnd, q
    <3> QED BY <3>2, <3>4, <3>5
  <2>6. CASE LastOf(g, l.queue) = {} /\ g = e.guild
    <3>1. \A j \in 1..Len(q) : q[j].guild = g => j = 1
      <4> SUFFICES ASSUME NEW j \in 1..Len(q), q[j].guild = g, j # 1 PROVE FALSE
        OBVIOUS
      <4> DEFINE S == {i \in 1..Len(q) : q[i].guild = g}
      <4>1. \E i \in S : \A m \in S : m <= i
        <5>1. S \subseteq Nat /\ S # {} /\ \A m \in S : m <= Len(q)
          BY <1>1
        <5> HIDE DEF S
        <5> QED BY <1>1, <5>1, GreatestNat
      <4>2. PICK i \in S : \A m \in S : m <= i
        BY <4>1
      <4>3. i \in LastOf(g, q) /\ i # 1
        BY <1>1, <4>2 DEF LastOf
      <4> QED BY <2>2, <2>6, <4>3
    <3>2. LastOf(g, q) = {1}
      BY <1>1, <2>6, <3>1 DEF LastOf
    <3>3. g \in InTheEnd(k) <=> e.created
      BY <1>1, <3>2 DEF InTheEnd, q
    <3>4. g \in InTheEnd(l) <=> e.created
      BY <1>3, <2>6 DEF InTheEnd, Apply, e, q
    <3> QED BY <3>3, <3>4
  <2>7. CASE LastOf(g, l.queue) = {} /\ g # e.guild
    <3>1. LastOf(g, q) = {}
      <4> SUFFICES ASSUME NEW i \in LastOf(g, q) PROVE FALSE
        OBVIOUS
      <4>1. i # 1
        BY <1>1, <2>7 DEF LastOf
      <4> QED BY <2>2, <2>7, <4>1
    <3> QED BY <2>7, <3>1 DEF InTheEnd, Apply, e, q
  <2> QED BY <2>5, <2>6, <2>7
<1> QED BY <1>4 DEF InTheEnd

\* Nobody is attached at first.
LEMMA AttachInitInv == AttachInit => AttachInv
<1> SUFFICES ASSUME AttachInit PROVE AttachInv
  OBVIOUS
<1> USE AttachAssumption DEF AttachInit
<1>1. 0 \in Gens
  BY DEF Gens
<1>2. <<>> \in Seq(GuildEvent) /\ Len(<<>>) = 0
  OBVIOUS
<1>3. Detached \in ConnRecord /\ Detached.at = "off" /\ Detached.queue = <<>> /\ Detached.account = 0
  BY <1>1, <1>2 DEF Detached, ConnRecord
<1>4. client \in [Clients -> ConnRecord] /\ \A c \in Clients : client[c] = Detached
  BY <1>3
<1>5. PlacesTaken = {}
  BY <1>3, <1>4 DEF PlacesTaken
<1>6. Cardinality(PlacesTaken) <= maxClients
  BY <1>5, FS_EmptySet
<1>7. \A c \in Clients : ConnOK(client[c], account, stateGen, guilds)
  BY <1>3, <1>4 DEF ConnOK
<1>8. \A c \in Clients : Len(client[c].queue) <= queueFrames /\ client[c].account <= generations
  BY <1>2, <1>3, <1>4
<1>9. attachClosing \in BOOLEAN
  BY Zenon
<1>10. /\ account \in Gens /\ generations \in Gens /\ gwSignIn \in Gens /\ stateGen \in Gens /\ guilds = {}
       /\ account = 0 /\ gwSignIn <= generations /\ stateGen = 0
  BY <1>1
<1> QED BY <1>4, <1>6, <1>7, <1>8, <1>9, <1>10 DEF AttachInv

\* Closing watchers takes no place and none away, and those closed watch no more.
LEMMA KilledIs ==
  ASSUME AttachInv, NEW S \in SUBSET Clients, \A c \in S : client[c].at # "off", client' = Killed(S)
  PROVE  /\ client' \in [Clients -> ConnRecord] /\ PlacesTaken' = PlacesTaken
         /\ \A c \in Clients : client'[c].queue = client[c].queue /\ client'[c].account = client[c].account
         /\ \A c \in Clients : client'[c].at \in {client[c].at, "gone"}
         /\ \A c \in Clients \ S : client'[c] = client[c]
         /\ \A c \in S : client'[c].at = "gone"
<1>1. client \in [Clients -> ConnRecord]
  BY DEF AttachInv
<1>2. \A c \in Clients : client'[c] = IF c \in S THEN [client[c] EXCEPT !.at = "gone"] ELSE client[c]
  BY DEF Killed
<1>3. \A c \in Clients : client[c] \in ConnRecord /\ client'[c] \in ConnRecord
  BY <1>1, <1>2 DEF ConnRecord
<1>4. \A c \in Clients : client'[c].queue = client[c].queue /\ client'[c].account = client[c].account
  BY <1>2, <1>3 DEF ConnRecord
<1>5. \A c \in S : client'[c].at = "gone"
  BY <1>2, <1>3 DEF ConnRecord
<1>6. \A c \in Clients \ S : client'[c] = client[c]
  BY <1>2
<1>7. client' = [c \in Clients |-> client'[c]]
  BY DEF Killed
<1>8. PlacesTaken' = PlacesTaken
  BY <1>5, <1>6 DEF PlacesTaken
<1> QED BY <1>3, <1>4, <1>5, <1>6, <1>7, <1>8

\* A connection that is not a ready watcher is under no obligation.
LEMMA NotWatching ==
  ASSUME NEW k, ~(k.at = "ready" /\ k.watching) PROVE \A a, g, S : ConnOK(k, a, g, S)
BY DEF ConnOK

\* The facts of the invariant, and of the sign-ins, as numbers.
LEMMA AttachTypes ==
  ASSUME AttachInv
  PROVE  /\ account \in Nat /\ generations \in Nat /\ gwSignIn \in Nat /\ stateGen \in Nat /\ MaxGeneration \in Nat
         /\ client \in [Clients -> ConnRecord] /\ \A c \in Clients : client[c] \in ConnRecord
         /\ \A c \in Clients : client[c].account \in Nat
BY AttachAssumption DEF AttachInv, Gens, ConnRecord

\* Every watcher is sent away: nothing else need be known of what is served next.
LEMMA AllSentAway ==
  ASSUME AttachInv, client' = Killed(Watchers), attachClosing' = attachClosing, generations' = generations,
         account' = account, gwSignIn' \in Gens, stateGen' \in Gens, gwSignIn' <= generations, stateGen' \in {0, gwSignIn'},
         guilds' \subseteq CachedGuilds, stateGen' = 0 => guilds' = {}
  PROVE  AttachInv'
<1>1. Watchers \in SUBSET Clients /\ \A c \in Watchers : client[c].at # "off"
  BY DEF Watchers
<1>2. /\ client' \in [Clients -> ConnRecord] /\ PlacesTaken' = PlacesTaken
      /\ \A c \in Clients : client'[c].queue = client[c].queue /\ client'[c].account = client[c].account
      /\ \A c \in Clients \ Watchers : client'[c] = client[c]
      /\ \A c \in Watchers : client'[c].at = "gone"
  BY <1>1, KilledIs
<1>3. \A c \in Clients : ~(client'[c].at = "ready" /\ client'[c].watching)
  BY <1>2 DEF Watchers
<1>4. \A c \in Clients : ConnOK(client'[c], account', stateGen', guilds')
  BY <1>3, NotWatching
<1> QED BY <1>2, <1>4 DEF AttachInv

\* One connection is replaced by another that is as it should be.
LEMMA OneConnection ==
  ASSUME AttachInv, NEW c \in Clients, NEW new \in ConnRecord, client' = [client EXCEPT ![c] = new],
         UNCHANGED <<account, generations, gwSignIn, stateGen, guilds, attachClosing>>,
         ConnOK(new, account, stateGen, guilds), Len(new.queue) <= queueFrames, new.account <= generations,
         new.at = "off" \/ client[c].at # "off" \/ Cardinality(PlacesTaken) < maxClients
  PROVE  AttachInv'
<1>1. client \in [Clients -> ConnRecord]
  BY DEF AttachInv
<1>2. client' \in [Clients -> ConnRecord] /\ client'[c] = new /\ \A d \in Clients \ {c} : client'[d] = client[d]
  BY <1>1
<1>3. \A d \in Clients : ConnOK(client'[d], account, stateGen, guilds)
  BY <1>2 DEF AttachInv
<1>4. \A d \in Clients : Len(client'[d].queue) <= queueFrames /\ client'[d].account <= generations
  BY <1>2 DEF AttachInv
<1>5. IsFiniteSet(PlacesTaken) /\ IsFiniteSet(PlacesTaken') /\ Cardinality(PlacesTaken) \in Nat /\ Cardinality(PlacesTaken') \in Nat /\ maxClients \in Nat
  BY FS_Subset, FS_CardinalityType, AttachAssumption DEF PlacesTaken
<1>6. Cardinality(PlacesTaken') <= maxClients
  <2>1. CASE new.at = "off" \/ client[c].at # "off"
    <3>1. PlacesTaken' \subseteq PlacesTaken
      BY <1>2, <2>1 DEF PlacesTaken
    <3>2. Cardinality(PlacesTaken') <= Cardinality(PlacesTaken)
      BY <1>5, <3>1, FS_Subset
    <3> QED BY <1>5, <3>2 DEF AttachInv
  <2>2. CASE Cardinality(PlacesTaken) < maxClients
    <3>1. PlacesTaken' \subseteq PlacesTaken \cup {c}
      BY <1>2 DEF PlacesTaken
    <3>2. IsFiniteSet(PlacesTaken \cup {c}) /\ Cardinality(PlacesTaken \cup {c}) <= Cardinality(PlacesTaken) + 1
      <4>1. IsFiniteSet(PlacesTaken \cup {c}) /\ (c \notin PlacesTaken => Cardinality(PlacesTaken \cup {c}) = Cardinality(PlacesTaken) + 1)
        BY <1>5, FS_AddElement
      <4>2. c \in PlacesTaken => Cardinality(PlacesTaken \cup {c}) = Cardinality(PlacesTaken)
        BY <1>5, FS_AddElement
      <4>3. CASE c \in PlacesTaken
        <5>1. Cardinality(PlacesTaken \cup {c}) = Cardinality(PlacesTaken)
          BY <4>2, <4>3
        <5> QED BY <1>5, <4>1, <5>1
      <4>4. CASE c \notin PlacesTaken
        <5>1. Cardinality(PlacesTaken \cup {c}) = Cardinality(PlacesTaken) + 1
          BY <4>1, <4>4
        <5> QED BY <1>5, <4>1, <5>1
      <4> QED BY <4>3, <4>4
    <3>3. Cardinality(PlacesTaken') <= Cardinality(PlacesTaken \cup {c}) /\ Cardinality(PlacesTaken \cup {c}) \in Nat
      BY <3>1, <3>2, FS_Subset, FS_CardinalityType
    <3> QED BY <1>5, <2>2, <3>2, <3>3
  <2> QED BY <2>1, <2>2
<1>7. \A d \in Clients : ConnOK(client'[d], account', stateGen', guilds')
  BY <1>3
<1> QED BY <1>2, <1>4, <1>6, <1>7 DEF AttachInv

\* The steps of the session source and the gateway connection that leave the connections alone.
LEMMA AttachNames ==
  ASSUME AttachInv, NameSignIn \/ NameNobody \/ ConnectGateway PROVE AttachInv'
<1> USE AttachTypes
<1>1. client' = client /\ PlacesTaken' = PlacesTaken /\ stateGen' = stateGen /\ guilds' = guilds /\ attachClosing' = attachClosing
  BY DEF NameSignIn, NameNobody, ConnectGateway, PlacesTaken
<1>2. /\ account' \in Gens /\ generations' \in Gens /\ gwSignIn' \in Gens /\ account' \in {0, generations'}
      /\ gwSignIn' <= generations' /\ stateGen \in {0, gwSignIn'} /\ generations <= generations'
      /\ account' \in {0, account, generations + 1} /\ generations + 1 > stateGen
  BY DEF NameSignIn, NameNobody, ConnectGateway, AttachInv, Gens
<1>3. \A c \in Clients : client[c].account <= generations' /\ client[c].account # generations + 1
  BY <1>2 DEF AttachInv
<1>4. ASSUME NEW c \in Clients PROVE ConnOK(client[c], account', stateGen, guilds)
  <2>1. ConnOK(client[c], account, stateGen, guilds) /\ (stateGen = 0 => guilds = {})
    BY DEF AttachInv
  <2>2. account' \in {0, account} \/ (account' # stateGen /\ client[c].account # account')
    BY <1>2, <1>3
  <2> QED BY <2>1, <2>2 DEF ConnOK
<1> QED BY <1>1, <1>2, <1>3, <1>4 DEF AttachInv

\* A fresh gateway session, one that is over, and a whole guild list send every watcher away.
LEMMA AttachResync ==
  ASSUME AttachInv, Begin \/ End \/ \E S \in SUBSET CachedGuilds : DispatchReady(S) PROVE AttachInv'
<1> USE AttachTypes
<1>1. /\ client' = Killed(Watchers) /\ attachClosing' = attachClosing /\ generations' = generations /\ account' = account
      /\ gwSignIn' \in Gens /\ stateGen' \in Gens /\ gwSignIn' <= generations /\ stateGen' \in {0, gwSignIn'}
      /\ guilds' \subseteq CachedGuilds /\ (stateGen' = 0 => guilds' = {})
  <2>1. CASE Begin
    BY <2>1 DEF Begin, AttachInv
  <2>2. CASE End
    BY <2>2 DEF End, AttachInv, Gens
  <2>3. CASE \E S \in SUBSET CachedGuilds : DispatchReady(S)
    BY <2>3 DEF DispatchReady, AttachInv
  <2> QED BY <2>1, <2>2, <2>3
<1> QED BY <1>1, AllSentAway

\* An event reaches every watcher of the account it is of, or closes it.
LEMMA AttachDispatch ==
  ASSUME AttachInv, NEW e \in GuildEvent, DispatchGuild(e) PROVE AttachInv'
<1> USE AttachAssumption, AttachTypes
<1>1. /\ gwSignIn # 0 /\ stateGen = gwSignIn /\ e.gen = stateGen /\ guilds' = Apply(guilds, e)
      /\ UNCHANGED <<account, generations, gwSignIn, stateGen, attachClosing>>
  BY DEF DispatchGuild
<1>2. guilds' \subseteq CachedGuilds
  BY <1>1 DEF AttachInv, Apply, GuildEvent
<1>3. CASE ~Forwards
  <2>1. client' = client /\ PlacesTaken' = PlacesTaken /\ account # stateGen
    BY <1>3 DEF DispatchGuild, Forwards, PlacesTaken
  <2>2. ASSUME NEW c \in Clients PROVE ConnOK(client'[c], account', stateGen', guilds')
    <3>1. ConnOK(client[c], account, stateGen, guilds)
      BY DEF AttachInv
    <3> QED BY <1>1, <2>1, <3>1 DEF ConnOK
  <2> QED BY <1>1, <1>2, <2>1, <2>2 DEF AttachInv
<1>4. CASE Forwards
  <2>1. client' = FanOut(e) /\ account = stateGen
    BY <1>4 DEF DispatchGuild, Forwards
  <2>2. ASSUME NEW c \in Clients
        PROVE  /\ client'[c] \in ConnRecord /\ ConnOK(client'[c], account, stateGen, guilds')
               /\ Len(client'[c].queue) <= queueFrames /\ client'[c].account <= generations
               /\ (client'[c].at = "off") <=> (client[c].at = "off")
    <3>1. /\ client[c] \in ConnRecord /\ Len(client[c].queue) <= queueFrames /\ Len(client[c].queue) \in Nat
          /\ client[c].account <= generations /\ ConnOK(client[c], account, stateGen, guilds)
      BY DEF AttachInv, ConnRecord
    <3>2. CASE c \notin Watchers
      <4>1. client'[c] = client[c] /\ ~(client[c].at = "ready" /\ client[c].watching)
        BY <2>1, <3>2 DEF FanOut, Watchers
      <4> QED BY <3>1, <4>1, NotWatching
    <3>3. CASE c \in Watchers /\ Len(client[c].queue) = queueFrames
      <4>1. client'[c] = [client[c] EXCEPT !.at = "gone"] /\ client[c].at = "ready"
        BY <2>1, <3>3 DEF FanOut, Watchers
      <4>2. /\ client'[c] \in ConnRecord /\ client'[c].at = "gone" /\ client'[c].queue = client[c].queue
            /\ client'[c].account = client[c].account
        BY <3>1, <4>1 DEF ConnRecord
      <4> QED BY <3>1, <4>1, <4>2, NotWatching
    <3>4. CASE c \in Watchers /\ Len(client[c].queue) # queueFrames
      <4>1. client'[c] = [client[c] EXCEPT !.queue = Append(client[c].queue, e)] /\ client[c].at = "ready" /\ client[c].watching
        BY <2>1, <3>4 DEF FanOut, Watchers
      <4>2. client[c].queue \in Seq(GuildEvent)
        BY <3>1 DEF ConnRecord
      <4>3. Append(client[c].queue, e) \in Seq(GuildEvent) /\ Len(Append(client[c].queue, e)) = Len(client[c].queue) + 1
        BY <4>2
      <4>4. /\ client'[c] \in ConnRecord /\ client'[c].at = "ready" /\ client'[c].queue = Append(client[c].queue, e)
            /\ client'[c].account = client[c].account /\ client'[c].view = client[c].view
        BY <3>1, <4>1, <4>3 DEF ConnRecord
      <4>5. Len(client'[c].queue) <= queueFrames
        BY <3>1, <3>4, <4>3, <4>4
      <4>6. client[c].account = account
        BY <1>1, <2>1, <3>1, <4>1 DEF ConnOK
      <4>7. \A i \in DOMAIN client'[c].queue : client'[c].queue[i].gen = client'[c].account
        BY <1>1, <2>1, <3>1, <4>1, <4>2, <4>4, <4>6 DEF ConnOK
      <4>8. InTheEnd(client'[c]) = Apply(InTheEnd(client[c]), e)
        BY <3>1, <4>4, EndsWithMore
      <4>9. InTheEnd(client'[c]) = guilds'
        BY <1>1, <2>1, <3>1, <4>1, <4>6, <4>8 DEF ConnOK
      <4>10. ConnOK(client'[c], account, stateGen, guilds')
        BY <1>1, <4>4, <4>6, <4>7, <4>9 DEF ConnOK
      <4> QED BY <3>1, <4>1, <4>4, <4>5, <4>10
    <3> QED BY <3>2, <3>3, <3>4
  <2>3. client' \in [Clients -> ConnRecord]
    <3>1. client' = [c \in Clients |-> client'[c]]
      BY <2>1 DEF FanOut
    <3> QED BY <2>2, <3>1
  <2>4. PlacesTaken' = PlacesTaken
    BY <2>2 DEF PlacesTaken
  <2>5. \A c \in Clients : ConnOK(client'[c], account', stateGen', guilds')
    BY <1>1, <2>2
  <2> QED BY <1>1, <1>2, <2>2, <2>3, <2>4, <2>5 DEF AttachInv
<1> QED BY <1>3, <1>4

\* A connection's own steps.
LEMMA AttachConnection ==
  ASSUME AttachInv, NEW c \in Clients,
         Attach(c) \/ Receive(c) \/ Drop(c) \/ Detach(c) \/ \E events \in BOOLEAN : Handshake(c, events)
  PROVE  AttachInv'
<1> USE AttachAssumption
<1>1. /\ client \in [Clients -> ConnRecord] /\ client[c] \in ConnRecord /\ ConnOK(client[c], account, stateGen, guilds)
      /\ Len(client[c].queue) <= queueFrames /\ client[c].account <= generations
  BY AttachTypes DEF AttachInv
<1>2. CASE Attach(c)
  <2> DEFINE new == [client[c] EXCEPT !.at = "added"]
  <2>1. client' = [client EXCEPT ![c] = new] /\ Cardinality(PlacesTaken) < maxClients
        /\ UNCHANGED <<account, generations, gwSignIn, stateGen, guilds, attachClosing>>
    BY <1>2 DEF Attach, PlacesTaken
  <2>2. new \in ConnRecord /\ new.at = "added" /\ new.queue = client[c].queue /\ new.account = client[c].account
    BY <1>1 DEF ConnRecord
  <2> HIDE DEF new
  <2> QED BY <1>1, <2>1, <2>2, OneConnection, NotWatching
<1>3. CASE Receive(c)
  <2> DEFINE new == [client[c] EXCEPT !.view = Apply(client[c].view, Head(client[c].queue)), !.queue = Tail(client[c].queue)]
  <2>1. client' = [client EXCEPT ![c] = new] /\ client[c].at = "ready" /\ client[c].queue # <<>>
        /\ UNCHANGED <<account, generations, gwSignIn, stateGen, guilds, attachClosing>>
    BY <1>1, <1>3 DEF Receive
  <2>2. client[c].queue \in Seq(GuildEvent) /\ client[c].view \subseteq CachedGuilds
    BY <1>1 DEF ConnRecord
  <2>3. /\ Head(client[c].queue) \in GuildEvent /\ Tail(client[c].queue) \in Seq(GuildEvent)
        /\ Len(Tail(client[c].queue)) = Len(client[c].queue) - 1 /\ Len(client[c].queue) \in Nat
        /\ \A i \in DOMAIN Tail(client[c].queue) : i + 1 \in DOMAIN client[c].queue /\ Tail(client[c].queue)[i] = client[c].queue[i + 1]
    BY <2>1, <2>2
  <2>4. Apply(client[c].view, Head(client[c].queue)) \subseteq CachedGuilds
    BY <2>2, <2>3 DEF Apply, GuildEvent
  <2>5. /\ new \in ConnRecord /\ new.at = "ready" /\ new.queue = Tail(client[c].queue) /\ new.account = client[c].account
        /\ new.view = Apply(client[c].view, Head(client[c].queue)) /\ new.watching = client[c].watching
    BY <1>1, <2>1, <2>3, <2>4 DEF ConnRecord
  <2> HIDE DEF new
  <2>6. InTheEnd(new) = InTheEnd(client[c])
    BY <1>1, <2>1, <2>5, EndsTheSame
  <2>7. ConnOK(new, account, stateGen, guilds)
    BY <1>1, <2>1, <2>3, <2>5, <2>6 DEF ConnOK
  <2>8. Len(new.queue) <= queueFrames
    BY <1>1, <2>3, <2>5
  <2> QED BY <1>1, <2>1, <2>5, <2>7, <2>8, OneConnection
<1>4. CASE Drop(c)
  <2> DEFINE new == [client[c] EXCEPT !.at = "gone"]
  <2>1. client' = Killed({c}) /\ client[c].at # "off"
        /\ UNCHANGED <<account, generations, gwSignIn, stateGen, guilds, attachClosing>>
    BY <1>4 DEF Drop, Attached
  <2>2. new \in ConnRecord /\ new.at = "gone" /\ new.queue = client[c].queue /\ new.account = client[c].account
    BY <1>1 DEF ConnRecord
  <2>3. client' = [client EXCEPT ![c] = new]
    BY <1>1, <2>1 DEF Killed
  <2> HIDE DEF new
  <2> QED BY <1>1, <2>1, <2>2, <2>3, OneConnection, NotWatching
<1>5. CASE Detach(c)
  <2>1. client' = [client EXCEPT ![c] = Detached]
        /\ UNCHANGED <<account, generations, gwSignIn, stateGen, guilds, attachClosing>>
    BY <1>5 DEF Detach
  <2>2. 0 \in Gens /\ generations \in Nat
    BY AttachTypes DEF Gens
  <2>3. <<>> \in Seq(GuildEvent) /\ Len(<<>>) = 0
    OBVIOUS
  <2>4. Detached \in ConnRecord /\ Detached.at = "off" /\ Detached.queue = <<>> /\ Detached.account = 0
    BY <2>2, <2>3 DEF Detached, ConnRecord
  <2>5. Len(Detached.queue) <= queueFrames /\ Detached.account <= generations
    BY <2>2, <2>3, <2>4
  <2> QED BY <2>1, <2>4, <2>5, OneConnection, NotWatching
<1>6. ASSUME NEW events \in BOOLEAN, Handshake(c, events) PROVE AttachInv'
  <2> DEFINE shown == IF account # 0 /\ stateGen = account THEN guilds ELSE {}
             new == [at |-> "ready", watching |-> events, account |-> account, queue |-> <<>>, view |-> shown]
  <2>1. client' = [client EXCEPT ![c] = new] /\ client[c].at # "off"
        /\ UNCHANGED <<account, generations, gwSignIn, stateGen, guilds, attachClosing>>
    BY <1>6 DEF Handshake
  <2>2. shown \subseteq CachedGuilds /\ account \in Gens
    BY DEF AttachInv
  <2>3. <<>> \in Seq(GuildEvent) /\ Len(<<>>) = 0 /\ DOMAIN <<>> = {}
    OBVIOUS
  <2>4. (account = 0 /\ stateGen = 0 => shown = guilds) /\ (account = 0 => shown = {}) /\ (account # 0 /\ account = stateGen => shown = guilds)
    BY DEF AttachInv
  <2> HIDE DEF shown
  <2>5. new \in ConnRecord /\ new.queue = <<>> /\ new.account = account /\ new.view = shown
    BY <2>2, <2>3 DEF ConnRecord
  <2> HIDE DEF new
  <2>6. InTheEnd(new) = shown
    BY <2>2, <2>5, EndsAtOnce
  <2>7. ConnOK(new, account, stateGen, guilds)
    BY <2>3, <2>4, <2>5, <2>6 DEF ConnOK
  <2>8. Len(new.queue) <= queueFrames /\ new.account <= generations
    BY <2>3, <2>5, AttachTypes DEF AttachInv
  <2> QED BY <2>1, <2>5, <2>7, <2>8, OneConnection
<1> QED BY <1>2, <1>3, <1>4, <1>5, <1>6

\* Serve returns, and every connection is closed.
LEMMA AttachStops ==
  ASSUME AttachInv, StopServing PROVE AttachInv'
<1>1. Attached \in SUBSET Clients /\ \A c \in Attached : client[c].at # "off"
  BY DEF Attached
<1>2. client' = Killed(Attached) /\ attachClosing' = TRUE /\ UNCHANGED <<account, generations, gwSignIn, stateGen, guilds>>
  BY DEF StopServing
<1>3. /\ client' \in [Clients -> ConnRecord] /\ PlacesTaken' = PlacesTaken
      /\ \A c \in Clients : client'[c].queue = client[c].queue /\ client'[c].account = client[c].account
      /\ \A c \in Clients \ Attached : client'[c] = client[c]
      /\ \A c \in Attached : client'[c].at = "gone"
  BY <1>1, <1>2, KilledIs
<1>4. \A c \in Clients : ~(client'[c].at = "ready" /\ client'[c].watching)
  BY <1>3 DEF Attached
<1>5. \A c \in Clients : ConnOK(client'[c], account', stateGen', guilds')
  BY <1>4, NotWatching
<1>6. attachClosing' \in BOOLEAN
  BY <1>2, Zenon
<1> QED BY <1>2, <1>3, <1>5, <1>6 DEF AttachInv

\* Every step of the attach server keeps its invariant.
LEMMA AttachStepInv == AttachInv /\ AttachNext => AttachInv'
BY AttachNames, AttachResync, AttachDispatch, AttachConnection, AttachStops DEF AttachNext

\* A step of another part leaves it.
LEMMA AttachStutterInv == AttachInv /\ UNCHANGED attachVars => AttachInv'
BY DEF AttachInv, attachVars, PlacesTaken

\* What the invariant is for.
LEMMA AttachSafe == AttachInv => AttachTypeOK /\ OneAccountPerClient /\ WatcherInStep
BY DEF AttachInv, AttachTypeOK, OneAccountPerClient, WatcherInStep, ConnOK, ConnRecord, Watchers, PlacesTaken

-----------------------------------------------------------------------------
\* Settings files.

\* A command and a toggle, as the model keeps them.
JobRecord ==
  [at : {"none", "lock", "read", "write", "rename"}, kind : {"set", "import", "over"}, section : Sections,
   value : Settings, path : Files, read : Contents, tries : 0 .. maxAttempts]

\* A toggle under way.
ToggleRecord ==
  [at : {"none", "lock", "read", "tui", "gui", "merge", "check", "commit", "aside", "announce"},
   way : {"split", "unsplit"}, read : [Files -> Contents], ours : SUBSET ConfigClients, tries : 0 .. toggleAttempts]

\* No attempt is the last but the one that gives up.
TriesOK == toggle.tries < toggleAttempts /\ \A c \in ConfigClients : writer[c].tries < maxAttempts

\* The file with the edit of a job, whoever's it is.
EditedBy(c, j, onDisk) ==
  IF j.kind = "set" \/ ((j.section \in {"shared", c} \/ j.path = "shared") /\ (j.kind = "over" \/ onDisk[j.section] = Unset))
  THEN [onDisk EXCEPT ![j.section] = j.value] ELSE onDisk

\* A command past its lock holds it. Once it has read, the file is the one its client reads, what it read is
\* there but for an editor's save, and its edit changes it.
JobOK(c, j) ==
  /\ j.at \in {"read", "write", "rename"} => fileLock[j.path] = c
  /\ j.at \in {"write", "rename"} =>
       /\ j.path = PathFor(c) /\ EditedBy(c, j, j.read) # j.read
       /\ \A d \in ConfigClients : j.read[d] = Found(j.path)[d]

\* So of every client's command.
WritersOK == \A c \in ConfigClients : JobOK(c, writer[c])

\* The stages in which the files to be read are locked.
Holding == toggle.at \notin {"none", "lock"}

\* The stages before the state file is written.
Before == toggle.at \in {"lock", "read", "tui", "gui", "merge", "check", "commit"}

\* A toggle holds the locks of the files it has read; what it has read of the clients' sections is still there,
\* and so is what it has copied or merged.
ToggleOK ==
  /\ Holding => \A f \in ToggleFiles : fileLock[f] = "toggle"
  /\ Before => split = (toggle.way = "unsplit")
  /\ toggle.at \in {"tui", "gui"} => toggle.way = "split"
  /\ toggle.at \in {"merge", "aside"} => toggle.way = "unsplit"
  /\ toggle.at = "aside" => ~split
  /\ toggle.way = "split" /\ toggle.at \in {"tui", "gui", "check", "commit"} =>
       \A d \in ConfigClients : toggle.read["shared"][d] = Found("shared")[d]
  /\ toggle.way = "split" /\ toggle.at \in {"gui", "check", "commit"} =>
       \A d \in ConfigClients : (d = "tui" \/ toggle.at # "gui") => d \in there /\ Found(d)[d] = toggle.read["shared"][d]
  /\ toggle.way = "unsplit" /\ toggle.at \in {"merge", "check", "commit"} =>
       \A d \in ConfigClients : toggle.read[d][d] = Found(d)[d]
  /\ toggle.way = "unsplit" /\ toggle.at \in {"check", "commit"} =>
       \A d \in ConfigClients : Found("shared")[d] = toggle.read[d][d]
  /\ toggle.way = "unsplit" /\ toggle.at \in {"read", "merge", "check", "commit", "aside"} =>
       \A c \in ConfigClients : backups[c] < maxBackups

\* While split, each client has its file, and what was set for a client is what it reads.
ReadOK == (split => ConfigClients \subseteq there) /\ SetIsRead

\* The invariant of the settings files.
ConfigInv == ConfigTypeOK /\ TriesOK /\ WritersOK /\ ToggleOK /\ ReadOK /\ StaleIsTold

\* What the constants are, and the empty file.
LEMMA ConfigConstants ==
  /\ {maxAttempts, toggleAttempts, maxBackups} \subseteq Nat \ {0} /\ {MaxSets, MaxSaves, MaxToggles} \subseteq Nat
  /\ Empty \in Contents /\ Unset \in Settings
BY ConfigAssumption DEF Empty, Contents, Settings

\* The kinds of record this part keeps.
LEMMA ConfigTypes ==
  ASSUME ConfigTypeOK
  PROVE  /\ writer \in [ConfigClients -> JobRecord] /\ toggle \in ToggleRecord /\ \A f \in Files : Found(f) \in Contents
         /\ \A c \in ConfigClients : writer[c] \in JobRecord /\ writer[c].path \in Files /\ PathFor(c) \in Files
         /\ fileLock \in [Files -> {"free", "tui", "gui", "toggle"}] /\ contents \in [Files -> Contents]
         /\ \A c \in ConfigClients : c # "toggle" /\ c # "free" /\ c # "shared" /\ c \in Files /\ c \in Sections
<1>1. writer \in [ConfigClients -> JobRecord] /\ toggle \in ToggleRecord
      /\ fileLock \in [Files -> {"free", "tui", "gui", "toggle"}] /\ contents \in [Files -> Contents]
  BY DEF ConfigTypeOK, JobRecord, ToggleRecord
<1>2. \A f \in Files : Found(f) \in Contents
  BY <1>1, ConfigConstants DEF Found
<1>3. \A c \in ConfigClients : writer[c] \in JobRecord /\ writer[c].path \in Files
  BY <1>1 DEF JobRecord
<1>4. \A c \in ConfigClients : PathFor(c) \in Files /\ c # "toggle" /\ c # "free" /\ c # "shared" /\ c \in Files /\ c \in Sections
  BY DEF PathFor, Files, Sections, ConfigClients
<1> QED BY <1>1, <1>2, <1>3, <1>4

\* A file replaced: the others are as they were, and the watch saw it.
LEMMA ReplaceIs ==
  ASSUME ConfigTypeOK, NEW f \in Files, NEW data \in Contents, Replace(f, data)
  PROVE  /\ Found(f)' = data /\ \A g \in Files : g # f => Found(g)' = Found(g)
         /\ there' = there \cup {f} /\ there' \subseteq Files /\ settling' = TRUE
         /\ contents' \in [Files -> Contents] /\ newest' \in ConfigClients
<1>1. contents \in [Files -> Contents] /\ there \subseteq Files /\ newest \in ConfigClients
  BY DEF ConfigTypeOK
<1>2. contents' = [contents EXCEPT ![f] = data] /\ there' = there \cup {f}
  BY DEF Replace
<1>3. newest' \in ConfigClients
  BY <1>1 DEF Replace
<1>4. settling' = TRUE
  BY DEF Replace, Watched
<1>5. Found(f)' = data
  BY <1>1, <1>2 DEF Found
<1>6. ASSUME NEW g \in Files, g # f PROVE Found(g)' = Found(g)
  BY <1>1, <1>2, <1>6 DEF Found
<1> QED BY <1>1, <1>2, <1>3, <1>4, <1>5, <1>6

\* Nothing replaced.
LEMMA UntouchedIs ==
  ASSUME Untouched PROVE \A g : Found(g)' = Found(g)
BY DEF Untouched, Found

\* What a client reads is what it read, unless a file or the toggle changed.
LEMMA ReadsTheSame ==
  ASSUME Untouched, split' = split
  PROVE  \A c : PathFor(c)' = PathFor(c) /\ ReadFor(c)' = ReadFor(c) /\ Found(PathFor(c))' = Found(PathFor(c))
<1>1. \A c : PathFor(c)' = PathFor(c)
  BY DEF PathFor
<1> QED BY <1>1, UntouchedIs DEF ReadFor, Untouched, Found

\* Every client reads its settings again: none is stale.
LEMMA RereadIs ==
  ASSUME ConfigTypeOK, Reread, UNCHANGED <<there, contents, split>>
  PROVE  /\ \A c \in ConfigClients : view'[c] = ReadFor(c)' /\ view'[c] \in [{"shared", c} -> Settings]
<1>1. \A c \in ConfigClients : view'[c] = ReadFor(c)
  BY DEF Reread
<1>2. \A c : ReadFor(c)' = ReadFor(c)
  BY DEF ReadFor, Found, PathFor
<1>3. ASSUME NEW c \in ConfigClients PROVE ReadFor(c) \in [{"shared", c} -> Settings]
  <2>1. Found(PathFor(c)) \in [Sections -> Settings] /\ {"shared", c} \subseteq Sections
    BY ConfigTypes DEF Contents, Sections
  <2> QED BY <2>1 DEF ReadFor
<1> QED BY <1>1, <1>2, <1>3

\* Nothing was set, and nothing is read.
LEMMA ConfigInitInv == ConfigInit => ConfigInv
<1> SUFFICES ASSUME ConfigInit PROVE ConfigInv
  OBVIOUS
<1> USE ConfigConstants DEF ConfigInit
<1>1. 0 \in 0..maxAttempts /\ 0 \in 0..toggleAttempts /\ 0 \in 0..maxBackups /\ 0 < maxAttempts /\ 0 < toggleAttempts
      /\ MaxSets \in 0..MaxSets /\ MaxSaves \in 0..MaxSaves /\ MaxToggles \in 0..MaxToggles
  OBVIOUS
<1>2. NoJob \in JobRecord /\ NoJob.at = "none" /\ NoJob.tries = 0
  BY <1>1 DEF NoJob, JobRecord, Sections, Files
<1>3. NoToggle \in ToggleRecord /\ NoToggle.at = "none" /\ NoToggle.tries = 0
  BY <1>1 DEF NoToggle, ToggleRecord
<1>4. budget \in [sets : 0 .. MaxSets, saves : 0 .. MaxSaves, toggles : 0 .. MaxToggles]
  BY <1>1
<1>5. \A f \in Files : Found(f) = Empty
  BY DEF Found
<1>6. \A c \in ConfigClients : PathFor(c) = "shared" /\ "shared" \in Files /\ {"shared", c} \subseteq Sections
  BY DEF PathFor, Files, Sections
<1>7. \A c \in ConfigClients : ReadFor(c) = [s \in {"shared", c} |-> Unset]
  BY <1>5, <1>6 DEF ReadFor, Empty
<1>8. split \in BOOLEAN /\ settling \in BOOLEAN
  BY Zenon
<1>9. ConfigTypeOK
  <2>1. writer \in [ConfigClients -> JobRecord] /\ toggle \in ToggleRecord
    BY <1>2, <1>3
  <2>2. \A c \in ConfigClients : view[c] \in [{"shared", c} -> Settings] /\ want[c] \in Settings
    OBVIOUS
  <2>3. there \subseteq Files /\ contents \in [Files -> Contents] /\ newest \in ConfigClients
        /\ fileLock \in [Files -> {"free", "tui", "gui", "toggle"}] /\ backups \in [Files -> 0 .. maxBackups]
    BY <1>1 DEF ConfigClients
  <2> QED BY <1>4, <1>8, <2>1, <2>2, <2>3 DEF ConfigTypeOK, JobRecord, ToggleRecord
<1>10. TriesOK
  BY <1>1, <1>2, <1>3 DEF TriesOK
<1>11. WritersOK
  BY <1>2 DEF WritersOK, JobOK
<1>12. ToggleOK
  BY <1>3 DEF ToggleOK, Holding, Before
<1>13. ReadOK
  BY <1>5, <1>6 DEF ReadOK, SetIsRead, Empty, Sections
<1>14. StaleIsTold
  BY <1>7 DEF StaleIsTold
<1> QED BY <1>9, <1>10, <1>11, <1>12, <1>13, <1>14 DEF ConfigInv

\* A command's edit, as a matter of its own record.
LEMMA EditedIs == \A c, x : Edited(c, x) = EditedBy(c, writer[c], x)
BY DEF Edited, EditedBy

\* An edit leaves a file a file.
LEMMA EditedType ==
  ASSUME NEW c, NEW j \in JobRecord, NEW x \in Contents PROVE EditedBy(c, j, x) \in Contents
BY DEF EditedBy, JobRecord, Contents

\* A command's step that writes nothing: it takes or gives back its own lock alone.
LEMMA OneJob ==
  ASSUME ConfigInv, NEW c \in ConfigClients, NEW new \in JobRecord, new.tries < maxAttempts,
         writer' = [writer EXCEPT ![c] = new], Untouched, UNCHANGED <<split, toggle, backups, view, want>>,
         budget' \in [sets : 0 .. MaxSets, saves : 0 .. MaxSaves, toggles : 0 .. MaxToggles],
         fileLock' \in [Files -> {"free", "tui", "gui", "toggle"}],
         \A f \in Files : fileLock'[f] # fileLock[f] => fileLock[f] \in {"free", c} /\ fileLock'[f] \in {"free", c},
         new.at \in {"read", "write", "rename"} => fileLock'[new.path] = c,
         new.at \in {"write", "rename"} =>
           /\ new.path = PathFor(c) /\ EditedBy(c, new, new.read) # new.read
           /\ \A d \in ConfigClients : new.read[d] = Found(new.path)[d]
  PROVE  ConfigInv'
<1>0. ConfigTypeOK /\ TriesOK /\ WritersOK /\ ToggleOK /\ ReadOK /\ StaleIsTold
  BY DEF ConfigInv
<1>1. writer' \in [ConfigClients -> JobRecord] /\ writer'[c] = new /\ \A d \in ConfigClients \ {c} : writer'[d] = writer[d]
  BY <1>0, ConfigTypes
<1>2. UNCHANGED <<there, contents, newest, settling>> /\ (\A g : Found(g)' = Found(g))
      /\ \A d : PathFor(d)' = PathFor(d) /\ ReadFor(d)' = ReadFor(d) /\ Found(PathFor(d))' = Found(PathFor(d))
  BY UntouchedIs, ReadsTheSame DEF Untouched
<1>3. ConfigTypeOK'
  BY <1>0, <1>1, <1>2 DEF ConfigTypeOK, JobRecord
<1>4. TriesOK'
  BY <1>0, <1>1 DEF TriesOK
<1>5. WritersOK'
  <2> SUFFICES ASSUME NEW d \in ConfigClients PROVE JobOK(d, writer[d])'
    BY DEF WritersOK
  <2>1. CASE d = c
    BY <1>1, <1>2, <2>1 DEF JobOK
  <2>2. CASE d # c
    <3>1. JobOK(d, writer[d]) /\ writer'[d] = writer[d] /\ writer[d].path \in Files
      BY <1>0, <1>1, <2>2, ConfigTypes DEF WritersOK
    <3>2. fileLock[writer[d].path] = d => fileLock'[writer[d].path] = d
      BY <2>2, <3>1 DEF ConfigClients
    <3> QED BY <1>2, <3>1, <3>2 DEF JobOK
  <2> QED BY <2>1, <2>2
<1>6. ToggleOK'
  <2>1. \A f \in ToggleFiles : fileLock[f] = "toggle" => fileLock'[f] = "toggle"
    BY <1>0, ConfigTypes DEF ToggleFiles, Files, Sections
  <2> QED BY <1>0, <1>2, <2>1 DEF ToggleOK, Holding, Before, ToggleFiles
<1>7. ReadOK' /\ StaleIsTold'
  BY <1>0, <1>2 DEF ReadOK, SetIsRead, StaleIsTold
<1> QED BY <1>3, <1>4, <1>5, <1>6, <1>7 DEF ConfigInv

\* A toggle's step that writes nothing: it takes or gives back locks of its own.
LEMMA OneToggle ==
  ASSUME ConfigInv, toggle' \in ToggleRecord, toggle'.tries < toggleAttempts,
         Untouched, UNCHANGED <<split, writer, backups, view, want>>,
         budget' \in [sets : 0 .. MaxSets, saves : 0 .. MaxSaves, toggles : 0 .. MaxToggles],
         fileLock' \in [Files -> {"free", "tui", "gui", "toggle"}],
         \A f \in Files : fileLock'[f] # fileLock[f] => fileLock[f] \in {"free", "toggle"},
         ToggleOK', toggle.at \in {"aside", "announce"} => toggle'.at \in {"aside", "announce"}
  PROVE  ConfigInv'
<1>0. ConfigTypeOK /\ TriesOK /\ WritersOK /\ ToggleOK /\ ReadOK /\ StaleIsTold
  BY DEF ConfigInv
<1>2. UNCHANGED <<there, contents, newest, settling>> /\ (\A g : Found(g)' = Found(g))
      /\ \A d : PathFor(d)' = PathFor(d) /\ ReadFor(d)' = ReadFor(d) /\ Found(PathFor(d))' = Found(PathFor(d))
  BY UntouchedIs, ReadsTheSame DEF Untouched
<1>3. ConfigTypeOK'
  BY <1>0, <1>2 DEF ConfigTypeOK, ToggleRecord
<1>4. TriesOK'
  BY <1>0 DEF TriesOK
<1>5. WritersOK'
  <2> SUFFICES ASSUME NEW d \in ConfigClients PROVE JobOK(d, writer[d])'
    BY DEF WritersOK
  <2>1. JobOK(d, writer[d]) /\ writer'[d] = writer[d] /\ writer[d].path \in Files
    BY <1>0, ConfigTypes DEF WritersOK
  <2>2. fileLock[writer[d].path] = d => fileLock'[writer[d].path] = d
    BY <2>1 DEF ConfigClients
  <2> QED BY <1>2, <2>1, <2>2 DEF JobOK
<1>7. ReadOK' /\ StaleIsTold'
  BY <1>0, <1>2 DEF ReadOK, SetIsRead, StaleIsTold
<1> QED BY <1>3, <1>4, <1>5, <1>7 DEF ConfigInv

\* The budget of writes, saves and toggles only goes down.
LEMMA BudgetGoesDown ==
  ASSUME ConfigTypeOK
  PROVE  /\ budget \in [sets : 0 .. MaxSets, saves : 0 .. MaxSaves, toggles : 0 .. MaxToggles]
         /\ budget.sets > 0 => [budget EXCEPT !.sets = @ - 1] \in [sets : 0 .. MaxSets, saves : 0 .. MaxSaves, toggles : 0 .. MaxToggles]
         /\ budget.saves > 0 => [budget EXCEPT !.saves = @ - 1] \in [sets : 0 .. MaxSets, saves : 0 .. MaxSaves, toggles : 0 .. MaxToggles]
         /\ budget.toggles > 0 => [budget EXCEPT !.toggles = @ - 1] \in [sets : 0 .. MaxSets, saves : 0 .. MaxSaves, toggles : 0 .. MaxToggles]
<1>1. budget \in [sets : 0 .. MaxSets, saves : 0 .. MaxSaves, toggles : 0 .. MaxToggles]
  BY DEF ConfigTypeOK
<1>2. /\ budget.sets > 0 => budget.sets - 1 \in 0 .. MaxSets
      /\ budget.saves > 0 => budget.saves - 1 \in 0 .. MaxSaves
      /\ budget.toggles > 0 => budget.toggles - 1 \in 0 .. MaxToggles
  BY <1>1, ConfigConstants
<1> QED BY <1>1, <1>2

\* Idle, a command is under no obligation.
LEMMA NoJobIs == NoJob \in JobRecord /\ NoJob.at = "none" /\ NoJob.tries = 0 /\ 0 < maxAttempts
<1>1. 0 \in 0..maxAttempts /\ 0 < maxAttempts
  BY ConfigConstants
<1> QED BY <1>1, ConfigConstants DEF NoJob, JobRecord, Sections, Files

\* A lock given back by the command that holds it.
LEMMA UnlockIs ==
  ASSUME ConfigInv, NEW c \in ConfigClients, writer[c].at \in {"read", "write", "rename"}, Unlock(c)
  PROVE  /\ fileLock' \in [Files -> {"free", "tui", "gui", "toggle"}] /\ fileLock[writer[c].path] = c
         /\ fileLock' = [fileLock EXCEPT ![writer[c].path] = "free"]
         /\ \A f \in Files : fileLock'[f] # fileLock[f] => fileLock[f] \in {"free", c} /\ fileLock'[f] \in {"free", c}
<1>1. /\ fileLock \in [Files -> {"free", "tui", "gui", "toggle"}] /\ writer[c].path \in Files
      /\ fileLock[writer[c].path] = c
  BY ConfigTypes DEF ConfigInv, WritersOK, JobOK
<1>2. fileLock' = [fileLock EXCEPT ![writer[c].path] = "free"]
  BY DEF Unlock
<1> QED BY <1>1, <1>2

\* The steps of a command that write nothing.
LEMMA ConfigCommand ==
  ASSUME ConfigInv, NEW c \in ConfigClients,
         \/ \E kind \in {"set", "import", "over"}, s \in Sections, v \in Settings : BeginWriting(c, kind, s, v)
         \/ LockFile(c) \/ Locked(c) \/ StartAgain(c) \/ Snapshot(c) \/ BeforeRename(c)
  PROVE  ConfigInv'
<1> USE NoJobIs
<1>0. ConfigTypeOK /\ TriesOK /\ WritersOK
  BY DEF ConfigInv
<1>1. /\ writer[c] \in JobRecord /\ JobOK(c, writer[c]) /\ writer[c].tries < maxAttempts /\ writer[c].path \in Files
      /\ fileLock \in [Files -> {"free", "tui", "gui", "toggle"}] /\ PathFor(c) \in Files
      /\ budget \in [sets : 0 .. MaxSets, saves : 0 .. MaxSaves, toggles : 0 .. MaxToggles]
      /\ c \in {"free", "tui", "gui", "toggle"}
  BY <1>0, ConfigTypes, BudgetGoesDown DEF WritersOK, TriesOK, ConfigClients
<1>2. writer[c].tries \in Nat /\ maxAttempts \in Nat
      /\ (writer[c].tries + 1 # maxAttempts => writer[c].tries + 1 < maxAttempts /\ writer[c].tries + 1 \in 0..maxAttempts)
  BY <1>1, ConfigConstants DEF JobRecord
<1>3. ASSUME NEW kind \in {"set", "import", "over"}, NEW s \in Sections, NEW v \in Settings, BeginWriting(c, kind, s, v)
      PROVE  ConfigInv'
  <2> DEFINE new == [NoJob EXCEPT !.at = "lock", !.kind = kind, !.section = s, !.value = v, !.path = PathFor(c)]
  <2>1. new \in JobRecord /\ new.at = "lock" /\ new.tries = 0
    BY <1>1 DEF JobRecord
  <2>2. /\ writer' = [writer EXCEPT ![c] = new] /\ Untouched /\ UNCHANGED <<split, toggle, backups, view, want, fileLock>>
        /\ budget' \in [sets : 0 .. MaxSets, saves : 0 .. MaxSaves, toggles : 0 .. MaxToggles]
    BY <1>0, <1>3, BudgetGoesDown DEF BeginWriting, Job
  <2> HIDE DEF new
  <2> QED BY <1>1, <2>1, <2>2, OneJob
<1>4. CASE LockFile(c)
  <2> DEFINE new == [writer[c] EXCEPT !.at = "read"]
  <2>1. new \in JobRecord /\ new.at = "read" /\ new.tries = writer[c].tries /\ new.path = writer[c].path
    BY <1>1 DEF JobRecord
  <2>2. /\ writer' = [writer EXCEPT ![c] = new] /\ Untouched /\ UNCHANGED <<split, toggle, backups, view, want, budget>>
        /\ fileLock[writer[c].path] = "free" /\ fileLock' = [fileLock EXCEPT ![writer[c].path] = c]
    BY <1>4 DEF LockFile, Job, OnlyWriter
  <2> HIDE DEF new
  <2>3. /\ fileLock' \in [Files -> {"free", "tui", "gui", "toggle"}] /\ fileLock'[new.path] = c
        /\ \A f \in Files : fileLock'[f] # fileLock[f] => fileLock[f] \in {"free", c} /\ fileLock'[f] \in {"free", c}
    BY <1>1, <2>1, <2>2
  <2> QED BY <1>1, <2>1, <2>2, <2>3, OneJob
<1>5. CASE Locked(c)
  <2>1. writer' = [writer EXCEPT ![c] = NoJob] /\ Untouched /\ UNCHANGED <<split, toggle, backups, view, want, budget, fileLock>>
    BY <1>5 DEF Locked, Job, OnlyWriter
  <2> QED BY <1>1, <2>1, OneJob
<1>6. ASSUME Job(c, NoJob), Unlock(c), writer[c].at \in {"read", "write", "rename"}, Untouched, OnlyWriter, UNCHANGED want
      PROVE  ConfigInv'
  <2>1. writer' = [writer EXCEPT ![c] = NoJob] /\ UNCHANGED <<split, toggle, backups, view, want, budget>>
    BY <1>6 DEF Job, OnlyWriter
  <2> QED BY <1>1, <1>6, <2>1, UnlockIs, OneJob
<1>7. CASE StartAgain(c)
  <2>1. CASE writer[c].tries + 1 = maxAttempts
    BY <1>6, <1>7, <2>1 DEF StartAgain
  <2>2. CASE writer[c].tries + 1 # maxAttempts
    <3> DEFINE new == [writer[c] EXCEPT !.at = "lock", !.path = PathFor(c), !.tries = writer[c].tries + 1]
    <3>1. new \in JobRecord /\ new.at = "lock" /\ new.tries = writer[c].tries + 1
      BY <1>1, <1>2, <2>2 DEF JobRecord
    <3>2. /\ writer' = [writer EXCEPT ![c] = new] /\ Untouched /\ UNCHANGED <<split, toggle, backups, view, want, budget>>
          /\ Unlock(c) /\ writer[c].at = "read"
      BY <1>7, <2>2 DEF StartAgain, Job, OnlyWriter
    <3> HIDE DEF new
    <3>3. /\ fileLock' \in [Files -> {"free", "tui", "gui", "toggle"}]
          /\ \A f \in Files : fileLock'[f] # fileLock[f] => fileLock[f] \in {"free", c} /\ fileLock'[f] \in {"free", c}
      BY <3>2, UnlockIs
    <3> QED BY <1>1, <1>2, <2>2, <3>1, <3>2, <3>3, OneJob
  <2> QED BY <2>1, <2>2
<1>8. CASE Snapshot(c)
  <2> DEFINE onDisk == Found(writer[c].path)
  <2>1. onDisk \in Contents
    BY <1>0, <1>1, ConfigTypes
  <2>2. CASE Edited(c, onDisk) = onDisk
    BY <1>6, <1>8, <2>2 DEF Snapshot
  <2>3. CASE Edited(c, onDisk) # onDisk
    <3> HIDE DEF onDisk
    <3> DEFINE new == [writer[c] EXCEPT !.at = "write", !.read = onDisk]
    <3>1. /\ new \in JobRecord /\ new.at = "write" /\ new.tries = writer[c].tries /\ new.path = writer[c].path
          /\ new.read = onDisk /\ new.kind = writer[c].kind /\ new.section = writer[c].section /\ new.value = writer[c].value
      BY <1>1, <2>1 DEF JobRecord
    <3>2. /\ writer' = [writer EXCEPT ![c] = new] /\ Untouched /\ UNCHANGED <<split, toggle, backups, view, want, budget, fileLock>>
          /\ writer[c].at = "read" /\ PathFor(c) = writer[c].path
      BY <1>8, <2>3 DEF Snapshot, Job, OnlyWriter, Moved, onDisk
    <3>3. fileLock[writer[c].path] = c
      BY <1>1, <3>2 DEF JobOK
    <3> HIDE DEF new
    <3>4. EditedBy(c, new, new.read) # new.read
      BY <2>3, <3>1, EditedIs DEF EditedBy
    <3>5. \A d \in ConfigClients : new.read[d] = Found(new.path)[d]
      BY <3>1 DEF onDisk
    <3> QED BY <1>1, <3>1, <3>2, <3>3, <3>4, <3>5, OneJob
  <2> QED BY <2>2, <2>3
<1>9. CASE BeforeRename(c)
  <2>1. CASE Found(writer[c].path) = writer[c].read
    <3> DEFINE new == [writer[c] EXCEPT !.at = "rename"]
    <3>1. /\ new \in JobRecord /\ new.at = "rename" /\ new.tries = writer[c].tries /\ new.path = writer[c].path
          /\ new.read = writer[c].read /\ new.kind = writer[c].kind /\ new.section = writer[c].section /\ new.value = writer[c].value
      BY <1>1 DEF JobRecord
    <3>2. /\ writer' = [writer EXCEPT ![c] = new] /\ Untouched /\ UNCHANGED <<split, toggle, backups, view, want, budget, fileLock>>
          /\ writer[c].at = "write"
      BY <1>9, <2>1 DEF BeforeRename, Job, OnlyWriter
    <3> HIDE DEF new
    <3>3. /\ fileLock[new.path] = c /\ new.path = PathFor(c) /\ EditedBy(c, new, new.read) # new.read
          /\ \A d \in ConfigClients : new.read[d] = Found(new.path)[d]
      BY <1>1, <3>1, <3>2 DEF JobOK, EditedBy
    <3> QED BY <1>1, <3>1, <3>2, <3>3, OneJob
  <2>2. CASE Found(writer[c].path) # writer[c].read /\ writer[c].tries + 1 = maxAttempts
    BY <1>6, <1>9, <2>2 DEF BeforeRename
  <2>3. CASE Found(writer[c].path) # writer[c].read /\ writer[c].tries + 1 # maxAttempts
    <3> DEFINE new == [writer[c] EXCEPT !.at = "read", !.tries = writer[c].tries + 1]
    <3>1. new \in JobRecord /\ new.at = "read" /\ new.tries = writer[c].tries + 1 /\ new.path = writer[c].path
      BY <1>1, <1>2, <2>3 DEF JobRecord
    <3>2. /\ writer' = [writer EXCEPT ![c] = new] /\ Untouched /\ UNCHANGED <<split, toggle, backups, view, want, budget, fileLock>>
          /\ writer[c].at = "write"
      BY <1>9, <2>3 DEF BeforeRename, Job, OnlyWriter
    <3>3. fileLock[writer[c].path] = c
      BY <1>1, <3>2 DEF JobOK
    <3> HIDE DEF new
    <3> QED BY <1>1, <1>2, <2>3, <3>1, <3>2, <3>3, OneJob
  <2> QED BY <2>1, <2>2, <2>3
<1> QED BY <1>3, <1>4, <1>5, <1>7, <1>8, <1>9

\* While a toggle holds what it has read, no command is about to write.
LEMMA NoneRenames ==
  ASSUME ConfigInv, Holding, Before, NEW c \in ConfigClients PROVE writer[c].at \notin {"write", "rename"}
<1> SUFFICES ASSUME writer[c].at \in {"write", "rename"} PROVE FALSE
  OBVIOUS
<1>1. writer[c].path = PathFor(c) /\ fileLock[writer[c].path] = c /\ c # "toggle"
  BY ConfigTypes DEF ConfigInv, WritersOK, JobOK
<1>2. split = (toggle.way = "unsplit") /\ \A f \in ToggleFiles : fileLock[f] = "toggle"
  BY DEF ConfigInv, ToggleOK
<1>3. toggle.way \in {"split", "unsplit"}
  BY ConfigTypes DEF ConfigInv, ToggleRecord
<1>4. PathFor(c) \in ToggleFiles
  BY <1>2, <1>3 DEF PathFor, ToggleFiles
<1> QED BY <1>1, <1>2, <1>4

\* The rename: what it writes for a client is what that client reads.
LEMMA ConfigRename ==
  ASSUME ConfigInv, NEW c \in ConfigClients, Rename(c) PROVE ConfigInv'
<1> USE NoJobIs
<1>0. ConfigTypeOK /\ TriesOK /\ WritersOK /\ ToggleOK /\ ReadOK /\ StaleIsTold
  BY DEF ConfigInv
<1> DEFINE data == EditedBy(c, writer[c], writer[c].read)
<1>p. PICK p \in Files : p = writer[c].path
  BY <1>0, ConfigTypes
<1>1. /\ writer[c] \in JobRecord /\ p \in Files /\ fileLock[p] = c /\ p = PathFor(c) /\ writer[c].at = "rename"
      /\ data # writer[c].read /\ (\A d \in ConfigClients : writer[c].read[d] = Found(p)[d])
      /\ writer[c].section \in Sections /\ writer[c].value \in Settings /\ writer[c].read \in Contents
  BY <1>0, <1>p, ConfigTypes DEF Rename, WritersOK, JobOK, JobRecord
<1>2. data = [writer[c].read EXCEPT ![writer[c].section] = writer[c].value]
  BY <1>1 DEF EditedBy
<1>3. data \in Contents
  BY <1>1, <1>2 DEF Contents
<1>4. Replace(p, data) /\ Unlock(c) /\ writer' = [writer EXCEPT ![c] = NoJob] /\ UNCHANGED <<split, toggle, backups, view, budget>>
      /\ want' = [d \in ConfigClients |-> IF WroteFor(c, d) THEN writer[c].value ELSE want[d]]
  BY <1>p, EditedIs DEF Rename, Job, OnlyWriter
<1>5. /\ fileLock' \in [Files -> {"free", "tui", "gui", "toggle"}] /\ fileLock' = [fileLock EXCEPT ![p] = "free"]
  BY <1>1, <1>p, <1>4, UnlockIs
<1> HIDE DEF data
<1>6. /\ Found(p)' = data /\ \A g \in Files : g # p => Found(g)' = Found(g)
      /\ there' = there \cup {p} /\ there' \subseteq Files /\ settling' = TRUE
      /\ contents' \in [Files -> Contents] /\ newest' \in ConfigClients
  BY <1>0, <1>1, <1>3, <1>4, ReplaceIs
<1>7. writer' \in [ConfigClients -> JobRecord] /\ writer'[c] = NoJob /\ \A d \in ConfigClients \ {c} : writer'[d] = writer[d]
  BY <1>0, <1>4, ConfigTypes
<1>8. \A d \in ConfigClients : want'[d] \in Settings
  BY <1>0, <1>1, <1>4 DEF ConfigTypeOK
<1>9. settling' \in BOOLEAN
  BY <1>6, Zenon
<1>10. ConfigTypeOK'
  BY <1>0, <1>4, <1>5, <1>6, <1>7, <1>8, <1>9 DEF ConfigTypeOK, JobRecord
<1>11. TriesOK'
  BY <1>0, <1>4, <1>7 DEF TriesOK
<1>12. WritersOK'
  <2> SUFFICES ASSUME NEW d \in ConfigClients PROVE JobOK(d, writer[d])'
    BY DEF WritersOK
  <2>1. CASE d = c
    BY <1>7, <2>1 DEF JobOK
  <2>2. CASE d # c
    <3>1. JobOK(d, writer[d]) /\ writer'[d] = writer[d] /\ writer[d].path \in Files
      BY <1>0, <1>7, <2>2, ConfigTypes DEF WritersOK
    <3>2. writer[d].at \in {"read", "write", "rename"} => writer[d].path # p /\ fileLock'[writer[d].path] = d
      BY <1>0, <1>1, <1>5, <2>2, <3>1, ConfigTypes DEF JobOK
    <3>3. PathFor(d)' = PathFor(d)
      BY <1>4 DEF PathFor
    <3>4. writer[d].at \in {"write", "rename"} => Found(writer[d].path)' = Found(writer[d].path)
      BY <1>6, <3>1, <3>2
    <3> QED BY <3>1, <3>2, <3>3, <3>4 DEF JobOK
  <2> QED BY <2>1, <2>2
<1>13. ~(Holding /\ Before)
  BY <1>1, NoneRenames
<1>14. ToggleOK'
  <2>1. \A f \in ToggleFiles : fileLock[f] = "toggle" => fileLock'[f] = "toggle"
    BY <1>0, <1>1, <1>5, ConfigTypes DEF ToggleFiles, Files, Sections
  <2> QED BY <1>0, <1>4, <1>13, <2>1 DEF ToggleOK, Holding, Before, ToggleFiles
<1>15. SetIsRead'
  <2> SUFFICES ASSUME NEW d \in ConfigClients PROVE Found(PathFor(d))'[d] = want'[d]
    BY DEF SetIsRead
  <2>1. PathFor(d)' = PathFor(d) /\ PathFor(d) \in Files /\ d \in Sections /\ Found(PathFor(d))[d] = want[d]
    BY <1>0, <1>4, ConfigTypes DEF PathFor, ReadOK, SetIsRead
  <2>2. want'[d] = IF WroteFor(c, d) THEN writer[c].value ELSE want[d]
    BY <1>4
  <2>3. CASE PathFor(d) = p
    <3>1. Found(PathFor(d))' = data
      BY <1>6, <2>1, <2>3 DEF Found
    <3>2. c = d \/ p = "shared"
      BY <1>1, <2>3, ConfigTypes DEF PathFor
    <3>3. CASE writer[c].section = d
      <4>1. data[d] = writer[c].value
        BY <1>1, <1>2, <2>1, <3>3 DEF Contents
      <4>2. WroteFor(c, d)
        BY <1>p, <3>2, <3>3 DEF WroteFor
      <4> QED BY <2>2, <3>1, <4>1, <4>2
    <3>4. CASE writer[c].section # d
      <4>1. data[d] = writer[c].read[d]
        BY <1>1, <1>2, <2>1, <3>4 DEF Contents
      <4>2. ~WroteFor(c, d)
        BY <3>4 DEF WroteFor
      <4> QED BY <1>1, <2>1, <2>2, <2>3, <3>1, <4>1, <4>2
    <3> QED BY <3>3, <3>4
  <2>4. CASE PathFor(d) # p
    <3>1. Found(PathFor(d))' = Found(PathFor(d))
      BY <1>6, <2>1, <2>4 DEF Found
    <3>2. ~WroteFor(c, d)
      BY <1>0, <1>1, <1>p, <2>4, ConfigTypes DEF WroteFor, PathFor
    <3> QED BY <2>1, <2>2, <3>1, <3>2
  <2> QED BY <2>3, <2>4
<1>16. ReadOK' /\ StaleIsTold'
  BY <1>0, <1>4, <1>6, <1>15 DEF ReadOK, StaleIsTold
<1> QED BY <1>10, <1>11, <1>12, <1>14, <1>16 DEF ConfigInv

\* A person's save changes no section of a client's own.
LEMMA ConfigEditor ==
  ASSUME ConfigInv, NEW f \in Files, NEW v \in Settings, EditorSaves(f, v) PROVE ConfigInv'
<1>0. ConfigTypeOK /\ TriesOK /\ WritersOK /\ ToggleOK /\ ReadOK /\ StaleIsTold
  BY DEF ConfigInv
<1> DEFINE data == [Found(f) EXCEPT !["shared"] = v]
<1>1. Found(f) \in Contents /\ "shared" \in Sections
  BY <1>0, ConfigTypes DEF Sections
<1>2. data \in Contents /\ \A d \in ConfigClients : data[d] = Found(f)[d]
  BY <1>0, <1>1, ConfigTypes DEF Contents
<1>3. Replace(f, data) /\ UNCHANGED <<split, fileLock, writer, toggle, backups, view, want>>
  BY DEF EditorSaves
<1>4. budget' \in [sets : 0 .. MaxSets, saves : 0 .. MaxSaves, toggles : 0 .. MaxToggles]
  BY <1>0, BudgetGoesDown DEF EditorSaves
<1> HIDE DEF data
<1>5. /\ Found(f)' = data /\ \A g \in Files : g # f => Found(g)' = Found(g)
      /\ there' = there \cup {f} /\ there' \subseteq Files /\ settling' = TRUE
      /\ contents' \in [Files -> Contents] /\ newest' \in ConfigClients
  BY <1>0, <1>2, <1>3, ReplaceIs
<1>6. \A g \in Files : \A d \in ConfigClients : Found(g)'[d] = Found(g)[d]
  BY <1>2, <1>5
<1>7. settling' \in BOOLEAN
  BY <1>5, Zenon
<1>8. ConfigTypeOK'
  BY <1>0, <1>3, <1>4, <1>5, <1>7 DEF ConfigTypeOK
<1>9. TriesOK'
  BY <1>0, <1>3 DEF TriesOK
<1>10. \A d \in ConfigClients : PathFor(d)' = PathFor(d) /\ PathFor(d) \in Files /\ Found(PathFor(d))'[d] = Found(PathFor(d))[d]
  <2> SUFFICES ASSUME NEW d \in ConfigClients
               PROVE  PathFor(d)' = PathFor(d) /\ PathFor(d) \in Files /\ Found(PathFor(d))'[d] = Found(PathFor(d))[d]
    OBVIOUS
  <2>1. PathFor(d)' = PathFor(d) /\ PathFor(d) \in Files
    BY <1>0, <1>3, ConfigTypes DEF PathFor
  <2>2. CASE PathFor(d) = f
    <3>1. Found(PathFor(d))' = data
      BY <1>5, <2>1, <2>2 DEF Found
    <3> QED BY <1>2, <2>1, <2>2, <3>1
  <2>3. CASE PathFor(d) # f
    <3>1. Found(PathFor(d))' = Found(PathFor(d))
      BY <1>5, <2>1, <2>3 DEF Found
    <3> QED BY <2>1, <3>1
  <2> QED BY <2>2, <2>3
<1>11. WritersOK'
  <2> SUFFICES ASSUME NEW d \in ConfigClients PROVE JobOK(d, writer[d])'
    BY DEF WritersOK
  <2>1. JobOK(d, writer[d]) /\ writer'[d] = writer[d] /\ writer[d].path \in Files
    BY <1>0, <1>3, ConfigTypes DEF WritersOK
  <2>2. PathFor(d)' = PathFor(d)
    BY <1>10
  <2>3. \A e \in ConfigClients : Found(writer[d].path)'[e] = Found(writer[d].path)[e]
    <3>1. CASE writer[d].path = f
      <4>1. Found(writer[d].path)' = data
        BY <1>5, <2>1, <3>1 DEF Found
      <4> QED BY <1>2, <3>1, <4>1
    <3>2. CASE writer[d].path # f
      <4>1. Found(writer[d].path)' = Found(writer[d].path)
        BY <1>5, <2>1, <3>2 DEF Found
      <4> QED BY <4>1
    <3> QED BY <3>1, <3>2
  <2> QED BY <1>3, <2>1, <2>2, <2>3 DEF JobOK
<1>12. ToggleOK'
  <2>1. \A d \in ConfigClients : d \in Files /\ Found(d)'[d] = Found(d)[d] /\ Found("shared")'[d] = Found("shared")[d]
    BY <1>0, <1>6, ConfigTypes DEF Files, Sections
  <2>2. \A d : d \in there => d \in there'
    BY <1>5
  <2> QED BY <1>0, <1>3, <2>1, <2>2 DEF ToggleOK, Holding, Before, ToggleFiles
<1>13. ReadOK' /\ StaleIsTold'
  BY <1>0, <1>3, <1>5, <1>10 DEF ReadOK, SetIsRead, StaleIsTold
<1> QED BY <1>8, <1>9, <1>11, <1>12, <1>13 DEF ConfigInv

\* No toggle: no lock of its own.
LEMMA NoToggleIs == NoToggle \in ToggleRecord /\ NoToggle.at = "none" /\ NoToggle.tries = 0 /\ 0 < toggleAttempts
<1>1. 0 \in 0..toggleAttempts /\ 0 < toggleAttempts
  BY ConfigConstants
<1> QED BY <1>1, ConfigConstants DEF NoToggle, ToggleRecord

\* A toggle that ends gives back its locks and no other.
LEMMA GiveUpIs ==
  ASSUME ConfigTypeOK, GiveUp
  PROVE  /\ toggle' \in ToggleRecord /\ toggle'.at = "none" /\ toggle'.tries < toggleAttempts /\ ToggleOK'
         /\ fileLock' \in [Files -> {"free", "tui", "gui", "toggle"}]
         /\ \A f \in Files : fileLock'[f] # fileLock[f] => fileLock[f] \in {"free", "toggle"}
<1>1. toggle' = NoToggle /\ fileLock' = Holds /\ fileLock \in [Files -> {"free", "tui", "gui", "toggle"}]
  BY ConfigTypes DEF GiveUp
<1>2. toggle' \in ToggleRecord /\ toggle'.at = "none" /\ toggle'.tries < toggleAttempts
  BY <1>1, NoToggleIs
<1>3. ToggleOK'
  BY <1>2 DEF ToggleOK, Holding, Before
<1>4. /\ fileLock' \in [Files -> {"free", "tui", "gui", "toggle"}]
      /\ \A f \in Files : fileLock'[f] # fileLock[f] => fileLock[f] \in {"free", "toggle"}
  BY <1>1 DEF Holds
<1> QED BY <1>2, <1>3, <1>4

\* A toggle moves to another of its stages: its way, what it read and its tries are as they were.
LEMMA ToggleToIs ==
  ASSUME ConfigInv, NEW a \in {"none", "lock", "read", "tui", "gui", "merge", "check", "commit", "aside", "announce"},
         ToggleTo(a)
  PROVE  /\ toggle' \in ToggleRecord /\ toggle'.at = a /\ toggle'.way = toggle.way /\ toggle'.read = toggle.read
         /\ toggle'.tries = toggle.tries /\ toggle'.tries < toggleAttempts /\ ToggleFiles' = ToggleFiles
<1>1. toggle \in ToggleRecord /\ toggle.tries < toggleAttempts
  BY ConfigTypes DEF ConfigInv, TriesOK
<1>2. toggle' = [toggle EXCEPT !.at = a]
  BY DEF ToggleTo
<1>3. /\ toggle' \in ToggleRecord /\ toggle'.at = a /\ toggle'.way = toggle.way /\ toggle'.read = toggle.read
      /\ toggle'.tries = toggle.tries
  BY <1>1, <1>2 DEF ToggleRecord
<1> QED BY <1>1, <1>3 DEF ToggleFiles

\* The files about to be read are the shared one or the clients'.
LEMMA ToggleFilesAre ==
  ASSUME ConfigTypeOK
  PROVE  /\ ToggleFiles \subseteq Files /\ toggle.way \in {"split", "unsplit"}
         /\ toggle.way = "split" => ToggleFiles = {"shared"}
         /\ toggle.way = "unsplit" => ToggleFiles = ConfigClients
         /\ "shared" \in Files /\ "shared" \notin ConfigClients /\ ConfigClients = {"tui", "gui"}
BY ConfigTypes DEF ToggleFiles, ToggleRecord, Files, Sections, ConfigClients

\* The steps of a toggle that write nothing and leave the state file.
LEMMA ConfigToggleQuiet ==
  ASSUME ConfigInv,
         \/ \E way \in {"split", "unsplit"} : ToggleBegin(way)
         \/ \E f \in Files : ToggleLock(f)
         \/ ToggleLocked \/ ToggleReady \/ ToggleRead \/ ToggleCheck
  PROVE  ConfigInv'
<1>0. ConfigTypeOK /\ TriesOK /\ ToggleOK /\ ReadOK
  BY DEF ConfigInv
<1>1. /\ toggle \in ToggleRecord /\ toggle.tries < toggleAttempts /\ toggle.tries \in Nat /\ toggleAttempts \in Nat
      /\ fileLock \in [Files -> {"free", "tui", "gui", "toggle"}]
      /\ budget \in [sets : 0 .. MaxSets, saves : 0 .. MaxSaves, toggles : 0 .. MaxToggles]
  BY <1>0, ConfigTypes, ConfigConstants, BudgetGoesDown DEF TriesOK, ToggleRecord
<1>2. ASSUME GiveUp, Untouched, UNCHANGED <<split, writer, backups, view, want, budget>>, toggle.at \notin {"aside", "announce"}
      PROVE  ConfigInv'
  BY <1>0, <1>1, <1>2, GiveUpIs, OneToggle
<1>3. ASSUME NEW way \in {"split", "unsplit"}, ToggleBegin(way) PROVE ConfigInv'
  <2>1. /\ toggle.at = "none" /\ split = (way = "unsplit") /\ toggle' = [NoToggle EXCEPT !.at = "lock", !.way = way]
        /\ Untouched /\ UNCHANGED <<split, fileLock, writer, backups, view, want>>
    BY <1>3 DEF ToggleBegin
  <2>2. budget' \in [sets : 0 .. MaxSets, saves : 0 .. MaxSaves, toggles : 0 .. MaxToggles]
    BY <1>0, <1>3, BudgetGoesDown DEF ToggleBegin
  <2>3. toggle' \in ToggleRecord /\ toggle'.at = "lock" /\ toggle'.way = way /\ toggle'.tries < toggleAttempts
    BY <2>1, NoToggleIs DEF ToggleRecord
  <2>4. ToggleOK'
    BY <2>1, <2>3 DEF ToggleOK, Holding, Before
  <2> QED BY <1>1, <2>1, <2>2, <2>3, <2>4, OneToggle
<1>4. ASSUME NEW f \in Files, ToggleLock(f) PROVE ConfigInv'
  <2>1. /\ toggle.at = "lock" /\ fileLock[f] = "free" /\ fileLock' = [fileLock EXCEPT ![f] = "toggle"]
        /\ Untouched /\ UNCHANGED <<split, writer, backups, view, want, budget, toggle>>
    BY <1>4 DEF ToggleLock, OnlyToggle
  <2>2. /\ fileLock' \in [Files -> {"free", "tui", "gui", "toggle"}]
        /\ \A g \in Files : fileLock'[g] # fileLock[g] => fileLock[g] \in {"free", "toggle"}
    BY <1>1, <2>1
  <2>3. ToggleOK'
    BY <1>0, <2>1 DEF ToggleOK, Holding, Before
  <2> QED BY <1>1, <2>1, <2>2, <2>3, OneToggle
<1>5. CASE ToggleLocked
  BY <1>2, <1>5 DEF ToggleLocked, OnlyToggle
<1>6. CASE ToggleReady
  <2>1. CASE toggle.way = "unsplit" /\ ~FreeBackup
    BY <1>2, <1>6, <2>1 DEF ToggleReady, OnlyToggle
  <2>2. CASE ~(toggle.way = "unsplit" /\ ~FreeBackup)
    <3>1. /\ toggle.at = "lock" /\ (\A f \in ToggleFiles : fileLock[f] = "toggle") /\ ToggleTo("read")
          /\ Untouched /\ UNCHANGED <<split, writer, backups, view, want, budget, fileLock>>
      BY <1>6, <2>2 DEF ToggleReady, OnlyToggle
    <3>2. toggle' \in ToggleRecord /\ toggle'.at = "read" /\ toggle'.way = toggle.way /\ toggle'.tries < toggleAttempts /\ ToggleFiles' = ToggleFiles
      BY <3>1, ToggleToIs
    <3>3. toggle.way = "unsplit" => \A c \in ConfigClients : backups[c] < maxBackups
      BY <1>0, <2>2, ConfigTypes DEF FreeBackup
    <3>4. ToggleOK'
      BY <1>0, <3>1, <3>2, <3>3 DEF ToggleOK, Holding, Before
    <3> QED BY <1>1, <3>1, <3>2, <3>4, OneToggle
  <2> QED BY <2>1, <2>2
<1>7. CASE ToggleRead
  <2> DEFINE next == IF toggle.way = "split" THEN "tui" ELSE IF there \cap ConfigClients = {} THEN "commit" ELSE "merge"
             found == [f \in Files |-> Found(f)]
  <2>1. /\ toggle.at = "read" /\ toggle' = [toggle EXCEPT !.read = found, !.at = next]
        /\ Untouched /\ UNCHANGED <<split, writer, backups, view, want, budget, fileLock>>
    BY <1>7 DEF ToggleRead, OnlyToggle
  <2>2. found \in [Files -> Contents] /\ \A f \in Files : found[f] = Found(f)
    BY <1>0, ConfigTypes
  <2>3. next \in {"tui", "merge"} /\ (next = "tui" <=> toggle.way = "split")
    <3>1. toggle.way = "unsplit" => split
      BY <1>0, <2>1 DEF ToggleOK, Before
    <3>2. toggle.way = "unsplit" => there \cap ConfigClients # {}
      BY <1>0, <3>1, ToggleFilesAre DEF ReadOK
    <3> QED BY <1>0, <3>2, ToggleFilesAre
  <2> HIDE DEF next, found
  <2>4. /\ toggle' \in ToggleRecord /\ toggle'.at = next /\ toggle'.way = toggle.way /\ toggle'.tries = toggle.tries /\ toggle'.read = found
    BY <1>1, <2>1, <2>2, <2>3 DEF ToggleRecord
  <2>5. ToggleFiles' = ToggleFiles
    BY <2>4 DEF ToggleFiles
  <2>6. \A g : Found(g)' = Found(g)
    BY <2>1, UntouchedIs
  <2>7. \A d \in ConfigClients : toggle'.read["shared"][d] = Found("shared")'[d] /\ toggle'.read[d][d] = Found(d)'[d]
    BY <1>0, <2>2, <2>4, <2>6, ConfigTypes, ToggleFilesAre
  <2>8. ToggleOK'
    BY <1>0, <2>1, <2>3, <2>4, <2>5, <2>7, ToggleFilesAre DEF ToggleOK, Holding, Before
  <2> QED BY <1>1, <2>1, <2>4, <2>8, OneToggle
<1>8. CASE ToggleCheck
  <2> DEFINE same == \A f \in ToggleFiles : Found(f) = toggle.read[f]
  <2>1. toggle.at = "check" /\ Untouched /\ UNCHANGED <<split, writer, backups, view, want, budget>>
    BY <1>8 DEF ToggleCheck, OnlyToggle
  <2>2. CASE same
    <3>1. ToggleTo("commit") /\ UNCHANGED fileLock
      BY <1>8, <2>2 DEF ToggleCheck
    <3>2. /\ toggle' \in ToggleRecord /\ toggle'.at = "commit" /\ toggle'.way = toggle.way /\ toggle'.read = toggle.read
          /\ toggle'.tries < toggleAttempts /\ ToggleFiles' = ToggleFiles
      BY <3>1, ToggleToIs
    <3>3. UNCHANGED there /\ \A g : Found(g)' = Found(g)
      BY <2>1, UntouchedIs DEF Untouched
    <3>4. ToggleOK'
      BY <1>0, <2>1, <3>1, <3>2, <3>3 DEF ToggleOK, Holding, Before
    <3> QED BY <1>1, <2>1, <3>1, <3>2, <3>4, OneToggle
  <2>3. CASE ~same /\ toggle.tries + 1 = toggleAttempts
    BY <1>2, <1>8, <2>1, <2>3 DEF ToggleCheck
  <2>4. CASE ~same /\ toggle.tries + 1 # toggleAttempts
    <3>1. toggle' = [toggle EXCEPT !.at = "read", !.tries = toggle.tries + 1] /\ UNCHANGED fileLock
      BY <1>8, <2>4 DEF ToggleCheck
    <3>2. toggle.tries + 1 < toggleAttempts /\ toggle.tries + 1 \in 0..toggleAttempts
      BY <1>1, <2>4
    <3>3. /\ toggle' \in ToggleRecord /\ toggle'.at = "read" /\ toggle'.way = toggle.way /\ toggle'.tries < toggleAttempts
      BY <1>1, <3>1, <3>2 DEF ToggleRecord
    <3>4. ToggleFiles' = ToggleFiles
      BY <3>3 DEF ToggleFiles
    <3>5. ToggleOK'
      BY <1>0, <2>1, <3>1, <3>3, <3>4 DEF ToggleOK, Holding, Before
    <3> QED BY <1>1, <2>1, <3>1, <3>3, <3>5, OneToggle
  <2> QED BY <2>2, <2>3, <2>4
<1> QED BY <1>3, <1>4, <1>5, <1>6, <1>7, <1>8

\* The state file is written: what was copied or merged is what the clients read from now on.
LEMMA ConfigCommit ==
  ASSUME ConfigInv, ToggleCommit PROVE ConfigInv'
<1>0. ConfigTypeOK /\ TriesOK /\ WritersOK /\ ToggleOK /\ ReadOK /\ StaleIsTold
  BY DEF ConfigInv
<1> DEFINE next == IF toggle.way = "split" THEN "announce" ELSE "aside"
<1>1. /\ toggle.at = "commit" /\ split' = (toggle.way = "split") /\ ToggleTo(next)
      /\ Untouched /\ UNCHANGED <<writer, view, want, budget, fileLock, backups>>
  BY DEF ToggleCommit, OnlyToggle
<1>2. /\ toggle' \in ToggleRecord /\ toggle'.at = next /\ toggle'.way = toggle.way /\ toggle'.read = toggle.read
      /\ toggle'.tries < toggleAttempts /\ ToggleFiles' = ToggleFiles
  BY <1>1, ToggleToIs
<1>3. UNCHANGED <<there, contents, newest, settling>> /\ \A g : Found(g)' = Found(g)
  BY <1>1, UntouchedIs DEF Untouched
<1>4. split' \in BOOLEAN /\ toggle.way \in {"split", "unsplit"}
  BY <1>0, <1>1, ToggleFilesAre
<1>5. ConfigTypeOK'
  BY <1>0, <1>1, <1>2, <1>3, <1>4 DEF ConfigTypeOK, ToggleRecord
<1>6. TriesOK'
  BY <1>0, <1>1, <1>2 DEF TriesOK
<1>7. \A c \in ConfigClients : writer[c].at \notin {"write", "rename"}
  BY <1>1, NoneRenames DEF Holding, Before
<1>8. WritersOK'
  BY <1>0, <1>1, <1>7 DEF WritersOK, JobOK
<1>9. ToggleOK'
  BY <1>0, <1>1, <1>2, <1>4 DEF ToggleOK, Holding, Before
<1>10. ReadOK'
  <2>1. CASE toggle.way = "split"
    <3>1. ~split /\ split'
      BY <1>0, <1>1, <2>1 DEF ToggleOK, Before
    <3>2. \A d \in ConfigClients : PathFor(d) = "shared" /\ PathFor(d)' = d
      BY <3>1 DEF PathFor
    <3>3. \A d \in ConfigClients : d \in there /\ Found(d)[d] = toggle.read["shared"][d] /\ toggle.read["shared"][d] = Found("shared")[d]
      BY <1>0, <1>1, <2>1 DEF ToggleOK
    <3>4. ASSUME NEW d \in ConfigClients PROVE Found(PathFor(d))'[d] = want'[d]
      <4>1. Found(PathFor(d))' = Found(d)
        BY <1>3, <3>2 DEF Found
      <4>2. Found("shared")[d] = want[d]
        BY <1>0, <3>2 DEF ReadOK, SetIsRead
      <4> QED BY <1>1, <3>3, <4>1, <4>2
    <3> QED BY <1>3, <3>3, <3>4 DEF ReadOK, SetIsRead
  <2>2. CASE toggle.way = "unsplit"
    <3>1. split /\ ~split'
      BY <1>0, <1>1, <2>2 DEF ToggleOK, Before
    <3>2. \A d \in ConfigClients : PathFor(d) = d /\ PathFor(d)' = "shared"
      BY <3>1 DEF PathFor
    <3>3. \A d \in ConfigClients : toggle.read[d][d] = Found(d)[d] /\ Found("shared")[d] = toggle.read[d][d]
      BY <1>0, <1>1, <2>2 DEF ToggleOK
    <3>4. ASSUME NEW d \in ConfigClients PROVE Found(PathFor(d))'[d] = want'[d]
      <4>1. Found(PathFor(d))' = Found("shared")
        BY <1>3, <3>2 DEF Found
      <4>2. Found(d)[d] = want[d]
        BY <1>0, <3>2 DEF ReadOK, SetIsRead
      <4> QED BY <1>1, <3>3, <4>1, <4>2
    <3> QED BY <1>3, <3>1, <3>4 DEF ReadOK, SetIsRead
  <2> QED BY <1>4, <2>1, <2>2
<1>11. StaleIsTold'
  BY <1>2 DEF StaleIsTold
<1> QED BY <1>5, <1>6, <1>8, <1>9, <1>10, <1>11 DEF ConfigInv

\* A toggle writes a file that no client reads yet and no command is about to write.
LEMMA ToggleWrites ==
  ASSUME ConfigInv, NEW f \in Files, NEW data \in Contents, Replace(f, data), Holding, Before,
         \A c \in ConfigClients : PathFor(c) # f,
         toggle' \in ToggleRecord, toggle'.tries < toggleAttempts, ToggleOK',
         backups' \in [Files -> 0 .. maxBackups], OnlyToggle, UNCHANGED <<split, fileLock>>
  PROVE  ConfigInv'
<1>0. ConfigTypeOK /\ TriesOK /\ WritersOK /\ ToggleOK /\ ReadOK /\ StaleIsTold
  BY DEF ConfigInv
<1>1. /\ Found(f)' = data /\ (\A g \in Files : g # f => Found(g)' = Found(g))
      /\ there' = there \cup {f} /\ there' \subseteq Files /\ settling' = TRUE
      /\ contents' \in [Files -> Contents] /\ newest' \in ConfigClients
  BY <1>0, ReplaceIs
<1>2. UNCHANGED <<writer, view, want, budget>>
  BY DEF OnlyToggle
<1>3. settling' \in BOOLEAN
  BY <1>1, Zenon
<1>4. ConfigTypeOK'
  BY <1>0, <1>1, <1>2, <1>3 DEF ConfigTypeOK, ToggleRecord
<1>5. TriesOK'
  BY <1>0, <1>2 DEF TriesOK
<1>6. WritersOK'
  <2>1. \A c \in ConfigClients : writer[c].at \notin {"write", "rename"}
    BY NoneRenames
  <2> QED BY <1>0, <1>2, <2>1 DEF WritersOK, JobOK
<1>7. SetIsRead'
  <2> SUFFICES ASSUME NEW d \in ConfigClients PROVE Found(PathFor(d))'[d] = want'[d]
    BY DEF SetIsRead
  <2>1. PathFor(d)' = PathFor(d) /\ PathFor(d) \in Files /\ PathFor(d) # f /\ Found(PathFor(d))[d] = want[d]
    BY <1>0, ConfigTypes DEF PathFor, ReadOK, SetIsRead
  <2>2. Found(PathFor(d))' = Found(PathFor(d))
    BY <1>1, <2>1 DEF Found
  <2> QED BY <1>2, <2>1, <2>2
<1>8. ReadOK' /\ StaleIsTold'
  BY <1>0, <1>1, <1>7 DEF ReadOK, StaleIsTold
<1> QED BY <1>4, <1>5, <1>6, <1>8 DEF ConfigInv

\* One client's copy: refused where the file is somebody's.
LEMMA ConfigSplitCopy ==
  ASSUME ConfigInv, NEW c \in ConfigClients, SplitCopy(c) PROVE ConfigInv'
<1>0. ConfigTypeOK /\ TriesOK /\ WritersOK /\ ToggleOK /\ ReadOK /\ StaleIsTold
  BY DEF ConfigInv
<1> DEFINE next == IF c = "tui" THEN "gui" ELSE "check"
           foreign == c \in there /\ c \notin toggle.ours
           copied == toggle.read["shared"]
<1>1. /\ toggle.at = c /\ OnlyToggle /\ UNCHANGED <<split, backups, writer, view, want, budget>>
  BY DEF SplitCopy, OnlyToggle
<1>2. c \in {"tui", "gui"} /\ toggle.way = "split" /\ Holding /\ Before /\ ~split /\ c \in Files /\ c # "shared"
      /\ split = (toggle.way = "unsplit")
  BY <1>0, <1>1, ConfigTypes DEF ToggleOK, Holding, Before, ConfigClients
<1>3. /\ toggle \in ToggleRecord /\ toggle.tries < toggleAttempts /\ copied \in Contents
      /\ fileLock \in [Files -> {"free", "tui", "gui", "toggle"}]
      /\ budget \in [sets : 0 .. MaxSets, saves : 0 .. MaxSaves, toggles : 0 .. MaxToggles]
  BY <1>0, ConfigTypes, ToggleFilesAre, BudgetGoesDown DEF TriesOK, ToggleRecord
<1>4. /\ \A d \in ConfigClients : copied[d] = Found("shared")[d]
      /\ c = "gui" => ("tui" \in there /\ Found("tui")["tui"] = copied["tui"])
      /\ \A f \in ToggleFiles : fileLock[f] = "toggle"
  BY <1>0, <1>1, <1>2 DEF ToggleOK, Holding, ConfigClients
<1>5. CASE foreign /\ contents[c] # copied
  <2>1. GiveUp /\ Untouched
    BY <1>5 DEF SplitCopy
  <2> QED BY <1>0, <1>1, <1>2, <1>3, <2>1, GiveUpIs, OneToggle
<1>6. CASE foreign /\ contents[c] = copied
  <2>1. ToggleTo(next) /\ Untouched /\ UNCHANGED fileLock
    BY <1>6 DEF SplitCopy
  <2>2. /\ toggle' \in ToggleRecord /\ toggle'.at = next /\ toggle'.way = toggle.way /\ toggle'.read = toggle.read
        /\ toggle'.tries < toggleAttempts /\ ToggleFiles' = ToggleFiles
    BY <2>1, ToggleToIs
  <2>3. UNCHANGED there /\ \A g : Found(g)' = Found(g)
    BY <2>1, UntouchedIs DEF Untouched
  <2>4. c \in there /\ Found(c) = copied
    BY <1>6 DEF Found
  <2>5. \A d \in ConfigClients : (d = "tui" \/ next # "gui") => d \in there /\ Found(d)[d] = copied[d]
    BY <1>2, <1>4, <2>4 DEF ConfigClients
  <2>6. next \in {"gui", "check"}
    OBVIOUS
  <2> HIDE DEF next
  <2>7. ToggleOK'
    BY <1>1, <1>2, <1>4, <2>1, <2>2, <2>3, <2>5, <2>6 DEF ToggleOK, Holding, Before
  <2> QED BY <1>1, <1>2, <1>3, <2>1, <2>2, <2>7, OneToggle
<1>7. CASE ~foreign
  <2>1. Replace(c, copied) /\ toggle' = [toggle EXCEPT !.at = next, !.ours = toggle.ours \cup {c}] /\ UNCHANGED fileLock
    BY <1>7 DEF SplitCopy
  <2>2. /\ toggle' \in ToggleRecord /\ toggle'.at = next /\ toggle'.way = toggle.way /\ toggle'.read = toggle.read
        /\ toggle'.tries = toggle.tries
    BY <1>3, <2>1 DEF ToggleRecord
  <2>3. ToggleFiles' = ToggleFiles
    BY <2>2 DEF ToggleFiles
  <2>4. Found(c)' = copied /\ (\A g \in Files : g # c => Found(g)' = Found(g)) /\ there' = there \cup {c}
    BY <1>0, <1>2, <1>3, <2>1, ReplaceIs
  <2>5. \A d \in ConfigClients : (d = "tui" \/ next # "gui") => d \in there' /\ Found(d)'[d] = copied[d]
    BY <1>2, <1>4, <2>4, ConfigTypes DEF ConfigClients, Files, Sections
  <2>6. next \in {"gui", "check"} /\ Found("shared")' = Found("shared")
    BY <1>0, <1>2, <2>4, ToggleFilesAre
  <2> HIDE DEF next
  <2>7. ToggleOK'
    BY <1>1, <1>2, <1>4, <2>1, <2>2, <2>3, <2>5, <2>6 DEF ToggleOK, Holding, Before
  <2>8. \A d \in ConfigClients : PathFor(d) # c
    BY <1>2 DEF PathFor
  <2>9. backups' \in [Files -> 0 .. maxBackups]
    BY <1>0, <1>1 DEF ConfigTypeOK
  <2> QED BY <1>1, <1>2, <1>3, <2>1, <2>2, <2>7, <2>8, <2>9, ToggleWrites
<1> QED BY <1>5, <1>6, <1>7

\* The merge takes each client's section from its own file.
LEMMA ConfigUnsplitWrite ==
  ASSUME ConfigInv, UnsplitWrite PROVE ConfigInv'
<1>0. ConfigTypeOK /\ TriesOK /\ WritersOK /\ ToggleOK /\ ReadOK /\ StaleIsTold
  BY DEF ConfigInv
<1> DEFINE merged == MergeClients(toggle.read, Base)
<1>1. /\ toggle.at = "merge" /\ OnlyToggle /\ UNCHANGED <<split, fileLock, writer, view, want, budget>>
      /\ Replace("shared", merged) /\ ToggleTo("check")
  BY DEF UnsplitWrite, OnlyToggle
<1>2. toggle.way = "unsplit" /\ Holding /\ Before /\ split /\ "shared" \in Files
  BY <1>0, <1>1, ToggleFilesAre DEF ToggleOK, Holding, Before
<1>3. Base \in ConfigClients /\ \A c \in ConfigClients : Other(c) \in ConfigClients
  <2>1. \A c \in ConfigClients : \E d \in ConfigClients : d # c
    BY DEF ConfigClients
  <2>2. newest \in ConfigClients
    BY <1>0 DEF ConfigTypeOK
  <2> QED BY <2>1, <2>2 DEF Base, Other
<1>4. toggle.read \in [Files -> [Sections -> Settings]] /\ ConfigClients \subseteq Files /\ Files = Sections /\ "shared" \in Sections
  BY <1>0, ConfigTypes DEF ToggleRecord, Contents, Files, Sections
<1>5. merged \in Contents /\ \A d \in ConfigClients : merged[d] = toggle.read[d][d]
  <2>1. toggle.read[Base]["shared"] \in Settings /\ toggle.read[Other(Base)]["shared"] \in Settings
    BY <1>3, <1>4
  <2>2. \A s \in ConfigClients : toggle.read[s][s] \in Settings
    BY <1>4
  <2> QED BY <1>4, <2>1, <2>2 DEF MergeClients, Contents
<1> HIDE DEF merged
<1>6. Found("shared")' = merged /\ (\A g \in Files : g # "shared" => Found(g)' = Found(g)) /\ there' = there \cup {"shared"}
  BY <1>0, <1>1, <1>2, <1>5, ReplaceIs
<1>7. /\ toggle' \in ToggleRecord /\ toggle'.at = "check" /\ toggle'.way = toggle.way /\ toggle'.read = toggle.read
      /\ toggle'.tries < toggleAttempts /\ ToggleFiles' = ToggleFiles
  BY <1>1, ToggleToIs
<1>8. backups' \in [Files -> 0 .. maxBackups] /\ \A c \in ConfigClients : backups'[c] = backups[c]
  <2>1. backups \in [Files -> 0 .. maxBackups] /\ maxBackups \in Nat
    BY <1>0, ConfigConstants DEF ConfigTypeOK
  <2>2. PICK n : backups' = [backups EXCEPT !["shared"] = n] /\ n \in {backups["shared"], backups["shared"] + 1}
                 /\ (n = backups["shared"] \/ backups["shared"] < maxBackups)
    BY DEF UnsplitWrite
  <2>3. n \in 0 .. maxBackups
    BY <1>2, <2>1, <2>2
  <2> QED BY <1>0, <1>2, <2>1, <2>2, <2>3, ConfigTypes
<1>9. ToggleOK'
  <2>1. \A d \in ConfigClients : Found(d)' = Found(d) /\ Found("shared")'[d] = toggle.read[d][d]
    BY <1>0, <1>5, <1>6, ConfigTypes
  <2> QED BY <1>0, <1>1, <1>2, <1>7, <1>8, <2>1 DEF ToggleOK, Holding, Before
<1>10. \A d \in ConfigClients : PathFor(d) # "shared"
  BY <1>0, <1>2, ConfigTypes DEF PathFor
<1> QED BY <1>1, <1>2, <1>5, <1>7, <1>8, <1>9, <1>10, ToggleWrites

\* The clients' files are moved aside; nobody reads them any more.
LEMMA ConfigSetAside ==
  ASSUME ConfigInv, SetAside PROVE ConfigInv'
<1>0. ConfigTypeOK /\ TriesOK /\ WritersOK /\ ToggleOK /\ ReadOK /\ StaleIsTold
  BY DEF ConfigInv
<1>1. /\ toggle.at = "aside" /\ ToggleTo("announce") /\ UNCHANGED <<contents, newest, split, fileLock, writer, view, want, budget>>
  BY DEF SetAside, OnlyToggle
<1>2. PICK moved \in SUBSET (there \cap ConfigClients) :
        /\ there' = there \ moved
        /\ backups' = [f \in Files |-> IF f \in moved THEN backups[f] + 1 ELSE backups[f]]
        /\ settling' = (settling \/ moved \cap Watched # {})
  BY DEF SetAside
<1>3. ~split /\ toggle.way = "unsplit" /\ \A c \in ConfigClients : backups[c] < maxBackups
  BY <1>0, <1>1 DEF ToggleOK
<1>4. /\ toggle' \in ToggleRecord /\ toggle'.at = "announce" /\ toggle'.way = toggle.way /\ toggle'.read = toggle.read
      /\ toggle'.tries < toggleAttempts /\ ToggleFiles' = ToggleFiles
  BY <1>1, ToggleToIs
<1>5. backups' \in [Files -> 0 .. maxBackups]
  <2>1. backups \in [Files -> 0 .. maxBackups] /\ maxBackups \in Nat
    BY <1>0, ConfigConstants DEF ConfigTypeOK
  <2>2. \A f \in Files : (IF f \in moved THEN backups[f] + 1 ELSE backups[f]) \in 0 .. maxBackups
    BY <1>2, <1>3, <2>1
  <2> QED BY <1>2, <2>2
<1>6. settling' \in BOOLEAN
  BY <1>2
<1>7. ConfigTypeOK'
  BY <1>0, <1>1, <1>2, <1>4, <1>5, <1>6 DEF ConfigTypeOK, ToggleRecord
<1>8. TriesOK'
  BY <1>0, <1>1, <1>4 DEF TriesOK
<1>9. Found("shared")' = Found("shared") /\ \A d \in ConfigClients : PathFor(d) = "shared" /\ PathFor(d)' = "shared"
  <2>1. "shared" \notin moved
    BY <1>0, ToggleFilesAre
  <2> QED BY <1>1, <1>2, <1>3, <2>1 DEF Found, PathFor
<1>10. WritersOK'
  <2> SUFFICES ASSUME NEW d \in ConfigClients PROVE JobOK(d, writer[d])'
    BY DEF WritersOK
  <2>1. JobOK(d, writer[d]) /\ writer'[d] = writer[d]
    BY <1>0, <1>1 DEF WritersOK
  <2>2. writer[d].at \in {"write", "rename"} => writer[d].path = "shared" /\ Found(writer[d].path)' = Found(writer[d].path)
    BY <1>9, <2>1 DEF JobOK, Found
  <2> QED BY <1>1, <1>9, <2>1, <2>2 DEF JobOK
<1>11. ToggleOK'
  BY <1>0, <1>1, <1>4 DEF ToggleOK, Holding, Before
<1>12. ASSUME NEW d \in ConfigClients PROVE Found(PathFor(d))'[d] = want'[d]
  <2>1. Found(PathFor(d))' = Found(PathFor(d))
    BY <1>9 DEF Found
  <2> QED BY <1>0, <1>1, <2>1 DEF ReadOK, SetIsRead
<1>13. ReadOK' /\ StaleIsTold'
  BY <1>1, <1>3, <1>4, <1>12 DEF ReadOK, SetIsRead, StaleIsTold
<1> QED BY <1>7, <1>8, <1>10, <1>11, <1>13 DEF ConfigInv

\* The steps after which every client has read its settings again.
LEMMA ConfigReread ==
  ASSUME ConfigInv, Announce \/ DaemonDies \/ WatchSettles PROVE ConfigInv'
<1>0. ConfigTypeOK /\ TriesOK /\ WritersOK /\ ToggleOK /\ ReadOK /\ StaleIsTold
  BY DEF ConfigInv
<1>1. /\ UNCHANGED <<there, contents, newest, split, writer, backups, want, budget>> /\ Reread
      /\ GiveUp \/ UNCHANGED <<toggle, fileLock>>
  BY DEF Announce, DaemonDies, WatchSettles, Untouched
<1>2. settling' \in BOOLEAN
  <2>1. settling' = settling \/ settling' = FALSE
    BY DEF Announce, DaemonDies, WatchSettles, Untouched
  <2>2. settling \in BOOLEAN
    BY <1>0 DEF ConfigTypeOK
  <2> QED BY <2>1, <2>2, Zenon
<1>3. \A c \in ConfigClients : view'[c] = ReadFor(c)' /\ view'[c] \in [{"shared", c} -> Settings]
  BY <1>0, <1>1, RereadIs
<1>4. /\ toggle' \in ToggleRecord /\ toggle'.tries < toggleAttempts /\ ToggleOK'
      /\ fileLock' \in [Files -> {"free", "tui", "gui", "toggle"}]
      /\ \A f \in Files : fileLock'[f] # fileLock[f] => fileLock[f] \in {"free", "toggle"}
  <2>1. CASE GiveUp
    BY <1>0, <2>1, GiveUpIs
  <2>2. CASE UNCHANGED <<toggle, fileLock>>
    <3>1. ToggleOK'
      BY <1>0, <1>1, <2>2 DEF ToggleOK, Holding, Before, ToggleFiles, Found
    <3> QED BY <1>0, <2>2, <3>1, ConfigTypes DEF TriesOK
  <2> QED BY <1>1, <2>1, <2>2
<1>5. ConfigTypeOK'
  BY <1>0, <1>1, <1>2, <1>3, <1>4 DEF ConfigTypeOK, ToggleRecord
<1>6. TriesOK'
  BY <1>0, <1>1, <1>4 DEF TriesOK
<1>7. WritersOK'
  <2> SUFFICES ASSUME NEW d \in ConfigClients PROVE JobOK(d, writer[d])'
    BY DEF WritersOK
  <2>1. JobOK(d, writer[d]) /\ writer'[d] = writer[d] /\ writer[d].path \in Files
    BY <1>0, <1>1, ConfigTypes DEF WritersOK
  <2>2. fileLock[writer[d].path] = d => fileLock'[writer[d].path] = d
    BY <1>4, <2>1 DEF ConfigClients
  <2>3. PathFor(d)' = PathFor(d) /\ Found(writer[d].path)' = Found(writer[d].path)
    BY <1>1 DEF PathFor, Found
  <2> QED BY <2>1, <2>2, <2>3 DEF JobOK
<1>8. ReadOK' /\ StaleIsTold'
  BY <1>0, <1>1, <1>3 DEF ReadOK, SetIsRead, StaleIsTold, Found, PathFor
<1> QED BY <1>4, <1>5, <1>6, <1>7, <1>8 DEF ConfigInv

\* Every step of this part keeps its invariant.
LEMMA ConfigStepInv == ConfigInv /\ ConfigNext => ConfigInv'
<1> SUFFICES ASSUME ConfigInv, ConfigNext PROVE ConfigInv'
  OBVIOUS
<1>1. CASE WriterNext
  BY <1>1, ConfigCommand, ConfigRename DEF WriterNext
<1>2. CASE ToggleNext
  BY <1>2, ConfigToggleQuiet, ConfigCommit, ConfigSplitCopy, ConfigUnsplitWrite, ConfigSetAside, ConfigReread DEF ToggleNext
<1> QED BY <1>1, <1>2, ConfigReread, ConfigEditor DEF ConfigNext

\* A step of another part leaves it.
LEMMA ConfigStutterInv == ConfigInv /\ UNCHANGED configVars => ConfigInv'
<1> SUFFICES ASSUME ConfigInv, UNCHANGED configVars PROVE ConfigInv'
  OBVIOUS
<1>0. ConfigTypeOK /\ TriesOK /\ WritersOK /\ ToggleOK /\ ReadOK /\ StaleIsTold
  BY DEF ConfigInv
<1>1. UNCHANGED <<there, contents, newest, split, fileLock, writer, toggle, backups, settling, view, want, budget>>
  BY DEF configVars
<1>2. ConfigTypeOK' /\ TriesOK'
  BY <1>0, <1>1 DEF ConfigTypeOK, TriesOK
<1>3. WritersOK'
  BY <1>0, <1>1 DEF WritersOK, JobOK, PathFor, Found, EditedBy
<1>4. ToggleOK'
  BY <1>0, <1>1 DEF ToggleOK, Holding, Before, ToggleFiles, Found
<1>5. ReadOK' /\ StaleIsTold'
  BY <1>0, <1>1 DEF ReadOK, SetIsRead, StaleIsTold, ReadFor, Found, PathFor
<1> QED BY <1>2, <1>3, <1>4, <1>5 DEF ConfigInv

\* What the invariant is for.
LEMMA ConfigSafe == ConfigInv => ConfigTypeOK /\ SetIsRead /\ StaleIsTold
BY DEF ConfigInv, ReadOK

-----------------------------------------------------------------------------
\* The message cache.

\* A function's values side by side, as the sum counts them.
Laid(f) == UNION {{x} \X (1..f[x]) : x \in DOMAIN f}

\* A pair is laid when its key is in the domain and its number within the value.
LEMMA LaidIs ==
  ASSUME NEW f PROVE \A p : p \in Laid(f) <=> \E x \in DOMAIN f : \E k \in 1..f[x] : p = <<x, k>>
BY DEF Laid

\* Finitely many of them are finite.
LEMMA LaidFinite ==
  ASSUME NEW D, IsFiniteSet(D), NEW f \in [D -> Nat] PROVE IsFiniteSet(Laid(f))
<1> DEFINE g == [x \in D |-> {x} \X (1..f[x])]
           T == {g[x] : x \in D}
<1>1. g \in Surjection(D, T)
  <2>1. g \in [D -> T]
    OBVIOUS
  <2>2. \A t \in T : \E x \in D : g[x] = t
    OBVIOUS
  <2> HIDE DEF g, T
  <2> QED BY <2>1, <2>2 DEF Surjection
<1>2. IsFiniteSet(T)
  <2> HIDE DEF g, T
  <2> QED BY <1>1, FS_Surjection DEF ExistsSurjection
<1>3. \A t \in T : IsFiniteSet(t)
  <2> SUFFICES ASSUME NEW x \in D PROVE IsFiniteSet({x} \X (1..f[x]))
    OBVIOUS
  <2>1. IsFiniteSet({x}) /\ IsFiniteSet(1..f[x])
    <3>1. 1 \in Int /\ f[x] \in Int
      OBVIOUS
    <3>2. IsFiniteSet(1..f[x])
      BY <3>1, FS_Interval
    <3> QED BY <3>2, FS_Singleton
  <2> QED BY <2>1, FS_Product
<1>4. IsFiniteSet(UNION T)
  <2> HIDE DEF T
  <2> QED BY <1>2, <1>3, FS_UNION
<1>5. Laid(f) = UNION T
  BY DEF Laid
<1> QED BY <1>4, <1>5

\* One key's own are as many as its value.
LEMMA OneLaid ==
  ASSUME NEW x, NEW n \in Nat PROVE IsFiniteSet({x} \X (1..n)) /\ Cardinality({x} \X (1..n)) = n
<1>1. IsFiniteSet({x}) /\ Cardinality({x}) = 1
  BY FS_Singleton
<1>2. IsFiniteSet(1..n) /\ Cardinality(1..n) = n
  <2>1. IsFiniteSet(1..n) /\ Cardinality(1..n) = IF 1 > n THEN 0 ELSE n - 1 + 1
    BY FS_Interval
  <2> QED BY <2>1
<1>3. IsFiniteSet({x} \X (1..n)) /\ Cardinality({x} \X (1..n)) = Cardinality({x}) * Cardinality(1..n)
  BY <1>1, <1>2, FS_Product
<1> QED BY <1>1, <1>2, <1>3

\* Nothing sums to nothing.
LEMMA SumOfNone == ASSUME NEW f, DOMAIN f = {} PROVE SumOf(f) = 0
<1>1. Laid(f) = {}
  BY DEF Laid
<1> QED BY <1>1, FS_EmptySet DEF SumOf, Laid

\* A sum is its parts: one value and the rest.
LEMMA SumOfParts ==
  ASSUME NEW D, IsFiniteSet(D), NEW f \in [D -> Nat], NEW x \in D
  PROVE  SumOf(f) = SumOf(Without(f, x)) + f[x] /\ SumOf(Without(f, x)) \in Nat /\ SumOf(f) \in Nat
<1> DEFINE r == Without(f, x)
           X == {x} \X (1..f[x])
<1>0. IsFiniteSet(D \ {x})
  BY FS_RemoveElement
<1>1. r \in [D \ {x} -> Nat] /\ IsFiniteSet(D \ {x})
  BY <1>0 DEF Without
<1>2. DOMAIN r = D \ {x} /\ \A y \in D \ {x} : r[y] = f[y]
  BY DEF Without
<1> HIDE DEF r
<1>3. IsFiniteSet(Laid(r)) /\ IsFiniteSet(X) /\ Cardinality(X) = f[x]
  BY <1>1, LaidFinite, OneLaid
<1>4. Laid(f) = Laid(r) \cup X
  <2>1. \A p : p \in Laid(f) <=> \E y \in D : \E k \in 1..f[y] : p = <<y, k>>
    BY LaidIs
  <2>2. \A p : p \in Laid(r) <=> \E y \in D \ {x} : \E k \in 1..f[y] : p = <<y, k>>
    BY <1>2, LaidIs
  <2>3. \A p : p \in X <=> \E k \in 1..f[x] : p = <<x, k>>
    OBVIOUS
  <2> HIDE DEF X
  <2> QED BY <2>1, <2>2, <2>3
<1>5. Laid(r) \cap X = {}
  <2>2. \A p : p \in Laid(r) <=> \E y \in D \ {x} : \E k \in 1..f[y] : p = <<y, k>>
    BY <1>2, LaidIs
  <2>3. \A p \in X : p[1] = x
    OBVIOUS
  <2> HIDE DEF X
  <2> QED BY <2>2, <2>3
<1> HIDE DEF X
<1>6. Cardinality(Laid(r) \cup X) = Cardinality(Laid(r)) + Cardinality(X) - Cardinality({})
  BY <1>3, <1>5, FS_Union
<1>7. Cardinality({}) = 0 /\ Cardinality(Laid(r)) \in Nat /\ f[x] \in Nat
  BY <1>3, FS_EmptySet, FS_CardinalityType
<1>8. SumOf(f) = Cardinality(Laid(f)) /\ SumOf(r) = Cardinality(Laid(r))
  BY DEF SumOf, Laid
<1>9. SumOf(f) = SumOf(r) + f[x] /\ SumOf(r) \in Nat /\ SumOf(f) \in Nat
  BY <1>3, <1>4, <1>6, <1>7, <1>8
<1> QED BY <1>9 DEF r

\* A sum is a number.
LEMMA SumOfType ==
  ASSUME NEW D, IsFiniteSet(D), NEW f \in [D -> Nat] PROVE SumOf(f) \in Nat
<1>1. IsFiniteSet(Laid(f))
  BY LaidFinite
<1> QED BY <1>1, FS_CardinalityType DEF SumOf, Laid

\* Summing under other keys changes nothing.
LEMMA SumOfMoved ==
  ASSUME NEW D, IsFiniteSet(D), NEW f \in [D -> Nat], NEW E, NEW g \in [E -> Nat],
         NEW h \in Bijection(D, E), \A x \in D : g[h[x]] = f[x]
  PROVE  SumOf(f) = SumOf(g)
<1>0. /\ h \in [D -> E] /\ (\A x, y \in D : h[x] = h[y] => x = y) /\ (\A z \in E : \E x \in D : h[x] = z)
  BY DEF Bijection, Injection, Surjection, IsInjective
<1> DEFINE m == [p \in Laid(f) |-> <<h[p[1]], p[2]>>]
<1>1. \A p : p \in Laid(f) <=> \E x \in D : \E k \in 1..f[x] : p = <<x, k>>
  BY LaidIs
<1>2. \A p : p \in Laid(g) <=> \E x \in E : \E k \in 1..g[x] : p = <<x, k>>
  BY LaidIs
<1>3. m \in [Laid(f) -> Laid(g)]
  <2> SUFFICES ASSUME NEW p \in Laid(f) PROVE <<h[p[1]], p[2]>> \in Laid(g)
    OBVIOUS
  <2>1a. PICK x \in D : \E j \in 1..f[x] : p = <<x, j>>
    BY <1>1
  <2>1. PICK k \in 1..f[x] : p = <<x, k>>
    BY <2>1a
  <2>2. h[x] \in E /\ k \in 1..g[h[x]] /\ <<h[p[1]], p[2]>> = <<h[x], k>>
    BY <1>0, <2>1
  <2> QED BY <1>2, <2>2
<1>4. \A p, q \in Laid(f) : m[p] = m[q] => p = q
  <2> SUFFICES ASSUME NEW p \in Laid(f), NEW q \in Laid(f), m[p] = m[q] PROVE p = q
    OBVIOUS
  <2>1a. PICK x \in D : \E j \in 1..f[x] : p = <<x, j>>
    BY <1>1
  <2>1. PICK k \in 1..f[x] : p = <<x, k>>
    BY <2>1a
  <2>2a. PICK y \in D : \E j \in 1..f[y] : q = <<y, j>>
    BY <1>1
  <2>2. PICK l \in 1..f[y] : q = <<y, l>>
    BY <2>2a
  <2>3. h[x] = h[y] /\ k = l
    BY <2>1, <2>2
  <2> QED BY <1>0, <2>1, <2>2, <2>3
<1>5. \A q \in Laid(g) : \E p \in Laid(f) : m[p] = q
  <2> SUFFICES ASSUME NEW q \in Laid(g) PROVE \E p \in Laid(f) : m[p] = q
    OBVIOUS
  <2>1a. PICK z \in E : \E j \in 1..g[z] : q = <<z, j>>
    BY <1>2
  <2>1. PICK k \in 1..g[z] : q = <<z, k>>
    BY <2>1a
  <2>2. PICK x \in D : h[x] = z
    BY <1>0
  <2>3. <<x, k>> \in Laid(f) /\ m[<<x, k>>] = q
    BY <1>1, <2>1, <2>2
  <2> QED BY <2>3
<1> HIDE DEF m
<1>6. ExistsBijection(Laid(f), Laid(g))
  BY <1>3, <1>4, <1>5 DEF ExistsBijection, Bijection, Injection, Surjection, IsInjective
<1>7. IsFiniteSet(Laid(f))
  BY LaidFinite
<1>8. Cardinality(Laid(f)) = Cardinality(Laid(g))
  BY <1>6, <1>7, FS_Bijection
<1> QED BY <1>8 DEF SumOf, Laid

\* The sizes of a buffer's messages.
SizesOf(q) == [i \in DOMAIN q |-> q[i].size]

\* They are numbers.
LEMMA SizesAre ==
  ASSUME NEW q \in Seq(Entry)
  PROVE  /\ DOMAIN q = 1..Len(q) /\ Len(q) \in Nat /\ IsFiniteSet(1..Len(q)) /\ SizesOf(q) \in [1..Len(q) -> Nat]
         /\ SizeOf(q) = SumOf(SizesOf(q)) /\ SizeOf(q) \in Nat
         /\ \A i \in 1..Len(q) : q[i] \in Entry /\ q[i].size \in Nat /\ SizesOf(q)[i] = q[i].size
<1>1. DOMAIN q = 1..Len(q) /\ Len(q) \in Nat /\ \A i \in 1..Len(q) : q[i] \in Entry
  OBVIOUS
<1>2. \A e \in Entry : e.size \in Nat
  BY CacheAssumption DEF Entry
<1>3. SizesOf(q) \in [1..Len(q) -> Nat] /\ \A i \in 1..Len(q) : SizesOf(q)[i] = q[i].size
  BY <1>1, <1>2 DEF SizesOf
<1>4. IsFiniteSet(1..Len(q))
  <2>1. 1 \in Int /\ Len(q) \in Int
    BY <1>1
  <2> QED BY <2>1, FS_Interval
<1>5. SizeOf(q) = SumOf(SizesOf(q))
  BY DEF SizeOf, SizesOf
<1> QED BY <1>1, <1>2, <1>3, <1>4, <1>5, SumOfType

\* What is left of a buffer when its i-th message is taken out.
TakenFrom(r, q, i) ==
  Len(r) = Len(q) - 1 /\ \A j \in 1..(Len(q) - 1) : r[j] = q[IF j < i THEN j ELSE j + 1]

\* The head goes, or any other.
LEMMA TailTaken ==
  ASSUME NEW S, NEW q \in Seq(S), q # <<>> PROVE Tail(q) \in Seq(S) /\ TakenFrom(Tail(q), q, 1)
<1>1. Tail(q) \in Seq(S) /\ Len(Tail(q)) = Len(q) - 1 /\ Len(q) \in Nat /\ Len(q) >= 1
  OBVIOUS
<1>2. \A j \in 1..(Len(q) - 1) : Tail(q)[j] = q[j + 1] /\ ~(j < 1)
  BY <1>1
<1> QED BY <1>1, <1>2 DEF TakenFrom

\* RemoveAt takes out the message it names.
LEMMA RemoveAtTaken ==
  ASSUME NEW S, NEW q \in Seq(S), NEW i \in 1..Len(q) PROVE RemoveAt(q, i) \in Seq(S) /\ TakenFrom(RemoveAt(q, i), q, i)
<1> DEFINE a == SubSeq(q, 1, i - 1)
           b == SubSeq(q, i + 1, Len(q))
<1>0. Len(q) \in Nat /\ i \in Nat /\ i >= 1 /\ i <= Len(q)
  OBVIOUS
<1>1. a \in Seq(S) /\ Len(a) = i - 1 /\ \A j \in 1..(i - 1) : a[j] = q[j]
  BY <1>0, SubSeqProperties
<1>2. b \in Seq(S) /\ Len(b) = Len(q) - i /\ \A j \in 1..(Len(q) - i) : b[j] = q[j + i]
  <2>1. CASE i = Len(q)
    <3>1. b = <<>>
      BY <1>0, <2>1, SubSeqEmpty
    <3> QED BY <1>0, <2>1, <3>1
  <2>2. CASE i < Len(q)
    <3>1. i + 1 \in 1..Len(q) + 1 /\ Len(q) \in i + 1 - 1 .. Len(q)
      BY <1>0, <2>2
    <3>2. b \in Seq(S) /\ Len(b) = Len(q) - (i + 1) + 1 /\ \A j \in 1..(Len(q) - (i + 1) + 1) : b[j] = q[(i + 1) + j - 1]
      BY <1>0, <2>2, <3>1, SubSeqProperties
    <3>3. Len(q) - (i + 1) + 1 = Len(q) - i /\ \A j \in Nat : (i + 1) + j - 1 = j + i
      BY <1>0
    <3>4. Len(b) = Len(q) - i /\ b \in Seq(S)
      BY <3>2, <3>3
    <3>5. ASSUME NEW j \in 1..(Len(q) - i) PROVE b[j] = q[j + i]
      <4>1. j \in 1..(Len(q) - (i + 1) + 1) /\ j \in Nat /\ (i + 1) + j - 1 = j + i
        BY <1>0
      <4> HIDE DEF b
      <4> QED BY <3>2, <4>1
    <3> HIDE DEF b
    <3> QED BY <3>4, <3>5
  <2> QED BY <1>0, <2>1, <2>2
<1>3. RemoveAt(q, i) = a \o b
  BY DEF RemoveAt
<1> HIDE DEF a, b
<1>4. a \o b \in Seq(S) /\ Len(a \o b) = Len(q) - 1
  <2>1. a \o b \in Seq(S) /\ Len(a \o b) = Len(a) + Len(b)
    BY <1>1, <1>2, ConcatProperties
  <2>2. Len(a) + Len(b) = Len(q) - 1
    BY <1>0, <1>1, <1>2
  <2> QED BY <2>1, <2>2
<1>5. ASSUME NEW j \in 1..(Len(q) - 1) PROVE (a \o b)[j] = q[IF j < i THEN j ELSE j + 1]
  <2>1. CASE j < i
    BY <1>0, <1>1, <1>2, <2>1
  <2>2. CASE ~(j < i)
    <3>1. j - (i - 1) \in 1..(Len(q) - i) /\ (j - (i - 1)) + i = j + 1
      BY <1>0, <2>2
    <3>2. (a \o b)[j] = b[j - (i - 1)]
      BY <1>0, <1>1, <1>2, <2>2
    <3>3. b[j - (i - 1)] = q[j + 1]
      BY <1>2, <3>1
    <3> QED BY <2>2, <3>2, <3>3
  <2> QED BY <2>1, <2>2
<1> QED BY <1>3, <1>4, <1>5 DEF TakenFrom

\* A message taken out takes its size.
LEMMA SizeTaken ==
  ASSUME NEW q \in Seq(Entry), NEW r \in Seq(Entry), NEW i \in 1..Len(q), TakenFrom(r, q, i)
  PROVE  SizeOf(q) = SizeOf(r) + q[i].size
<1> DEFINE D == (1..Len(q)) \ {i}
           E == 1..Len(r)
           f == Without(SizesOf(q), i)
           h == [x \in D |-> IF x < i THEN x ELSE x - 1]
<1>0. Len(q) \in Nat /\ i \in Nat /\ i >= 1 /\ i <= Len(q) /\ Len(r) = Len(q) - 1 /\ Len(r) \in Nat
  BY DEF TakenFrom
<1>1. /\ IsFiniteSet(1..Len(q)) /\ SizesOf(q) \in [1..Len(q) -> Nat] /\ SizeOf(q) = SumOf(SizesOf(q)) /\ SizesOf(q)[i] = q[i].size
      /\ \A j \in 1..Len(q) : SizesOf(q)[j] = q[j].size
  BY SizesAre
<1>2. /\ SizesOf(r) \in [E -> Nat] /\ SizeOf(r) = SumOf(SizesOf(r)) /\ \A j \in E : SizesOf(r)[j] = r[j].size
  BY SizesAre
<1>3. SumOf(SizesOf(q)) = SumOf(f) + q[i].size
  BY <1>1, SumOfParts
<1>4. h \in [D -> E]
  BY <1>0
<1>5. \A x, y \in D : h[x] = h[y] => x = y
  BY <1>0
<1>6. \A z \in E : \E x \in D : h[x] = z
  <2> SUFFICES ASSUME NEW z \in E PROVE \E x \in D : h[x] = z
    OBVIOUS
  <2>1. CASE z < i
    <3>1. z \in D /\ h[z] = z
      BY <1>0, <2>1
    <3> QED BY <3>1
  <2>2. CASE ~(z < i)
    <3>1. z + 1 \in D /\ h[z + 1] = z
      BY <1>0, <2>2
    <3> QED BY <3>1
  <2> QED BY <2>1, <2>2
<1>7. \A x \in D : SizesOf(r)[h[x]] = f[x]
  <2> SUFFICES ASSUME NEW x \in D PROVE SizesOf(r)[h[x]] = f[x]
    OBVIOUS
  <2>1. h[x] \in E /\ SizesOf(r)[h[x]] = r[h[x]].size
    BY <1>2, <1>4
  <2>2. h[x] \in 1..(Len(q) - 1) /\ (IF h[x] < i THEN h[x] ELSE h[x] + 1) = x
    BY <1>0
  <2>3. r[h[x]] = q[x]
    BY <2>2 DEF TakenFrom
  <2>4. f[x] = q[x].size
    BY <1>1 DEF Without
  <2> QED BY <2>1, <2>3, <2>4
<1>8a. IsFiniteSet(D)
  BY <1>1, FS_RemoveElement
<1>8. f \in [D -> Nat] /\ IsFiniteSet(D)
  BY <1>1, <1>8a DEF Without
<1> HIDE DEF D, E, f, h
<1>9. h \in Bijection(D, E)
  BY <1>4, <1>5, <1>6 DEF Bijection, Injection, Surjection, IsInjective
<1>10. SumOf(f) = SumOf(SizesOf(r))
  BY <1>2, <1>7, <1>8, <1>9, SumOfMoved
<1> QED BY <1>1, <1>2, <1>3, <1>10

\* A message appended adds its size.
LEMMA SizeAppended ==
  ASSUME NEW q \in Seq(Entry), NEW e \in Entry PROVE SizeOf(Append(q, e)) = SizeOf(q) + e.size
<1> DEFINE r == Append(q, e)
           n == Len(q) + 1
<1>1. r \in Seq(Entry) /\ Len(r) = n /\ Len(q) \in Nat /\ r[n] = e /\ n \in 1..n /\ \A j \in 1..Len(q) : r[j] = q[j]
  OBVIOUS
<1> HIDE DEF r
<1>2. /\ SizesOf(r) \in [1..n -> Nat] /\ SizeOf(r) = SumOf(SizesOf(r)) /\ SizesOf(r)[n] = e.size /\ IsFiniteSet(1..n)
      /\ \A j \in 1..n : SizesOf(r)[j] = r[j].size
  BY <1>1, SizesAre
<1>3. SumOf(SizesOf(r)) = SumOf(Without(SizesOf(r), n)) + e.size
  BY <1>1, <1>2, SumOfParts
<1>4. (1..n) \ {n} = 1..Len(q)
  BY <1>1
<1>5. SizesOf(q) \in [1..Len(q) -> Nat] /\ SizeOf(q) = SumOf(SizesOf(q)) /\ \A j \in 1..Len(q) : SizesOf(q)[j] = q[j].size
  BY SizesAre
<1>6. \A j \in 1..Len(q) : SizesOf(r)[j] = SizesOf(q)[j]
  BY <1>1, <1>2, <1>5
<1>7. Without(SizesOf(r), n) = SizesOf(q)
  BY <1>2, <1>4, <1>5, <1>6 DEF Without
<1> QED BY <1>2, <1>3, <1>4, <1>5, <1>7 DEF r

\* A message replaced brings its own size for the old one's.
LEMMA SizeReplaced ==
  ASSUME NEW q \in Seq(Entry), NEW e \in Entry, NEW i \in 1..Len(q)
  PROVE  SizeOf([q EXCEPT ![i] = e]) + q[i].size = SizeOf(q) + e.size
<1> DEFINE r == [q EXCEPT ![i] = e]
           D == 1..Len(q)
<1>1. r \in Seq(Entry) /\ Len(r) = Len(q) /\ r[i] = e /\ \A j \in D \ {i} : r[j] = q[j]
  BY ExceptSeq
<1> HIDE DEF r
<1>2. /\ SizesOf(r) \in [D -> Nat] /\ SizeOf(r) = SumOf(SizesOf(r)) /\ SizesOf(r)[i] = e.size
      /\ \A j \in D : SizesOf(r)[j] = r[j].size
  BY <1>1, SizesAre
<1>3. /\ SizesOf(q) \in [D -> Nat] /\ SizeOf(q) = SumOf(SizesOf(q)) /\ SizesOf(q)[i] = q[i].size /\ IsFiniteSet(D)
      /\ \A j \in D : SizesOf(q)[j] = q[j].size
  BY SizesAre
<1> HIDE DEF D
<1>4. i \in D
  BY DEF D
<1>5. Without(SizesOf(r), i) = Without(SizesOf(q), i)
  BY <1>1, <1>2, <1>3 DEF Without
<1>6. SumOf(SizesOf(r)) = SumOf(Without(SizesOf(q), i)) + e.size
  BY <1>2, <1>3, <1>4, <1>5, SumOfParts
<1>7. SumOf(SizesOf(q)) = SumOf(Without(SizesOf(q), i)) + q[i].size /\ SumOf(Without(SizesOf(q), i)) \in Nat
  BY <1>3, <1>4, SumOfParts
<1>8. e.size \in Nat /\ q[i].size \in Nat
  BY <1>2, <1>3, <1>4
<1>9. SizeOf(r) + q[i].size = SizeOf(q) + e.size
  BY <1>2, <1>3, <1>6, <1>7, <1>8
<1> QED BY <1>9 DEF r

\* What every buffer holds together.
Sums(b) == [ch \in DOMAIN b |-> SizeOf(b[ch])]

\* The cache's buffers, of any channels.
Buffers == UNION {[D -> Seq(Entry)] : D \in SUBSET CachedChannels}

\* The buffers are of finitely many channels and what they hold is a number.
LEMMA BuffersAre ==
  ASSUME NEW b \in Buffers
  PROVE  /\ DOMAIN b \subseteq CachedChannels /\ b \in [DOMAIN b -> Seq(Entry)] /\ IsFiniteSet(DOMAIN b)
         /\ Sums(b) \in [DOMAIN b -> Nat] /\ SumOf(Sums(b)) \in Nat
         /\ \A ch \in DOMAIN b : b[ch] \in Seq(Entry) /\ Sums(b)[ch] = SizeOf(b[ch]) /\ SizeOf(b[ch]) \in Nat
<1>1. PICK D \in SUBSET CachedChannels : b \in [D -> Seq(Entry)]
  BY DEF Buffers
<1>2. D = DOMAIN b /\ \A ch \in D : b[ch] \in Seq(Entry)
  BY <1>1
<1>3. IsFiniteSet(D)
  BY <1>1, CacheAssumption, FS_Subset
<1>4. \A ch \in D : SizeOf(b[ch]) \in Nat
  BY <1>2, SizesAre
<1>5. Sums(b) \in [D -> Nat] /\ \A ch \in D : Sums(b)[ch] = SizeOf(b[ch])
  BY <1>2, <1>4 DEF Sums
<1>6. SumOf(Sums(b)) \in Nat
  BY <1>3, <1>5, SumOfType
<1> QED BY <1>1, <1>2, <1>3, <1>4, <1>5, <1>6

\* Functions of channels to entries are buffers.
LEMMA AreBuffers ==
  ASSUME NEW D \in SUBSET CachedChannels, NEW b \in [D -> Seq(Entry)] PROVE b \in Buffers
BY DEF Buffers

\* A channel dropped takes what its buffer held.
LEMMA TotalWithout ==
  ASSUME NEW b \in Buffers, NEW ch \in DOMAIN b
  PROVE  /\ Without(b, ch) \in Buffers /\ DOMAIN Without(b, ch) = DOMAIN b \ {ch}
         /\ \A x \in DOMAIN b \ {ch} : Without(b, ch)[x] = b[x]
         /\ SumOf(Sums(b)) = SumOf(Sums(Without(b, ch))) + SizeOf(b[ch])
<1> DEFINE D == DOMAIN b
           w == Without(b, ch)
<1>1. D \subseteq CachedChannels /\ b \in [D -> Seq(Entry)] /\ IsFiniteSet(D) /\ Sums(b) \in [D -> Nat] /\ Sums(b)[ch] = SizeOf(b[ch])
  BY BuffersAre
<1>2. w \in [D \ {ch} -> Seq(Entry)] /\ \A x \in D \ {ch} : w[x] = b[x]
  BY <1>1 DEF Without
<1>3. w \in Buffers
  BY <1>1, <1>2, AreBuffers
<1>4. Sums(w) = Without(Sums(b), ch)
  <2>1. Sums(w) = [x \in D \ {ch} |-> SizeOf(w[x])]
    BY <1>2 DEF Sums
  <2>2. Without(Sums(b), ch) = [x \in D \ {ch} |-> SizeOf(b[x])]
    BY DEF Sums, Without
  <2> HIDE DEF w, D
  <2> QED BY <1>2, <2>1, <2>2
<1>5. SumOf(Sums(b)) = SumOf(Without(Sums(b), ch)) + Sums(b)[ch]
  BY <1>1, SumOfParts
<1> QED BY <1>1, <1>2, <1>3, <1>4, <1>5

\* A channel's buffer replaced brings its own total for the old one's.
LEMMA TotalChanged ==
  ASSUME NEW b \in Buffers, NEW ch \in DOMAIN b, NEW q \in Seq(Entry)
  PROVE  /\ [b EXCEPT ![ch] = q] \in Buffers
         /\ SumOf(Sums([b EXCEPT ![ch] = q])) + SizeOf(b[ch]) = SumOf(Sums(b)) + SizeOf(q)
<1> DEFINE n == [b EXCEPT ![ch] = q]
           D == DOMAIN b
<1>1. D \subseteq CachedChannels /\ b \in [D -> Seq(Entry)]
  BY BuffersAre
<1>2. n \in [D -> Seq(Entry)] /\ n[ch] = q /\ \A x \in D \ {ch} : n[x] = b[x]
  BY <1>1
<1>3. n \in Buffers
  BY <1>1, <1>2, AreBuffers
<1> HIDE DEF n
<1>4. Without(n, ch) = Without(b, ch)
  BY <1>2 DEF Without
<1>5. SumOf(Sums(b)) = SumOf(Sums(Without(b, ch))) + SizeOf(b[ch]) /\ Without(b, ch) \in Buffers
  BY TotalWithout
<1>6. SumOf(Sums(n)) = SumOf(Sums(Without(n, ch))) + SizeOf(q)
  <2>1. ch \in DOMAIN n
    BY <1>2
  <2>2. SumOf(Sums(n)) = SumOf(Sums(Without(n, ch))) + SizeOf(n[ch])
    BY <1>3, <2>1, TotalWithout
  <2> QED BY <1>2, <2>2
<1>7. SizeOf(q) \in Nat /\ SizeOf(b[ch]) \in Nat /\ SumOf(Sums(Without(b, ch))) \in Nat
  BY <1>5, BuffersAre, SizesAre
<1>8. SumOf(Sums(n)) + SizeOf(b[ch]) = SumOf(Sums(b)) + SizeOf(q)
  BY <1>4, <1>5, <1>6, <1>7
<1> QED BY <1>3, <1>8 DEF n

\* An empty buffer opened adds nothing.
LEMMA TotalOpened ==
  ASSUME NEW b \in Buffers, NEW ch \in CachedChannels, ch \notin DOMAIN b
  PROVE  /\ With(b, ch, <<>>) \in Buffers /\ DOMAIN With(b, ch, <<>>) = DOMAIN b \cup {ch}
         /\ With(b, ch, <<>>)[ch] = <<>> /\ \A x \in DOMAIN b : With(b, ch, <<>>)[x] = b[x]
         /\ SumOf(Sums(With(b, ch, <<>>))) = SumOf(Sums(b))
<1> DEFINE n == With(b, ch, <<>>)
           D == DOMAIN b
<1>1. D \subseteq CachedChannels /\ b \in [D -> Seq(Entry)] /\ SumOf(Sums(b)) \in Nat
  BY BuffersAre
<1>2. n \in [D \cup {ch} -> Seq(Entry)] /\ n[ch] = <<>> /\ \A x \in D : n[x] = b[x]
  <2>1. <<>> \in Seq(Entry)
    OBVIOUS
  <2> QED BY <1>1, <2>1 DEF With
<1>3. n \in Buffers /\ ch \in DOMAIN n
  BY <1>1, <1>2, AreBuffers
<1> HIDE DEF n
<1>4. Without(n, ch) = b
  BY <1>1, <1>2 DEF Without
<1>5. SumOf(Sums(n)) = SumOf(Sums(Without(n, ch))) + SizeOf(n[ch])
  BY <1>3, TotalWithout
<1>6. SizeOf(<<>>) = 0
  <2>1. DOMAIN [i \in DOMAIN <<>> |-> <<>>[i].size] = {}
    OBVIOUS
  <2> QED BY <2>1, SumOfNone DEF SizeOf
<1>7. SumOf(Sums(n)) = SumOf(Sums(b))
  BY <1>1, <1>2, <1>4, <1>5, <1>6
<1> QED BY <1>2, <1>3, <1>7 DEF n

\* No channel stands twice in a sequence.
OnceEach(s) == \A i, j \in 1..Len(s) : s[i] = s[j] => i = j

\* A sequence that names each once is as long as the set it names.
LEMMA OnceCounted ==
  ASSUME NEW S, NEW s \in Seq(S), OnceEach(s) PROVE Len(s) = Cardinality(ToSet(s))
<1> DEFINE D == 1..Len(s)
           T == ToSet(s)
<1>1. Len(s) \in Nat /\ DOMAIN s = D
  OBVIOUS
<1>2. s \in [D -> T] /\ \A t \in T : \E i \in D : s[i] = t
  BY <1>1 DEF ToSet
<1>3. IsFiniteSet(D) /\ Cardinality(D) = Len(s)
  <2>1. 1 \in Int /\ Len(s) \in Int
    BY <1>1
  <2>2. IsFiniteSet(D) /\ Cardinality(D) = IF 1 > Len(s) THEN 0 ELSE Len(s) - 1 + 1
    BY <2>1, FS_Interval
  <2> QED BY <1>1, <2>2
<1>4. \A i, j \in D : s[i] = s[j] => i = j
  BY DEF OnceEach
<1> HIDE DEF D, T
<1>5. ExistsBijection(D, T)
  BY <1>2, <1>4 DEF ExistsBijection, Bijection, Injection, Surjection, IsInjective
<1>6. Cardinality(D) = Cardinality(T)
  BY <1>3, <1>5, FS_Bijection
<1> QED BY <1>3, <1>6 DEF T

\* A channel taken out of its place leaves the others, once each.
LEMMA TakenOutOnce ==
  ASSUME NEW S, NEW s \in Seq(S), OnceEach(s), NEW ch \in ToSet(s)
  PROVE  TakenOut(s, ch) \in Seq(S) /\ OnceEach(TakenOut(s, ch)) /\ ToSet(TakenOut(s, ch)) = ToSet(s) \ {ch}
<1> DEFINE p == PlaceOf(s, ch)
           r == TakenOut(s, ch)
<1>1. p \in 1..Len(s) /\ s[p] = ch
  BY DEF PlaceOf, ToSet
<1> HIDE DEF p
<1>2. r \in Seq(S) /\ TakenFrom(r, s, p)
  BY <1>1, RemoveAtTaken DEF TakenOut, p
<1> HIDE DEF r
<1>3. /\ Len(s) \in Nat /\ p \in Nat /\ p >= 1 /\ p <= Len(s) /\ Len(r) = Len(s) - 1 /\ Len(r) \in Nat
      /\ DOMAIN s = 1..Len(s) /\ DOMAIN r = 1..Len(r)
  BY <1>1, <1>2 DEF TakenFrom
<1>4. \A j \in 1..Len(r) : /\ j < p => (r[j] = s[j] /\ j \in 1..Len(s))
                           /\ ~(j < p) => (r[j] = s[j + 1] /\ j + 1 \in 1..Len(s))
  BY <1>2, <1>3 DEF TakenFrom
<1>5. OnceEach(r)
  <2> SUFFICES ASSUME NEW i \in 1..Len(r), NEW j \in 1..Len(r), r[i] = r[j] PROVE i = j
    BY DEF OnceEach
  <2>1. \A k, l \in 1..Len(s) : s[k] = s[l] => k = l
    BY DEF OnceEach
  <2>2. CASE i < p /\ j < p
    BY <1>4, <2>1, <2>2
  <2>3. CASE i < p /\ ~(j < p)
    <3>1. i = j + 1
      BY <1>4, <2>1, <2>3
    <3> QED BY <1>3, <2>3, <3>1
  <2>4. CASE ~(i < p) /\ j < p
    <3>1. i + 1 = j
      BY <1>4, <2>1, <2>4
    <3> QED BY <1>3, <2>4, <3>1
  <2>5. CASE ~(i < p) /\ ~(j < p)
    <3>1. i + 1 = j + 1
      BY <1>4, <2>1, <2>5
    <3> QED BY <1>3, <3>1
  <2> QED BY <2>2, <2>3, <2>4, <2>5
<1>6. ASSUME NEW x \in ToSet(r) PROVE x \in ToSet(s) \ {ch}
  <2>1. PICK j \in 1..Len(r) : r[j] = x
    BY <1>3 DEF ToSet
  <2>2. PICK k \in 1..Len(s) : s[k] = x /\ k # p
    <3>1. CASE j < p
      BY <1>3, <1>4, <2>1, <3>1
    <3>2. CASE ~(j < p)
      <4>1. j + 1 \in 1..Len(s) /\ s[j + 1] = x /\ j + 1 # p
        BY <1>3, <1>4, <2>1, <3>2
      <4> QED BY <4>1
    <3> QED BY <3>1, <3>2
  <2>3. x # ch
    BY <1>1, <2>2 DEF OnceEach
  <2> QED BY <1>3, <2>2, <2>3 DEF ToSet
<1>7. ASSUME NEW x \in ToSet(s), x # ch PROVE x \in ToSet(r)
  <2>1. PICK k \in 1..Len(s) : s[k] = x
    BY <1>3 DEF ToSet
  <2>2. k # p
    BY <1>1, <1>7, <2>1
  <2>3. CASE k < p
    <3>1. k \in 1..Len(r)
      BY <1>3, <2>3
    <3>2. r[k] = x
      BY <1>4, <2>1, <2>3, <3>1
    <3> QED BY <1>3, <3>1, <3>2 DEF ToSet
  <2>4. CASE k > p
    <3>1. k - 1 \in 1..Len(r) /\ ~(k - 1 < p) /\ (k - 1) + 1 = k
      BY <1>3, <2>4
    <3>2. r[k - 1] = x
      BY <1>4, <2>1, <3>1
    <3> QED BY <1>3, <3>1, <3>2 DEF ToSet
  <2> QED BY <1>3, <2>2, <2>3, <2>4
<1>8. ToSet(r) = ToSet(s) \ {ch}
  BY <1>6, <1>7
<1> QED BY <1>2, <1>5, <1>8 DEF r

\* A channel put first that was not there is there once.
LEMMA PutFirstOnce ==
  ASSUME NEW S, NEW s \in Seq(S), OnceEach(s), NEW ch \in S, ch \notin ToSet(s)
  PROVE  <<ch>> \o s \in Seq(S) /\ OnceEach(<<ch>> \o s) /\ ToSet(<<ch>> \o s) = ToSet(s) \cup {ch}
<1> DEFINE r == <<ch>> \o s
<1>1. /\ r \in Seq(S) /\ Len(r) = Len(s) + 1 /\ Len(s) \in Nat
      /\ r[1] = ch /\ \A i \in 1..Len(s) : r[i + 1] = s[i]
  OBVIOUS
<1> HIDE DEF r
<1>2. DOMAIN r = 1..Len(r) /\ DOMAIN s = 1..Len(s)
  BY <1>1
<1>3. \A i \in 1..Len(s) : s[i] # ch
  BY <1>2 DEF ToSet
<1>4. \A i \in 1..Len(r) : i = 1 \/ (i - 1 \in 1..Len(s) /\ r[i] = s[i - 1])
  <2> SUFFICES ASSUME NEW i \in 1..Len(r), i # 1 PROVE i - 1 \in 1..Len(s) /\ r[i] = s[i - 1]
    OBVIOUS
  <2>1. i - 1 \in 1..Len(s) /\ (i - 1) + 1 = i
    BY <1>1
  <2> QED BY <1>1, <2>1
<1>5. OnceEach(r)
  <2> SUFFICES ASSUME NEW i \in 1..Len(r), NEW j \in 1..Len(r), r[i] = r[j] PROVE i = j
    BY DEF OnceEach
  <2>1. CASE i = 1 \/ j = 1
    BY <1>1, <1>3, <1>4, <2>1
  <2>2. CASE i # 1 /\ j # 1
    <3>1. i - 1 = j - 1
      BY <1>4, <2>2 DEF OnceEach
    <3> QED BY <1>1, <3>1
  <2> QED BY <2>1, <2>2
<1>6. ASSUME NEW x \in ToSet(r) PROVE x \in ToSet(s) \cup {ch}
  <2>1. PICK i \in 1..Len(r) : r[i] = x
    BY <1>2 DEF ToSet
  <2>2. CASE i = 1
    BY <1>1, <2>1, <2>2
  <2>3. CASE i # 1
    <3>1. i - 1 \in DOMAIN s /\ s[i - 1] = x
      BY <1>2, <1>4, <2>1, <2>3
    <3> QED BY <3>1 DEF ToSet
  <2> QED BY <2>2, <2>3
<1>7. ch \in ToSet(r)
  <2>1. 1 \in 1..Len(r)
    BY <1>1
  <2> QED BY <1>1, <1>2, <2>1 DEF ToSet
<1>8. ASSUME NEW x \in ToSet(s) PROVE x \in ToSet(r)
  <2>1. PICK i \in 1..Len(s) : s[i] = x
    BY <1>2 DEF ToSet
  <2>2. i + 1 \in 1..Len(r) /\ r[i + 1] = x
    BY <1>1, <2>1
  <2> QED BY <1>2, <2>2 DEF ToSet
<1> QED BY <1>1, <1>5, <1>6, <1>7, <1>8 DEF r

\* The cache as one value.
CacheRecord == [buffers : Buffers, recency : Seq(CachedChannels), bytes : Nat]

\* Its totals are right: what invariant the helpers keep, between their calls too.
Exact(c) ==
  /\ c \in CacheRecord /\ OnceEach(c.recency) /\ ToSet(c.recency) = DOMAIN c.buffers
  /\ c.bytes = SumOf(Sums(c.buffers))

\* No buffer is longer than its limit.
Fits(c) == \A ch \in DOMAIN c.buffers : Len(c.buffers[ch]) <= MessagesPerChannel

\* One channel's buffer replaced.
Refilled(b, ch, q) == [b EXCEPT ![ch] = q]

\* A buffer replaced, and its difference charged, keeps the totals right.
LEMMA ChangedExact ==
  ASSUME NEW c, Exact(c), NEW ch \in DOMAIN c.buffers, NEW q \in Seq(Entry), NEW n, NEW m \in Nat,
         n = [buffers |-> Refilled(c.buffers, ch, q), recency |-> c.recency, bytes |-> m],
         m + SizeOf(c.buffers[ch]) = c.bytes + SizeOf(q)
  PROVE  Exact(n) /\ ((Fits(c) /\ Len(q) <= MessagesPerChannel) => Fits(n))
<1> DEFINE b == Refilled(c.buffers, ch, q)
<1>1. c.buffers \in Buffers /\ c.recency \in Seq(CachedChannels) /\ c.bytes \in Nat
  BY DEF Exact, CacheRecord
<1>2. b \in Buffers /\ SumOf(Sums(b)) + SizeOf(c.buffers[ch]) = SumOf(Sums(c.buffers)) + SizeOf(q)
  BY <1>1, TotalChanged DEF Refilled
<1>3. DOMAIN b = DOMAIN c.buffers /\ b[ch] = q /\ \A x \in DOMAIN c.buffers \ {ch} : b[x] = c.buffers[x]
  BY DEF Refilled
<1> HIDE DEF b
<1>4. SumOf(Sums(b)) \in Nat /\ SizeOf(c.buffers[ch]) \in Nat /\ SizeOf(q) \in Nat
  BY <1>1, <1>2, BuffersAre, SizesAre
<1>5. m = SumOf(Sums(b))
  BY <1>2, <1>4 DEF Exact
<1>6. n.buffers = b /\ n.recency = c.recency /\ n.bytes = m /\ n \in CacheRecord
  BY <1>1, <1>2 DEF b, CacheRecord
<1>7. Exact(n)
  BY <1>3, <1>5, <1>6 DEF Exact
<1>8. (Fits(c) /\ Len(q) <= MessagesPerChannel) => Fits(n)
  BY <1>3, <1>6 DEF Fits
<1> QED BY <1>7, <1>8

\* A channel's oldest message goes with its size.
LEMMA TrimExact ==
  ASSUME NEW c, Exact(c), NEW ch \in DOMAIN c.buffers, c.buffers[ch] # <<>>
  PROVE  /\ Exact(TrimOldest(c, ch)) /\ DOMAIN TrimOldest(c, ch).buffers = DOMAIN c.buffers
         /\ TrimOldest(c, ch).buffers = [c.buffers EXCEPT ![ch] = Tail(c.buffers[ch])]
         /\ Fits(c) => Fits(TrimOldest(c, ch))
<1> DEFINE q == c.buffers[ch]
           m == c.bytes - Head(q).size
           n == TrimOldest(c, ch)
<1>1. c.buffers \in Buffers /\ c.recency \in Seq(CachedChannels) /\ c.bytes \in Nat /\ c.bytes = SumOf(Sums(c.buffers))
  BY DEF Exact, CacheRecord
<1>2. q \in Seq(Entry) /\ Tail(q) \in Seq(Entry) /\ TakenFrom(Tail(q), q, 1) /\ 1 \in 1..Len(q) /\ Head(q) = q[1] /\ Len(Tail(q)) = Len(q) - 1
  <2>1. q \in Seq(Entry)
    BY <1>1, BuffersAre
  <2>2. Tail(q) \in Seq(Entry) /\ TakenFrom(Tail(q), q, 1)
    BY <2>1, TailTaken
  <2> QED BY <2>1, <2>2
<1>3. SizeOf(q) = SizeOf(Tail(q)) + q[1].size
  BY <1>2, SizeTaken
<1>4. SizeOf(q) \in Nat /\ SizeOf(Tail(q)) \in Nat /\ q[1].size \in Nat
  BY <1>2, SizesAre
<1>5. SumOf(Sums(c.buffers)) = SumOf(Sums(Without(c.buffers, ch))) + SizeOf(q) /\ SumOf(Sums(Without(c.buffers, ch))) \in Nat
  <2>1. SumOf(Sums(c.buffers)) = SumOf(Sums(Without(c.buffers, ch))) + SizeOf(q) /\ Without(c.buffers, ch) \in Buffers
    BY <1>1, TotalWithout
  <2> QED BY <2>1, BuffersAre
<1>6. m \in Nat /\ m + SizeOf(q) = c.bytes + SizeOf(Tail(q))
  BY <1>1, <1>2, <1>3, <1>4, <1>5
<1>7. n = [buffers |-> Refilled(c.buffers, ch, Tail(q)), recency |-> c.recency, bytes |-> m]
  <2>1. c = [buffers |-> c.buffers, recency |-> c.recency, bytes |-> c.bytes]
    BY DEF Exact, CacheRecord
  <2>2. n = [[c EXCEPT !.buffers = Refilled(c.buffers, ch, Tail(q))] EXCEPT !.bytes = m]
    BY <2>1 DEF TrimOldest, Refilled
  <2> HIDE DEF n, m, q
  <2> QED BY <2>1, <2>2
<1> HIDE DEF n, m
<1>8. Exact(n) /\ ((Fits(c) /\ Len(Tail(q)) <= MessagesPerChannel) => Fits(n))
  <2> DEFINE t == Tail(q)
  <2>1. t \in Seq(Entry) /\ m \in Nat /\ m + SizeOf(c.buffers[ch]) = c.bytes + SizeOf(t)
    BY <1>2, <1>6
  <2>2. n = [buffers |-> Refilled(c.buffers, ch, t), recency |-> c.recency, bytes |-> m]
    BY <1>7
  <2> HIDE DEF t, q
  <2>3. Exact(n) /\ ((Fits(c) /\ Len(t) <= MessagesPerChannel) => Fits(n))
    BY <2>1, <2>2, ChangedExact
  <2> QED BY <2>3 DEF t
<1>9. Fits(c) => Len(Tail(q)) <= MessagesPerChannel
  <2>1. Len(q) \in Nat /\ MessagesPerChannel \in Nat
    BY <1>2, CacheAssumption
  <2> QED BY <1>2, <2>1 DEF Fits
<1>10. n.buffers = [c.buffers EXCEPT ![ch] = Tail(q)] /\ DOMAIN n.buffers = DOMAIN c.buffers
  BY <1>7 DEF Refilled
<1> QED BY <1>8, <1>9, <1>10 DEF n

\* A channel dropped goes from its place and with all it holds.
LEMMA DropExact ==
  ASSUME NEW c, Exact(c), NEW ch \in DOMAIN c.buffers
  PROVE  Exact(DropChannel(c, ch)) /\ (Fits(c) => Fits(DropChannel(c, ch)))
<1> DEFINE w == Without(c.buffers, ch)
           r == TakenOut(c.recency, ch)
           m == c.bytes - SizeOf(c.buffers[ch])
           n == DropChannel(c, ch)
<1>1. c.buffers \in Buffers /\ c.recency \in Seq(CachedChannels) /\ OnceEach(c.recency) /\ ch \in ToSet(c.recency)
  BY DEF Exact, CacheRecord
<1>2. w \in Buffers /\ DOMAIN w = DOMAIN c.buffers \ {ch} /\ (\A x \in DOMAIN w : w[x] = c.buffers[x])
      /\ SumOf(Sums(c.buffers)) = SumOf(Sums(w)) + SizeOf(c.buffers[ch])
  BY <1>1, TotalWithout
<1>3. r \in Seq(CachedChannels) /\ OnceEach(r) /\ ToSet(r) = ToSet(c.recency) \ {ch}
  BY <1>1, TakenOutOnce
<1>4. n = [buffers |-> w, recency |-> r, bytes |-> m]
  BY DEF DropChannel, Buffered
<1> HIDE DEF w, r, n
<1>5. SizeOf(c.buffers[ch]) \in Nat /\ SumOf(Sums(w)) \in Nat
  BY <1>1, <1>2, BuffersAre
<1>6. m = SumOf(Sums(w))
  BY <1>2, <1>5 DEF Exact
<1>7. n.buffers = w /\ n.recency = r /\ n.bytes = SumOf(Sums(w)) /\ n \in CacheRecord
  BY <1>2, <1>3, <1>4, <1>5, <1>6 DEF CacheRecord
<1>8. Exact(n)
  BY <1>2, <1>3, <1>7 DEF Exact
<1>9. Fits(c) => Fits(n)
  BY <1>2, <1>7 DEF Fits
<1> QED BY <1>8, <1>9 DEF n

\* One turn of the loop.
Turn(c, keep) == IF c.bytes > TotalBytes THEN Evict(c, keep) ELSE c

\* A turn keeps the totals right: a cache over its budget holds a channel to drop or to trim.
LEMMA TurnExact ==
  ASSUME NEW c, Exact(c), Fits(c), NEW keep
  PROVE  Exact(Turn(c, keep)) /\ Fits(Turn(c, keep))
<1>1. CASE ~(c.bytes > TotalBytes)
  BY <1>1 DEF Turn
<1>2. CASE c.bytes > TotalBytes
  <2>1. c.buffers \in Buffers /\ c.recency \in Seq(CachedChannels) /\ c.bytes \in Nat /\ c.bytes = SumOf(Sums(c.buffers))
    BY DEF Exact, CacheRecord
  <2>2. DOMAIN c.buffers # {}
    <3> SUFFICES ASSUME DOMAIN c.buffers = {} PROVE FALSE
      OBVIOUS
    <3>1. SumOf(Sums(c.buffers)) = 0
      <4>1. DOMAIN Sums(c.buffers) = {}
        BY DEF Sums
      <4> QED BY <4>1, SumOfNone
    <3> QED BY <1>2, <2>1, <3>1, CacheAssumption
  <2> DEFINE l == Last(c.recency)
  <2>3. l \in DOMAIN c.buffers
    <3>1. DOMAIN c.recency = 1..Len(c.recency) /\ Len(c.recency) \in Nat
      BY <2>1
    <3>2. PICK i \in DOMAIN c.recency : TRUE
      BY <2>2 DEF Exact, ToSet
    <3>3. Len(c.recency) \in DOMAIN c.recency
      BY <3>1, <3>2
    <3>4. c.recency[Len(c.recency)] \in ToSet(c.recency)
      BY <3>3 DEF ToSet
    <3> QED BY <3>4 DEF Exact, Last
  <2>4. Turn(c, keep) = IF l # keep THEN DropChannel(c, l)
                        ELSE IF Len(c.buffers[keep]) <= 1 THEN c ELSE TrimOldest(c, keep)
    BY <1>2 DEF Turn, Evict
  <2> HIDE DEF l
  <2>5. CASE l # keep
    BY <2>3, <2>4, <2>5, DropExact
  <2>6. CASE l = keep /\ Len(c.buffers[keep]) <= 1
    BY <2>4, <2>6
  <2>7. CASE l = keep /\ ~(Len(c.buffers[keep]) <= 1)
    <3>1. Turn(c, keep) = TrimOldest(c, keep) /\ keep \in DOMAIN c.buffers
      BY <2>3, <2>4, <2>7
    <3>2. c.buffers[keep] # <<>>
      BY <2>7
    <3> QED BY <3>1, <3>2, TrimExact
  <2> QED BY <2>5, <2>6, <2>7
<1> QED BY <1>1, <1>2

\* The loop's turns, as a function of their number.
TurnsAre(f, c0, keep, N) == f = [n \in 0..N |-> IF n = 0 THEN c0 ELSE Turn(f[n - 1], keep)]

\* There are such turns, however many.
LEMMA TurnsExist ==
  ASSUME NEW c0, NEW keep, NEW N \in Nat PROVE \E f : TurnsAre(f, c0, keep, N)
<1> DEFINE P == {M \in Nat : \E f : TurnsAre(f, c0, keep, M)}
<1>1. 0 \in P
  <2> DEFINE f == [n \in 0..0 |-> c0]
  <2>1. f = [n \in 0..0 |-> IF n = 0 THEN c0 ELSE Turn(f[n - 1], keep)]
    <3>1. \A n \in 0..0 : n = 0
      OBVIOUS
    <3> QED BY <3>1
  <2>2. TurnsAre(f, c0, keep, 0)
    BY <2>1 DEF TurnsAre
  <2> HIDE DEF f
  <2> QED BY <2>2
<1>2. ASSUME NEW M \in Nat, M \in P PROVE M + 1 \in P
  <2>1. PICK f : TurnsAre(f, c0, keep, M)
    BY <1>2
  <2>2. DOMAIN f = 0..M /\ \A n \in 0..M : f[n] = IF n = 0 THEN c0 ELSE Turn(f[n - 1], keep)
    <3> DEFINE g == [n \in 0..M |-> IF n = 0 THEN c0 ELSE Turn(f[n - 1], keep)]
    <3>1. f = g
      BY <2>1 DEF TurnsAre
    <3>2. DOMAIN g = 0..M /\ \A n \in 0..M : g[n] = IF n = 0 THEN c0 ELSE Turn(f[n - 1], keep)
      OBVIOUS
    <3> HIDE DEF g
    <3> QED BY <3>1, <3>2
  <2> DEFINE h == [n \in 0..(M + 1) |-> IF n = M + 1 THEN Turn(f[M], keep) ELSE f[n]]
             k == [n \in 0..(M + 1) |-> IF n = 0 THEN c0 ELSE Turn(h[n - 1], keep)]
  <2>3. DOMAIN h = 0..(M + 1) /\ h[M + 1] = Turn(f[M], keep) /\ \A n \in 0..M : h[n] = f[n]
    <3>1. M + 1 \in 0..(M + 1) /\ \A n \in 0..M : n \in 0..(M + 1) /\ n # M + 1
      OBVIOUS
    <3> QED BY <3>1
  <2>4. DOMAIN k = 0..(M + 1) /\ \A n \in 0..(M + 1) : k[n] = IF n = 0 THEN c0 ELSE Turn(h[n - 1], keep)
    OBVIOUS
  <2>5. k = [n \in 0..(M + 1) |-> k[n]] /\ h = [n \in 0..(M + 1) |-> h[n]]
    OBVIOUS
  <2> HIDE DEF h
  <2>5a. k = [n \in 0..(M + 1) |-> IF n = 0 THEN c0 ELSE Turn(h[n - 1], keep)]
    OBVIOUS
  <2> HIDE DEF k
  <2>6. ASSUME NEW n \in 0..(M + 1) PROVE h[n] = k[n]
    <3>1. CASE n = M + 1
      <4>1. n # 0 /\ n - 1 = M /\ M \in 0..M
        BY <3>1
      <4> QED BY <2>3, <2>4, <3>1, <4>1
    <3>2. CASE n # M + 1 /\ n = 0
      <4>1. 0 \in 0..M
        OBVIOUS
      <4> QED BY <2>2, <2>3, <2>4, <3>2, <4>1
    <3>3. CASE n # M + 1 /\ n # 0
      <4>1. n \in 0..M /\ n - 1 \in 0..M
        BY <3>3
      <4> QED BY <2>2, <2>3, <2>4, <3>3, <4>1
    <3> QED BY <3>1, <3>2, <3>3
  <2>7. h = k
    BY <2>5, <2>6
  <2>8. TurnsAre(h, c0, keep, M + 1)
    BY <2>5a, <2>7 DEF TurnsAre
  <2> QED BY <2>8
<1>3. Nat \subseteq P
  <2> HIDE DEF P
  <2> QED BY <1>1, <1>2, SetInduction
<1> QED BY <1>3

\* However many turns it takes, the loop keeps the totals right.
LEMMA EnforceExact ==
  ASSUME NEW c0, Exact(c0), Fits(c0), NEW keep
  PROVE  Exact(EnforceBudget(c0, keep)) /\ Fits(EnforceBudget(c0, keep))
<1> DEFINE f == CHOOSE g : TurnsAre(g, c0, keep, Turns)
<1>0. Turns \in Nat
  <2>1. Cardinality(CachedChannels) \in Nat /\ MessagesPerChannel + 1 \in Nat
    BY CacheAssumption, FS_CardinalityType
  <2> QED BY <2>1 DEF Turns
<1>1. TurnsAre(f, c0, keep, Turns)
  BY <1>0, TurnsExist
<1>2. EnforceBudget(c0, keep) = f[Turns]
  BY Zenon DEF EnforceBudget, TurnsAre, Turn
<1> HIDE DEF f
<1>3. \A n \in 0..Turns : f[n] = IF n = 0 THEN c0 ELSE Turn(f[n - 1], keep)
  <2> DEFINE g == [n \in 0..Turns |-> IF n = 0 THEN c0 ELSE Turn(f[n - 1], keep)]
  <2>1. f = g
    BY <1>1 DEF TurnsAre
  <2>2. \A n \in 0..Turns : g[n] = IF n = 0 THEN c0 ELSE Turn(f[n - 1], keep)
    OBVIOUS
  <2> HIDE DEF g
  <2> QED BY <2>1, <2>2
<1> DEFINE P == {n \in Nat : n \in 0..Turns => (Exact(f[n]) /\ Fits(f[n]))}
<1>4. 0 \in P
  <2>1. 0 \in 0..Turns
    BY <1>0
  <2> QED BY <1>3, <2>1
<1>5. ASSUME NEW n \in Nat, n \in P PROVE n + 1 \in P
  <2> SUFFICES ASSUME n + 1 \in 0..Turns PROVE Exact(f[n + 1]) /\ Fits(f[n + 1])
    OBVIOUS
  <2>1. n \in 0..Turns /\ n + 1 # 0 /\ (n + 1) - 1 = n
    BY <1>0
  <2>2. f[n + 1] = Turn(f[n], keep)
    BY <1>3, <2>1
  <2>3. Exact(f[n]) /\ Fits(f[n])
    BY <1>5, <2>1
  <2> QED BY <2>2, <2>3, TurnExact
<1>6. Nat \subseteq P
  <2> HIDE DEF P
  <2> QED BY <1>4, <1>5, SetInduction
<1>7. Turns \in 0..Turns
  BY <1>0
<1> QED BY <1>0, <1>2, <1>6, <1>7

\* A channel made the most recent keeps its one place.
LEMMA MovedExact ==
  ASSUME NEW c, Exact(c), NEW ch \in DOMAIN c.buffers, NEW n,
         n = [buffers |-> c.buffers, recency |-> <<ch>> \o TakenOut(c.recency, ch), bytes |-> c.bytes]
  PROVE  Exact(n)
<1> DEFINE t == TakenOut(c.recency, ch)
           r == <<ch>> \o t
<1>1. c.buffers \in Buffers /\ c.recency \in Seq(CachedChannels) /\ OnceEach(c.recency) /\ ch \in ToSet(c.recency) /\ c.bytes \in Nat
  BY DEF Exact, CacheRecord
<1>2. ch \in CachedChannels
  BY <1>1, BuffersAre
<1>3. t \in Seq(CachedChannels) /\ OnceEach(t) /\ ToSet(t) = ToSet(c.recency) \ {ch}
  BY <1>1, TakenOutOnce
<1> HIDE DEF t
<1>4. r \in Seq(CachedChannels) /\ OnceEach(r) /\ ToSet(r) = ToSet(t) \cup {ch}
  BY <1>2, <1>3, PutFirstOnce
<1>5. n = [buffers |-> c.buffers, recency |-> r, bytes |-> c.bytes]
  BY DEF t
<1> HIDE DEF r
<1>6. n.buffers = c.buffers /\ n.recency = r /\ n.bytes = c.bytes /\ n \in CacheRecord
  <2>1. n.buffers = c.buffers /\ n.recency = r /\ n.bytes = c.bytes
    BY <1>5
  <2>2. r \in Seq(CachedChannels) /\ c.buffers \in Buffers /\ c.bytes \in Nat
    BY <1>1, <1>4
  <2>3. n \in CacheRecord
    <3>1. \A x \in Seq(CachedChannels) : [buffers |-> c.buffers, recency |-> x, bytes |-> c.bytes] \in CacheRecord
      BY <2>2 DEF CacheRecord
    <3>2. [buffers |-> c.buffers, recency |-> r, bytes |-> c.bytes] \in CacheRecord
      BY <2>2, <3>1
    <3> QED BY <1>5, <3>2, Zenon
  <2> QED BY <2>1, <2>3
<1>7. ToSet(r) = DOMAIN c.buffers
  BY <1>1, <1>3, <1>4 DEF Exact
<1> QED BY <1>4, <1>6, <1>7 DEF Exact

\* The totals are right and no buffer over its limit.
CacheInv == Exact(Cache) /\ Fits(Cache)

\* The cache becomes one whose totals are right.
LEMMA BecomesExact == ASSUME NEW n, Exact(n), Fits(n), Becomes(n) PROVE CacheInv'
<1>1. n = [buffers |-> n.buffers, recency |-> n.recency, bytes |-> n.bytes]
  BY DEF Exact, CacheRecord
<1>2. Cache' = n
  BY <1>1 DEF Cache, Becomes
<1>3. Exact(Cache') /\ Fits(Cache')
  BY <1>2
<1> QED BY <1>3 DEF CacheInv

\* The cache's fields.
LEMMA CacheFields ==
  CacheInv => /\ Cache.buffers = buffers /\ Cache.recency = recency /\ Cache.bytes = bytes
              /\ buffers \in Buffers /\ recency \in Seq(CachedChannels) /\ bytes \in Nat
              /\ bytes = SumOf(Sums(buffers))
              /\ \A ch \in DOMAIN buffers : buffers[ch] \in Seq(Entry) /\ Len(buffers[ch]) <= MessagesPerChannel
<1>1. Cache.buffers = buffers /\ Cache.recency = recency /\ Cache.bytes = bytes
  BY DEF Cache
<1>2. CacheInv => buffers \in Buffers /\ recency \in Seq(CachedChannels) /\ bytes \in Nat /\ bytes = SumOf(Sums(buffers))
  BY <1>1 DEF CacheInv, Exact, CacheRecord
<1>3. CacheInv => \A ch \in DOMAIN buffers : Len(buffers[ch]) <= MessagesPerChannel
  BY <1>1 DEF CacheInv, Fits
<1>4. CacheInv => \A ch \in DOMAIN buffers : buffers[ch] \in Seq(Entry)
  BY <1>2, BuffersAre
<1> QED BY <1>1, <1>2, <1>3, <1>4

\* AddMessage's first step opens a buffer for a channel that has none.
Opened(ch) ==
  IF ch \in DOMAIN buffers THEN Cache
  ELSE [Cache EXCEPT !.buffers = With(buffers, ch, <<>>), !.recency = <<ch>> \o recency]

\* Its totals are right, and the channel's buffer is within its limit.
LEMMA OpenedExact ==
  ASSUME CacheInv, NEW ch \in CachedChannels
  PROVE  Exact(Opened(ch)) /\ Fits(Opened(ch)) /\ ch \in DOMAIN Opened(ch).buffers
<1>1. CASE ch \in DOMAIN buffers
  <2>1. Opened(ch) = Cache
    BY <1>1 DEF Opened
  <2> QED BY <1>1, <2>1, CacheFields DEF CacheInv
<1>2. CASE ch \notin DOMAIN buffers
  <2> DEFINE b == With(buffers, ch, <<>>)
             r == <<ch>> \o recency
             n == Opened(ch)
  <2>1. b \in Buffers /\ DOMAIN b = DOMAIN buffers \cup {ch} /\ b[ch] = <<>> /\ (\A x \in DOMAIN buffers : b[x] = buffers[x])
        /\ SumOf(Sums(b)) = SumOf(Sums(buffers))
    BY <1>2, CacheFields, TotalOpened
  <2>2. OnceEach(recency) /\ ToSet(recency) = DOMAIN buffers
    BY CacheFields DEF CacheInv, Exact
  <2>3. r \in Seq(CachedChannels) /\ OnceEach(r) /\ ToSet(r) = DOMAIN buffers \cup {ch}
    BY <1>2, <2>2, CacheFields, PutFirstOnce
  <2>4. n = [buffers |-> b, recency |-> r, bytes |-> bytes]
    <3>1. n = [Cache EXCEPT !.buffers = b, !.recency = r]
      BY <1>2 DEF Opened
    <3> HIDE DEF b, r, n
    <3> QED BY <3>1 DEF Cache
  <2> HIDE DEF b, r, n
  <2>5. n.buffers = b /\ n.recency = r /\ n.bytes = bytes /\ n \in CacheRecord
    BY <2>1, <2>3, <2>4, CacheFields DEF CacheRecord
  <2>6. Exact(n)
    BY <2>1, <2>3, <2>5, CacheFields DEF Exact
  <2>7. Fits(n)
    <3> SUFFICES ASSUME NEW x \in DOMAIN b PROVE Len(b[x]) <= MessagesPerChannel
      BY <2>5 DEF Fits
    <3>1. CASE x = ch
      BY <2>1, <3>1, CacheAssumption
    <3>2. CASE x \in DOMAIN buffers
      BY <2>1, <3>2, CacheFields
    <3> QED BY <2>1, <3>1, <3>2
  <2> QED BY <2>1, <2>5, <2>6, <2>7 DEF n
<1> QED BY <1>1, <1>2

\* Its second step appends the message and makes the channel the most recent.
MovedFirst(c, ch, e) ==
  [c EXCEPT !.recency = <<ch>> \o TakenOut(@, ch), !.buffers[ch] = Append(@, e), !.bytes = @ + e.size]

\* It keeps the totals right.
LEMMA MovesExact ==
  ASSUME NEW c, Exact(c), NEW ch \in DOMAIN c.buffers, NEW e \in Entry
  PROVE  /\ Exact(MovedFirst(c, ch, e)) /\ MovedFirst(c, ch, e).buffers = Refilled(c.buffers, ch, Append(c.buffers[ch], e))
<1> DEFINE q == c.buffers[ch]
           a == Append(q, e)
           m == c.bytes + e.size
           n == [buffers |-> Refilled(c.buffers, ch, a), recency |-> c.recency, bytes |-> m]
           k == MovedFirst(c, ch, e)
<1>1. c.buffers \in Buffers /\ c.recency \in Seq(CachedChannels) /\ c.bytes \in Nat
      /\ c = [buffers |-> c.buffers, recency |-> c.recency, bytes |-> c.bytes]
  BY DEF Exact, CacheRecord
<1>2. q \in Seq(Entry)
  BY <1>1, BuffersAre
<1>3. a \in Seq(Entry)
  BY <1>2
<1>4. SizeOf(a) = SizeOf(q) + e.size /\ SizeOf(q) \in Nat /\ e.size \in Nat
  <2>1. SizeOf(a) = SizeOf(q) + e.size
    BY <1>2, SizeAppended
  <2>2. e.size \in Nat
    BY CacheAssumption DEF Entry
  <2> QED BY <1>2, <2>1, <2>2, SizesAre
<1>5. m \in Nat /\ m + SizeOf(c.buffers[ch]) = c.bytes + SizeOf(a)
  BY <1>1, <1>4
<1>6. k = [buffers |-> n.buffers, recency |-> <<ch>> \o TakenOut(n.recency, ch), bytes |-> n.bytes]
  <2> DEFINE r == <<ch>> \o TakenOut(c.recency, ch)
             b == Refilled(c.buffers, ch, a)
  <2>1. k = [[[c EXCEPT !.recency = r] EXCEPT !.buffers = b] EXCEPT !.bytes = m]
    BY <1>1 DEF MovedFirst, Refilled
  <2>2. n.buffers = b /\ n.recency = c.recency /\ n.bytes = m
    OBVIOUS
  <2>3. k = [buffers |-> b, recency |-> r, bytes |-> m]
    <3> HIDE DEF k, r, b, m
    <3> QED BY <1>1, <2>1
  <2> HIDE DEF n, k, b, m
  <2> QED BY <2>2, <2>3
<1>7. n = [buffers |-> Refilled(c.buffers, ch, a), recency |-> c.recency, bytes |-> m]
  OBVIOUS
<1>8. n.buffers = Refilled(c.buffers, ch, a) /\ DOMAIN n.buffers = DOMAIN c.buffers
  BY DEF Refilled
<1> HIDE DEF a, n, m, k, q
<1>9. Exact(n)
  BY <1>3, <1>5, <1>7, ChangedExact
<1>10. Exact(k)
  BY <1>6, <1>8, <1>9, MovedExact
<1>11. k.buffers = n.buffers
  BY <1>6
<1> QED BY <1>8, <1>10, <1>11 DEF k, a, q

\* A message added keeps the totals right, to the end of the loop.
LEMMA CacheAdds ==
  ASSUME CacheInv, NEW ch \in CachedChannels, NEW e \in Entry, AddMessage(ch, e) PROVE CacheInv'
<1> DEFINE o == Opened(ch)
           k == MovedFirst(o, ch, e)
           t == IF Len(k.buffers[ch]) > MessagesPerChannel THEN TrimOldest(k, ch) ELSE k
<1>1. Exact(o) /\ Fits(o) /\ ch \in DOMAIN o.buffers
  BY OpenedExact
<1>2. Becomes(o) \/ Becomes(EnforceBudget(t, ch))
  BY Zenon DEF AddMessage, Opened, MovedFirst
<1> HIDE DEF o
<1>3. Exact(k) /\ k.buffers = Refilled(o.buffers, ch, Append(o.buffers[ch], e))
  BY <1>1, MovesExact
<1> HIDE DEF k
<1> DEFINE q == o.buffers[ch]
           a == Append(q, e)
<1>4. DOMAIN k.buffers = DOMAIN o.buffers /\ k.buffers[ch] = a /\ \A x \in DOMAIN o.buffers \ {ch} : k.buffers[x] = o.buffers[x]
  BY <1>1, <1>3 DEF Refilled
<1>5. q \in Seq(Entry) /\ Len(q) \in Nat /\ Len(q) <= MessagesPerChannel /\ MessagesPerChannel \in Nat
  <2>1. q \in Seq(Entry)
    BY <1>1, BuffersAre DEF Exact, CacheRecord
  <2> QED BY <1>1, <2>1, CacheAssumption DEF Fits
<1>6. a \in Seq(Entry) /\ Len(a) = Len(q) + 1 /\ a # <<>>
  BY <1>5
<1> HIDE DEF a, q
<1>7. \A x \in DOMAIN k.buffers \ {ch} : Len(k.buffers[x]) <= MessagesPerChannel
  BY <1>1, <1>4 DEF Fits
<1>8. Exact(t) /\ Fits(t)
  <2>1. CASE Len(a) > MessagesPerChannel
    <3>1. t = TrimOldest(k, ch)
      BY <1>4, <2>1
    <3>2. Exact(t) /\ t.buffers = [k.buffers EXCEPT ![ch] = Tail(a)]
      <4>1. ch \in DOMAIN k.buffers /\ k.buffers[ch] # <<>> /\ k.buffers[ch] = a
        BY <1>1, <1>4, <1>6
      <4>2. Exact(TrimOldest(k, ch)) /\ TrimOldest(k, ch).buffers = [k.buffers EXCEPT ![ch] = Tail(k.buffers[ch])]
        BY <1>3, <4>1, TrimExact
      <4> HIDE DEF t
      <4> QED BY <3>1, <4>1, <4>2
    <3>3. Len(Tail(a)) <= MessagesPerChannel
      BY <1>5, <1>6
    <3> HIDE DEF t
    <3>4. DOMAIN t.buffers = DOMAIN k.buffers /\ t.buffers[ch] = Tail(a) /\ \A x \in DOMAIN k.buffers \ {ch} : t.buffers[x] = k.buffers[x]
      BY <1>1, <1>4, <3>2
    <3> QED BY <1>7, <3>2, <3>3, <3>4 DEF Fits
  <2>2. CASE ~(Len(a) > MessagesPerChannel)
    <3>1. t = k
      BY <1>4, <2>2
    <3>2. Len(a) <= MessagesPerChannel
      BY <1>5, <1>6, <2>2
    <3> HIDE DEF t
    <3> QED BY <1>3, <1>4, <1>7, <3>1, <3>2 DEF Fits
  <2> QED BY <2>1, <2>2
<1> HIDE DEF t
<1>9. Exact(EnforceBudget(t, ch)) /\ Fits(EnforceBudget(t, ch))
  BY <1>8, EnforceExact
<1> QED BY <1>1, <1>2, <1>9, BecomesExact

\* A message replaced changes the total by the difference.
LEMMA CacheReplaces ==
  ASSUME CacheInv, NEW ch \in CachedChannels, NEW e \in Entry, ReplaceMessage(ch, e) PROVE CacheInv'
<1>0. ch \in DOMAIN buffers
  BY DEF ReplaceMessage
<1>1. PICK i \in Places(ch, e.id) :
         Becomes(EnforceBudget([Cache EXCEPT !.buffers[ch][i] = e, !.bytes = @ + e.size - buffers[ch][i].size], ch))
  BY DEF ReplaceMessage
<1> DEFINE q == buffers[ch]
           a == [q EXCEPT ![i] = e]
           m == bytes + e.size - q[i].size
           n == [Cache EXCEPT !.buffers[ch][i] = e, !.bytes = @ + e.size - buffers[ch][i].size]
<1>2. q \in Seq(Entry) /\ Len(q) \in Nat /\ Len(q) <= MessagesPerChannel /\ i \in 1..Len(q)
  <2>1. q \in Seq(Entry) /\ Len(q) <= MessagesPerChannel
    BY <1>0, CacheFields
  <2>2. i \in DOMAIN q
    BY DEF Places
  <2> QED BY <2>1, <2>2
<1>3. a \in Seq(Entry) /\ Len(a) = Len(q)
  BY <1>2, ExceptSeq
<1>4. SizeOf(a) + q[i].size = SizeOf(q) + e.size
  BY <1>2, SizeReplaced
<1>5. SizeOf(a) \in Nat /\ SizeOf(q) \in Nat /\ q[i].size \in Nat /\ e.size \in Nat /\ bytes \in Nat
  <2>1. e.size \in Nat
    BY CacheAssumption DEF Entry
  <2> QED BY <1>2, <1>3, <2>1, SizesAre, CacheFields
<1>6. bytes = SumOf(Sums(Without(buffers, ch))) + SizeOf(q) /\ SumOf(Sums(Without(buffers, ch))) \in Nat
  <2>1. SumOf(Sums(buffers)) = SumOf(Sums(Without(buffers, ch))) + SizeOf(q) /\ Without(buffers, ch) \in Buffers
    BY <1>0, CacheFields, TotalWithout
  <2> QED BY <2>1, CacheFields, BuffersAre
<1>7. m \in Nat /\ m + SizeOf(q) = bytes + SizeOf(a)
  <2> DEFINE s == SumOf(Sums(Without(buffers, ch)))
             x == SizeOf(a)
             y == SizeOf(q)
             z == q[i].size
             w == e.size
  <2>1. x + z = y + w /\ bytes = s + y /\ x \in Nat /\ y \in Nat /\ z \in Nat /\ w \in Nat /\ s \in Nat /\ m = bytes + w - z
    BY <1>4, <1>5, <1>6
  <2> HIDE DEF s, x, y, z, w, m
  <2>2. m \in Nat /\ m + y = bytes + x
    BY <2>1
  <2> QED BY <2>2 DEF x, y
<1>8. n = [buffers |-> Refilled(Cache.buffers, ch, a), recency |-> Cache.recency, bytes |-> m]
  <2>0. Cache = [buffers |-> buffers, recency |-> recency, bytes |-> bytes]
    BY DEF Cache
  <2>1. n = [[Cache EXCEPT !.buffers = Refilled(buffers, ch, a)] EXCEPT !.bytes = m]
    BY <1>0, <2>0 DEF Refilled
  <2> HIDE DEF n, m, a
  <2> QED BY <2>0, <2>1
<1>9. Becomes(EnforceBudget(n, ch))
  BY <1>1
<1>10. ch \in DOMAIN Cache.buffers /\ m + SizeOf(Cache.buffers[ch]) = Cache.bytes + SizeOf(a)
  BY <1>0, <1>7, CacheFields
<1> HIDE DEF n, m, a, q
<1>11. Exact(n) /\ Fits(n)
  BY <1>2, <1>3, <1>7, <1>8, <1>10, ChangedExact DEF CacheInv
<1> QED BY <1>9, <1>11, EnforceExact, BecomesExact

\* A message removed takes its size.
LEMMA CacheRemoves ==
  ASSUME CacheInv, NEW ch \in CachedChannels, NEW id \in CachedIds, RemoveMessage(ch, id) PROVE CacheInv'
<1>0. ch \in DOMAIN buffers
  BY DEF RemoveMessage
<1>1. PICK i \in Places(ch, id) :
         Becomes([Cache EXCEPT !.buffers[ch] = RemoveAt(@, i), !.bytes = @ - buffers[ch][i].size])
  BY DEF RemoveMessage
<1> DEFINE q == buffers[ch]
           a == RemoveAt(q, i)
           m == bytes - q[i].size
           n == [Cache EXCEPT !.buffers[ch] = RemoveAt(@, i), !.bytes = @ - buffers[ch][i].size]
<1>2. q \in Seq(Entry) /\ Len(q) \in Nat /\ Len(q) <= MessagesPerChannel /\ i \in 1..Len(q)
  <2>1. q \in Seq(Entry) /\ Len(q) <= MessagesPerChannel
    BY <1>0, CacheFields
  <2>2. i \in DOMAIN q
    BY DEF Places
  <2> QED BY <2>1, <2>2
<1>3. a \in Seq(Entry) /\ TakenFrom(a, q, i)
  BY <1>2, RemoveAtTaken
<1>4. SizeOf(q) = SizeOf(a) + q[i].size
  <2> HIDE DEF a, q
  <2> QED BY <1>2, <1>3, SizeTaken
<1>5. SizeOf(a) \in Nat /\ SizeOf(q) \in Nat /\ q[i].size \in Nat /\ bytes \in Nat
  BY <1>2, <1>3, SizesAre, CacheFields
<1>6. bytes = SumOf(Sums(Without(buffers, ch))) + SizeOf(q) /\ SumOf(Sums(Without(buffers, ch))) \in Nat
  <2>1. SumOf(Sums(buffers)) = SumOf(Sums(Without(buffers, ch))) + SizeOf(q) /\ Without(buffers, ch) \in Buffers
    BY <1>0, CacheFields, TotalWithout
  <2> QED BY <2>1, CacheFields, BuffersAre
<1>7. m \in Nat /\ m + SizeOf(q) = bytes + SizeOf(a)
  <2> DEFINE s == SumOf(Sums(Without(buffers, ch)))
             x == SizeOf(a)
             y == SizeOf(q)
             z == q[i].size
  <2>1. y = x + z /\ bytes = s + y /\ x \in Nat /\ y \in Nat /\ z \in Nat /\ s \in Nat /\ m = bytes - z
    BY <1>4, <1>5, <1>6
  <2> HIDE DEF s, x, y, z, m
  <2>2. m \in Nat /\ m + y = bytes + x
    BY <2>1
  <2> QED BY <2>2 DEF x, y
<1>8. n = [buffers |-> Refilled(Cache.buffers, ch, a), recency |-> Cache.recency, bytes |-> m]
  <2>0. Cache = [buffers |-> buffers, recency |-> recency, bytes |-> bytes]
    BY DEF Cache
  <2>1. n = [[Cache EXCEPT !.buffers = Refilled(buffers, ch, a)] EXCEPT !.bytes = m]
    BY <1>0, <2>0 DEF Refilled
  <2> HIDE DEF n, m, a
  <2> QED BY <2>0, <2>1
<1>9. Becomes(n)
  BY <1>1
<1>10. ch \in DOMAIN Cache.buffers /\ m + SizeOf(Cache.buffers[ch]) = Cache.bytes + SizeOf(a)
  BY <1>0, <1>7, CacheFields
<1>11. Len(a) <= MessagesPerChannel
  BY <1>2, <1>3, CacheAssumption DEF TakenFrom
<1> HIDE DEF n, m, a, q
<1>12. Exact(n) /\ Fits(n)
  BY <1>3, <1>7, <1>8, <1>10, <1>11, ChangedExact DEF CacheInv
<1> QED BY <1>9, <1>12, BecomesExact

\* An empty cache holds nothing.
LEMMA EmptyExact == Exact(EmptyCache) /\ Fits(EmptyCache)
<1> DEFINE n == EmptyCache
<1>1. n.buffers = <<>> /\ n.recency = <<>> /\ n.bytes = 0 /\ n = [buffers |-> <<>>, recency |-> <<>>, bytes |-> 0]
  BY DEF EmptyCache
<1>2. <<>> \in Buffers /\ DOMAIN <<>> = {}
  <2>1. <<>> \in [{} -> Seq(Entry)] /\ {} \in SUBSET CachedChannels
    OBVIOUS
  <2> QED BY <2>1, AreBuffers
<1>3. SumOf(Sums(<<>>)) = 0
  <2>1. DOMAIN Sums(<<>>) = {}
    BY <1>2 DEF Sums
  <2> QED BY <2>1, SumOfNone
<1>4. OnceEach(<<>>) /\ ToSet(<<>>) = {} /\ <<>> \in Seq(CachedChannels)
  BY DEF OnceEach, ToSet
<1> HIDE DEF n
<1>5. n \in CacheRecord
  BY <1>1, <1>2, <1>4 DEF CacheRecord
<1>6. Exact(n)
  BY <1>1, <1>2, <1>3, <1>4, <1>5 DEF Exact
<1>7. Fits(n)
  BY <1>1, <1>2 DEF Fits
<1> QED BY <1>6, <1>7 DEF n

\* The cache starts empty.
LEMMA CacheInitInv == CacheInit => CacheInv
<1> SUFFICES ASSUME CacheInit PROVE CacheInv
  OBVIOUS
<1>1. Cache = EmptyCache
  BY DEF CacheInit, Cache, EmptyCache
<1> QED BY <1>1, EmptyExact DEF CacheInv

\* Every step keeps its totals right.
LEMMA CacheStepInv == CacheInv /\ CacheNext => CacheInv'
<1> SUFFICES ASSUME CacheInv, CacheNext PROVE CacheInv'
  OBVIOUS
<1>1. ASSUME NEW ch \in CachedChannels, ForgetChannel(ch) PROVE CacheInv'
  <2>1. ch \in DOMAIN Cache.buffers /\ Becomes(DropChannel(Cache, ch))
    BY <1>1, CacheFields DEF ForgetChannel
  <2>2. Exact(DropChannel(Cache, ch)) /\ Fits(DropChannel(Cache, ch))
    BY <2>1, DropExact DEF CacheInv
  <2> QED BY <2>1, <2>2, BecomesExact
<1>2. ASSUME DropMessages PROVE CacheInv'
  BY <1>2, EmptyExact, BecomesExact DEF DropMessages
<1> QED BY <1>1, <1>2, CacheAdds, CacheReplaces, CacheRemoves DEF CacheNext

\* A step of another part leaves the cache alone.
LEMMA CacheStutterInv == CacheInv /\ UNCHANGED cacheVars => CacheInv'
<1> SUFFICES ASSUME CacheInv, UNCHANGED cacheVars PROVE CacheInv'
  OBVIOUS
<1>1. Cache' = Cache
  BY DEF cacheVars, Cache
<1>2. Exact(Cache') /\ Fits(Cache')
  BY <1>1 DEF CacheInv
<1> QED BY <1>2 DEF CacheInv

\* The cache's properties follow.
LEMMA CacheSafe == CacheInv => CacheTypeOK /\ TotalsExact
<1> SUFFICES ASSUME CacheInv PROVE CacheTypeOK /\ TotalsExact
  OBVIOUS
<1>1. DOMAIN buffers \subseteq CachedChannels
  BY CacheFields, BuffersAre
<1>2. CacheTypeOK
  BY <1>1, CacheFields DEF CacheTypeOK
<1>3. OnceEach(recency) /\ ToSet(recency) = DOMAIN buffers
  BY CacheFields DEF CacheInv, Exact
<1>4. Len(recency) = Cardinality(DOMAIN buffers)
  BY <1>3, CacheFields, OnceCounted
<1>5. bytes = SumOf([ch \in DOMAIN buffers |-> SizeOf(buffers[ch])])
  BY CacheFields DEF Sums
<1> QED BY <1>2, <1>3, <1>4, <1>5 DEF TotalsExact

-----------------------------------------------------------------------------
\* The parts together, as MCClient runs them: a step is of one part, and the
\* others stand still.

\* Each part's invariant, whichever part takes the steps.
ClientInv ==
  /\ part \in Parts
  /\ SessInv /\ CacheInv /\ AttachInv /\ RelayInv /\ UpdInv /\ VoiceInv /\ LoginInv /\ LifeInv /\ ConfigInv
  /\ ControlInv /\ PortInv

\* Each part's invariant holds at first.
LEMMA ClientInitInv == Init => ClientInv
<1> SUFFICES ASSUME Init PROVE ClientInv
  OBVIOUS
<1>1. /\ part \in Parts /\ SessionInit /\ CacheInit /\ AttachInit /\ RelayInit /\ UpdaterInit /\ VoiceCallsInit
      /\ CliLoginInit /\ LifecycleInit /\ ConfigInit /\ ControlInit /\ PortInit
  BY DEF Init
<1> QED BY <1>1, SessInitInv, CacheInitInv, AttachInitInv, RelayInitInv, UpdInitInv, VoiceInitInv, LoginInitInv,
           LifeInitInv, ConfigInitInv, ControlInitInv, PortInitInv DEF ClientInv

\* A step is of one part or leaves it.
LEMMA StepOfOnePart ==
  ASSUME [Next]_vars
  PROVE  /\ UNCHANGED part
         /\ (SessionNext \/ UNCHANGED sessionVars) /\ (CacheNext \/ UNCHANGED cacheVars)
         /\ (AttachNext \/ UNCHANGED attachVars) /\ (RelayNext \/ UNCHANGED relayVars)
         /\ (UpdaterNext \/ UNCHANGED updaterVars) /\ (VoiceCallsNext \/ UNCHANGED voiceCallVars)
         /\ (CliLoginNext \/ UNCHANGED loginVars) /\ (LifecycleNext \/ UNCHANGED lifecycleVars)
         /\ (ConfigNext \/ UNCHANGED configVars) /\ (ControlNext \/ UNCHANGED controlVars)
         /\ (PortNext \/ UNCHANGED portVars)
BY DEF Next, vars

\* And each is kept by the part's own steps and by everybody else's.
LEMMA ClientStepInv == ClientInv /\ [Next]_vars => ClientInv'
<1> SUFFICES ASSUME ClientInv, [Next]_vars PROVE ClientInv'
  OBVIOUS
<1>1. UNCHANGED part
  BY StepOfOnePart
<1>2. SessInv' /\ CacheInv' /\ AttachInv' /\ RelayInv'
  BY StepOfOnePart, SessStepInv, SessStutterInv, CacheStepInv, CacheStutterInv, AttachStepInv, AttachStutterInv,
     RelayStepInv, RelayStutterInv DEF ClientInv
<1>3. UpdInv' /\ VoiceInv' /\ LoginInv' /\ LifeInv'
  BY StepOfOnePart, UpdStepInv, UpdStutterInv, VoiceStepInv, VoiceStutterInv, LoginStepInv, LoginStutterInv,
     LifeStepInv, LifeStutterInv DEF ClientInv
<1>4. ConfigInv' /\ ControlInv' /\ PortInv'
  BY StepOfOnePart, ConfigStepInv, ConfigStutterInv, ControlStepInv, ControlStutterInv, PortStepInv, PortStutterInv
     DEF ClientInv
<1> QED BY <1>1, <1>2, <1>3, <1>4 DEF ClientInv

\* The inductive invariant of the client side.
THEOREM ClientInvariant == Spec => []ClientInv
<1>1. Init => ClientInv
  BY ClientInitInv
<1>2. ClientInv /\ [Next]_vars => ClientInv'
  BY ClientStepInv
<1> QED BY <1>1, <1>2, PTL DEF Spec

\* Every part of the client side stays well typed for any limits: the attach
\* server's clients and queues (Attach, enqueue), the relay's requests in flight,
\* the tries of a toggle and of a login, the places of the port for scripts.
THEOREM ClientTypeCorrect == Spec => []TypeOK
<1>1. ClientInv => TypeOK
  BY SessSafe, CacheSafe, AttachSafe, RelaySafe, UpdSafe, VoiceSafe, LifeSafe, ConfigSafe, ControlSafe
     DEF ClientInv, TypeOK, LoginInv, PortInv
<1> QED BY <1>1, ClientInvariant, PTL

\* ReplaceToken writes over no later login and brings back no logout, and Run
\* gives up no session the instance would serve, however many sign-ins, renewals,
\* crashes and failed writes there are.
THEOREM SignInsKept == Spec => []SessionKept
<1>1. ClientInv => SessionKept
  BY SessSafe DEF ClientInv, SessionKept, SessInv
<1> QED BY <1>1, ClientInvariant, PTL

\* A frame, a request sent again, a sign-in in the browser and a script's token
\* stay with the account or the instance they are of, for any number of clients,
\* requests, commands and scripts.
THEOREM EachItsOwnAccount == Spec => []OneAccountEach
<1>1. ClientInv => OneAccountEach
  BY AttachSafe, RelaySafe DEF ClientInv, OneAccountEach, LoginInv, PortInv
<1> QED BY <1>1, ClientInvariant, PTL

\* The cache's totals are what it holds after any run of enforceBudgetLocked, no
\* call that ended is left open at the instance, and the port for scripts keeps
\* its places apart and leaves nobody asleep.
THEOREM NothingStays == Spec => []NothingLeftOver
<1>1. ClientInv => NothingLeftOver
  BY CacheSafe, VoiceSafe DEF ClientInv, NothingLeftOver, PortInv
<1> QED BY <1>1, ClientInvariant, PTL

\* A watcher's view and queue end in the guilds there are, the call's status and
\* the settings on screen are those there are or are said to be old, and the file
\* and the record of the port for scripts name the port that is open.
THEOREM ClientsAreTold == Spec => []ClientsSeeWhatIs
<1>1. ClientInv => ClientsSeeWhatIs
  BY AttachSafe, VoiceSafe, ConfigSafe, ControlSafe DEF ClientInv, ClientsSeeWhatIs
<1> QED BY <1>1, ClientInvariant, PTL

\* The instance lock keeps two daemons from running at once, and a daemon past
\* its start finds every program of its own version, wherever an installation or
\* its rollback was cut short.
THEOREM OneDaemonWhole == Spec => []OneWholeDaemon
<1>1. ClientInv => OneWholeDaemon
  BY LifeSafe, UpdSafe DEF ClientInv, OneWholeDaemon
<1> QED BY <1>1, ClientInvariant, PTL

\* The service manager's stop, on Windows a kill, never ends a process that had
\* named itself to the command while it renews its session.
THEOREM RenewalNotKilled == Spec => AgreedIsNotKilled
<1> DEFINE Spared == \A k \in Commands, p \in Processes :
                       /\ command[k].at = "manager" /\ command'[k].at # "manager"
                       /\ command[k].named = p /\ process[p].renewing
                       => process'[p].renewing
<1>1. ClientInv /\ [Next]_vars => [Spared]_lifecycleVars
  <2> SUFFICES ASSUME ClientInv, [Next]_vars PROVE [Spared]_lifecycleVars
    OBVIOUS
  <2>1. LifeInv /\ (LifecycleNext \/ UNCHANGED lifecycleVars)
    BY StepOfOnePart DEF ClientInv
  <2>2. ASSUME LifecycleNext PROVE Spared
    BY <2>1, <2>2, LifeNotKilled
  <2> QED BY <2>1, <2>2
<1> HIDE DEF Spared
<1>2. ClientInv /\ [Next]_vars => [Spared]_lifecycleVars
  BY <1>1
<1>3. Spec => [][Spared]_lifecycleVars
  BY <1>2, ClientInvariant, PTL DEF Spec
<1> QED BY <1>3 DEF AgreedIsNotKilled, Spared
================================================================================
