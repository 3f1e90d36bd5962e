------------------------------ MODULE CliLogin ------------------------------
(***************************************************************************)
(* `norite login`: by password, through a browser that comes back to a     *)
(* loopback port, or with a code approved on another device; then the      *)
(* second factor when the account has one, and the stored credential.      *)
(* Several runs share a machine, its ports, its browser and its store. A   *)
(* browser keeps every address it was sent to, and may load one again.     *)
(* The instance is external, and only answers.                             *)
(***************************************************************************)
EXTENDS Naturals, FiniteSets

CONSTANTS
  Runs,              \* runs of the command
  NoRun,
  loopbackPorts,     \* the ports a browser may come back to
  NoPort,
  maxFactorAttempts, \* codes one may type
  pollBackoff,       \* what "slow_down" adds to the interval
  maxPollInterval,   \* and how far
  Interval, Lifetime \* of the code, as the instance says

ASSUME CliLoginAssumption ==
  /\ NoRun \notin Runs /\ NoPort \notin loopbackPorts
  /\ {maxFactorAttempts, pollBackoff, maxPollInterval, Interval} \subseteq Nat \ {0} /\ Lifetime \in Nat

VARIABLES
  run,          \* run -> how far it is
  visited,      \* the addresses a browser was sent to: a port, and whose code
  spentCodes,   \* runs whose code was exchanged
  deviceFile,   \* the run whose device id the machine has, or NoRun
  savedBy,      \* the run that stored the credential, or NoRun
  savedFlow     \* and the flow its session came from

loginVars == <<run, visited, spentCodes, deviceFile, savedBy, savedFlow>>

Modes == {"password", "oauth", "device"}
LoginStages == {"idle", "prepared", "waiting", "code", "polling", "owes", "paired", "saved", "failed"}

\* callback: whose code the browser brought. flow: whose flow the session is from.
Unstarted == [at |-> "idle", mode |-> "password", device |-> NoRun, port |-> NoPort, callback |-> NoRun,
              tries |-> 0, interval |-> 0, waited |-> 0, flow |-> NoRun]

CliLoginInit ==
  /\ run = [r \in Runs |-> Unstarted] /\ visited = {} /\ spentCodes = {}
  /\ deviceFile = NoRun /\ savedBy = NoRun /\ savedFlow = NoRun

Is(r, stage) == run[r].at = stage
LoginTo(r, stage) == run' = [run EXCEPT ![r].at = stage, ![r].port = NoPort]
Outside == UNCHANGED <<visited, spentCodes, deviceFile, savedBy, savedFlow>>

\* The instance's answer to a sign-in: the tokens, or the second factor first.
SignedIn(r, flow) ==
  \E stage \in {"paired", "owes"} :
    run' = [run EXCEPT ![r].at = stage, ![r].flow = flow, ![r].port = NoPort, ![r].callback = NoRun]

\* An error, a refusal, or Ctrl-C. Close gives the port back.
Fail(r) ==
  /\ run[r].at \notin {"idle", "saved", "failed"} /\ LoginTo(r, "failed") /\ Outside

-----------------------------------------------------------------------------
(* prepare.                                                                *)

\* A machine has one device id, made once, behind the store's lock.
Prepare(r, mode) ==
  /\ Is(r, "idle") /\ deviceFile' = IF deviceFile = NoRun THEN r ELSE deviceFile
  /\ run' = [run EXCEPT ![r].at = "prepared", ![r].mode = mode, ![r].device = deviceFile']
  /\ UNCHANGED <<visited, spentCodes, savedBy, savedFlow>>

\* A provider asked for where no browser can be reached becomes a code.
ChooseDeviceCode(r) ==
  /\ Is(r, "prepared") /\ run[r].mode = "oauth" /\ run' = [run EXCEPT ![r].mode = "device"] /\ Outside

SignInWithPassword(r) == Is(r, "prepared") /\ run[r].mode = "password" /\ SignedIn(r, r) /\ Outside

-----------------------------------------------------------------------------
(* Through a browser.                                                      *)

Taken == {run[r].port : r \in Runs}

ListenLoopback(r, port) ==
  /\ Is(r, "prepared") /\ run[r].mode = "oauth" /\ port \notin Taken
  /\ run' = [run EXCEPT ![r].at = "waiting", ![r].port = port] /\ Outside

AllPortsBusy(r) ==
  /\ Is(r, "prepared") /\ run[r].mode = "oauth" /\ loopbackPorts \subseteq Taken
  /\ LoginTo(r, "failed") /\ Outside

\* The provider done, the instance sends the browser to the run's port with its flow's code.
Redirect(r) ==
  /\ Is(r, "waiting") /\ visited' = visited \cup {[port |-> run[r].port, code |-> r]}
  /\ UNCHANGED <<run, spentCodes, deviceFile, savedBy, savedFlow>>

\* handle, behind its once: the first address loaded on the port is the result, whichever flow's it is.
Callback(r) ==
  /\ Is(r, "waiting")
  /\ \E v \in visited :
       /\ v.port = run[r].port
       /\ run' = [run EXCEPT ![r].at = "code", ![r].callback = v.code]
  /\ Outside

\* The code is the flow's whose verifier comes with it, and was not exchanged before.
Exchangeable(r) == run[r].callback \notin spentCodes /\ run[r].callback = r

ExchangeOAuth(r) ==
  /\ Is(r, "code")
  /\ IF Exchangeable(r) THEN SignedIn(r, run[r].callback) /\ spentCodes' = spentCodes \cup {run[r].callback}
                        ELSE LoginTo(r, "failed") /\ UNCHANGED spentCodes
  /\ UNCHANGED <<visited, deviceFile, savedBy, savedFlow>>

-----------------------------------------------------------------------------
(* With a code on another device.                                          *)

IntervalOf == IF Interval < maxPollInterval THEN Interval ELSE maxPollInterval

StartDeviceCode(r) ==
  /\ Is(r, "prepared") /\ run[r].mode = "device"
  /\ run' = [run EXCEPT ![r].at = "polling", ![r].interval = IntervalOf] /\ Outside

SlowerBy(interval) ==
  IF interval + pollBackoff < maxPollInterval THEN interval + pollBackoff ELSE maxPollInterval

\* Sleep, ask, and ask again until the code has had its time.
PollPending(r, slower) ==
  /\ Is(r, "polling")
  /\ LET waited == run[r].waited + run[r].interval
     IN  run' = [run EXCEPT ![r].waited = waited,
                            ![r].at = IF waited > Lifetime THEN "failed" ELSE "polling",
                            ![r].interval = IF slower THEN SlowerBy(@) ELSE @]
  /\ Outside

PollApproved(r) ==
  /\ Is(r, "polling") /\ run' = [run EXCEPT ![r].at = "paired", ![r].flow = r] /\ Outside

-----------------------------------------------------------------------------
(* The second factor, and the store.                                       *)

\* An empty line counts as a try, and is not sent.
WrongFactor(r) ==
  /\ Is(r, "owes")
  /\ run' = [run EXCEPT ![r].tries = @ + 1,
                        ![r].at = IF run[r].tries + 1 = maxFactorAttempts THEN "failed" ELSE "owes"]
  /\ Outside

RightFactor(r) == Is(r, "owes") /\ run' = [run EXCEPT ![r].at = "paired"] /\ Outside

FinishLogin(r) ==
  /\ Is(r, "paired") /\ savedBy' = r /\ savedFlow' = run[r].flow
  /\ run' = [run EXCEPT ![r].at = "saved"] /\ UNCHANGED <<visited, spentCodes, deviceFile>>

CliLoginNext ==
  \E r \in Runs :
    \/ \E mode \in Modes : Prepare(r, mode)
    \/ \E port \in loopbackPorts : ListenLoopback(r, port)
    \/ \E slower \in BOOLEAN : PollPending(r, slower)
    \/ ChooseDeviceCode(r) \/ SignInWithPassword(r) \/ AllPortsBusy(r) \/ Redirect(r) \/ Callback(r)
    \/ ExchangeOAuth(r) \/ StartDeviceCode(r) \/ PollApproved(r)
    \/ WrongFactor(r) \/ RightFactor(r) \/ FinishLogin(r) \/ Fail(r)

CliLoginSpec == CliLoginInit /\ [][CliLoginNext]_loginVars

-----------------------------------------------------------------------------
CliLoginTypeOK ==
  /\ visited \subseteq [port : loopbackPorts, code : Runs] /\ spentCodes \subseteq Runs
  /\ {deviceFile, savedBy, savedFlow} \subseteq Runs \cup {NoRun}
  /\ \A r \in Runs :
       /\ run[r].at \in LoginStages /\ run[r].mode \in Modes /\ run[r].port \in loopbackPorts \cup {NoPort}
       /\ run[r].tries \in 0..maxFactorAttempts /\ run[r].interval \in 0..maxPollInterval
       /\ run[r].waited <= Lifetime + maxPollInterval

\* A run stores only the session of the sign-in it started itself, though the browser may load the address of
\* an earlier run that had the same port (handle, loopback.go:133; the verifier, oauth.go:99), and every run
\* signs the machine in under the one device id (DeviceID, credentials.go:514).
OwnSignIn ==
  /\ savedFlow = savedBy
  /\ \A r \in Runs : run[r].device \in {NoRun, deviceFile}
=============================================================================
