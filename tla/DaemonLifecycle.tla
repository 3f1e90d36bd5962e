--------------------------- MODULE DaemonLifecycle ---------------------------
(***************************************************************************)
(* The daemon as processes: the lock one of them holds, the attach socket, *)
(* its stop by signal, by request or for an update, the program that takes *)
(* its place, the service manager that starts and restarts it, and the     *)
(* `norite daemon` commands. A process is "starting" until it has the      *)
(* lock and the socket, "up", "closing" once its run's context is done     *)
(* (the socket is closed then), "watching" the program that replaces it    *)
(* (Windows), and "ended". A renewal the instance answered and the store   *)
(* has not yet taken is what a kill would lose. The service managers are   *)
(* external; their policies are the definitions this code writes.          *)
(***************************************************************************)
EXTENDS Naturals, FiniteSets

CONSTANTS
  Commands,         \* runs of `norite daemon stop`, `restart` and `uninstall`
  MaxProcesses,     \* BOUND: processes a behaviour starts
  restartsWatched,  \* times a replacement that failed at once is started again
  NoProcess

Processes == 1 .. MaxProcesses

ASSUME LifecycleAssumption ==
  MaxProcesses \in Nat \ {0} /\ restartsWatched \in Nat /\ NoProcess \notin Processes

VARIABLES
  platform,      \* whose service manager this is
  process,       \* process -> how far it is
  instanceLock,  \* the process that holds the lock, or NoProcess
  installed,     \* is the service defined
  respawn,       \* does the manager owe a restart
  command        \* command -> how far it is

lifecycleVars == <<platform, process, instanceLock, installed, respawn, command>>

Platforms == {"systemd", "launchd", "windows"}
Verbs == {"stop", "restart", "uninstall"}
ExitCodes == {0, 1, 3, 4, 5}

Unborn ==
  [at |-> "none", managed |-> FALSE, renewing |-> FALSE, agreed |-> FALSE, stopping |-> FALSE,
   updating |-> FALSE, code |-> 0, child |-> NoProcess, tries |-> 0]

Alive(p) == process[p].at \notin {"none", "ended"}
Managed == {p \in Processes : Alive(p) /\ process[p].managed}
Running(p) == process[p].at \in {"up", "closing"}
Unused == {p \in Processes : process[p].at = "none" /\ \A q \in Processes : q < p => process[q].at # "none"}

LifecycleTypeOK ==
  /\ platform \in Platforms /\ installed \in BOOLEAN /\ respawn \in BOOLEAN
  /\ process \in [Processes -> [at : {"none", "starting", "up", "closing", "watching", "ended"},
                                managed : BOOLEAN, renewing : BOOLEAN, agreed : BOOLEAN,
                                stopping : BOOLEAN, updating : BOOLEAN, code : ExitCodes,
                                child : Processes \cup {NoProcess}, tries : 0 .. restartsWatched]]
  /\ instanceLock \in Processes \cup {NoProcess}
  /\ command \in [Commands -> [verb : Verbs, named : Processes \cup {NoProcess},
                               at : {"idle", "asked", "silence", "manager", "settling", "start", "done"}]]

LifecycleInit ==
  /\ platform \in Platforms
  /\ process = [p \in Processes |-> Unborn]
  /\ instanceLock = NoProcess
  /\ installed = FALSE
  /\ respawn = FALSE
  /\ command \in [Commands -> {[verb |-> v, named |-> NoProcess, at |-> "idle"] : v \in Verbs}]

Keep == UNCHANGED <<platform, installed, command>>

----------------------------------------------------------------------------
(* What the managers do of themselves. *)

\* systemd: Restart=on-failure, RestartPreventExitStatus=3 4.
SystemdRestarts(code) == code \notin {0, 3, 4}

\* launchd: KeepAlive with SuccessfulExit=false cannot exempt a code.
LaunchdRestarts(code) == code # 0

\* Task Scheduler sees the console host's exit, which is 0 whatever the daemon did.
WindowsRestarts(code) == FALSE

Restarts(code) ==
  CASE platform = "systemd" -> SystemdRestarts(code)
    [] platform = "launchd" -> LaunchdRestarts(code)
    [] OTHER -> WindowsRestarts(code)

\* ps with one more process, started by the manager or not.
Born(ps, p, managed) == [ps EXCEPT ![p] = [Unborn EXCEPT !.at = "starting", !.managed = managed]]

\* The process ends with a code; the lock goes with it, and a manager may owe a restart.
Ends(p, code) ==
  /\ process' = [process EXCEPT ![p] = [Unborn EXCEPT !.at = "ended", !.code = code]]
  /\ instanceLock' = IF instanceLock = p THEN NoProcess ELSE instanceLock
  /\ respawn' = (respawn \/ (process[p].managed /\ installed /\ Restarts(code)))

\* The restart a manager owes.
Respawn(p) ==
  /\ respawn /\ installed /\ Managed = {} /\ p \in Unused
  /\ process' = Born(process, p, TRUE)
  /\ respawn' = FALSE
  /\ Keep /\ UNCHANGED instanceLock

\* A daemon started by hand, or in a terminal.
StartByHand(p) ==
  /\ p \in Unused
  /\ process' = Born(process, p, FALSE)
  /\ Keep /\ UNCHANGED <<instanceLock, respawn>>

----------------------------------------------------------------------------
(* The process. *)

\* The lock is tried once: one held elsewhere is exit 3.
AcquireInstanceLock(p) ==
  /\ process[p].at = "starting" /\ instanceLock # p
  /\ IF instanceLock = NoProcess
       THEN instanceLock' = p /\ UNCHANGED <<process, respawn>>
       ELSE Ends(p, 3)
  /\ Keep

\* With the lock held the socket cannot be opened: exit 4, or 1.
ListenFails(p) ==
  /\ process[p].at = "starting" /\ instanceLock = p
  /\ \E code \in {1, 4} : Ends(p, code)
  /\ Keep

\* The components run. A signal that came during the start ends the run at once.
RunComponents(p) ==
  /\ process[p].at = "starting" /\ instanceLock = p
  /\ process' = [process EXCEPT ![p].at = IF process[p].stopping THEN "closing" ELSE "up"]
  /\ Keep /\ UNCHANGED <<instanceLock, respawn>>

\* The instance answers a renewal; storing the answer is not cut short.
RenewAnswered(p) ==
  /\ process[p].at = "up" /\ ~process[p].renewing
  /\ process' = [process EXCEPT ![p].renewing = TRUE]
  /\ Keep /\ UNCHANGED <<instanceLock, respawn>>

RenewStored(p) ==
  /\ process[p].renewing
  /\ process' = [process EXCEPT ![p].renewing = FALSE]
  /\ Keep /\ UNCHANGED <<instanceLock, respawn>>

\* ps with p's run cancelled because somebody asked.
Cancelled(ps, p) ==
  [ps EXCEPT ![p].stopping = TRUE, ![p].at = IF ps[p].at = "up" THEN "closing" ELSE ps[p].at]

\* The updater ends the run for a staged release.
RestartForUpdate(p) ==
  /\ process[p].at = "up"
  /\ process' = [process EXCEPT ![p].at = "closing", ![p].updating = TRUE]
  /\ Keep /\ UNCHANGED <<instanceLock, respawn>>

\* stopGrace after the answer the run is cancelled.
GraceOver(p) ==
  /\ process[p].agreed /\ ~process[p].stopping /\ Running(p)
  /\ process' = Cancelled(process, p)
  /\ Keep /\ UNCHANGED <<instanceLock, respawn>>

\* Every component has returned, so nothing writes: the release is installed, and the lock released.
\* The updater asks whether the daemon was told to stop before, and again after, installing.
Finish(p) ==
  /\ process[p].at = "closing" /\ ~process[p].renewing
  /\ process[p].updating => process[p].stopping
  /\ Ends(p, 0)
  /\ Keep

\* On Unix the installed program takes this process's place; the lock is released before.
StartAgainUnix(p) ==
  /\ process[p].at = "closing" /\ ~process[p].renewing
  /\ process[p].updating /\ ~process[p].stopping
  /\ platform # "windows"
  /\ \/ /\ process' = Born(process, p, process[p].managed)
        /\ instanceLock' = NoProcess
        /\ UNCHANGED respawn
     \/ Ends(p, 5)
  /\ Keep

\* On Windows it is a process of its own, which this one watches for a moment.
StartAgainWindows(p, q) ==
  /\ process[p].at = "closing" /\ ~process[p].renewing
  /\ process[p].updating /\ ~process[p].stopping
  /\ platform = "windows" /\ q \in Unused
  /\ process' = [Born(process, q, FALSE) EXCEPT
                   ![p] = [Unborn EXCEPT !.at = "watching", !.managed = process[p].managed, !.child = q]]
  /\ instanceLock' = NoProcess
  /\ Keep /\ UNCHANGED respawn

\* The program watched has failed, in a way another start may change.
FailedAtOnce(q) == process[q].at = "ended" /\ process[q].code \notin {0, 3, 4}

\* Watched long enough, or ended well: this process is done. One that failed is started again, so often.
StartAndWatch(p) ==
  /\ process[p].at = "watching"
  /\ IF ~FailedAtOnce(process[p].child)
       THEN Ends(p, 0)
       ELSE IF process[p].tries = restartsWatched
         THEN Ends(p, 5)
         ELSE \E q \in Unused :
                /\ process' = [Born(process, q, FALSE) EXCEPT ![p].child = q, ![p].tries = @ + 1]
                /\ UNCHANGED <<instanceLock, respawn>>
  /\ Keep

\* It dies where it stands; a traceback stays for the next run to find.
Crashes(p) ==
  /\ Alive(p)
  /\ Ends(p, 1)
  /\ Keep

----------------------------------------------------------------------------
(* The commands. *)

CommandTo(k, at) == command' = [command EXCEPT ![k].at = at]
Step(k, at) == CommandTo(k, at) /\ UNCHANGED <<platform, process, instanceLock, installed, respawn>>

\* restart reads the service first: only an installed one is restarted.
RestartRefused(k) ==
  /\ command[k].at = "idle" /\ command[k].verb = "restart" /\ ~installed
  /\ Step(k, "done")

MayAsk(k) == command[k].at = "idle" /\ (command[k].verb = "restart" => installed)

\* No daemon at the socket.
StopNotAsked(k) ==
  /\ MayAsk(k) /\ \A p \in Processes : process[p].at # "up"
  /\ Step(k, "manager")

\* The daemon answers with its process id, and will stop. Asked twice it answers twice.
StopRequested(k, p) ==
  /\ MayAsk(k) /\ process[p].at = "up"
  /\ process' = [process EXCEPT ![p].agreed = TRUE]
  /\ command' = [command EXCEPT ![k].at = "asked", ![k].named = p]
  /\ UNCHANGED <<platform, instanceLock, installed, respawn>>

\* The connection closes before the answer is read: the command waits for silence.
AnswerLost(k, p) ==
  /\ MayAsk(k) /\ process[p].at = "up"
  /\ process' = [process EXCEPT ![p].agreed = TRUE]
  /\ CommandTo(k, "silence")
  /\ UNCHANGED <<platform, instanceLock, installed, respawn>>

\* As the command that takes the closed socket for the process's end would.
ExitedSocket(p) == process[p].at # "up"

\* The process named is gone.
Exited(p) == process[p].at \in {"none", "ended"}

\* stopWait is over: the grace and the renewal a stop waits for are bounded well under it.
StopWaitOver(p) == ~process[p].renewing /\ ~(process[p].agreed /\ process[p].at = "up")

\* The process is gone, or is still there after stopWait.
WaitForExit(k) ==
  /\ command[k].at = "asked"
  /\ command[k].named \in {p \in Processes : Exited(p) \/ StopWaitOver(p)}
  /\ Step(k, "manager")

\* Nothing accepts at the socket, or stopWait is over.
WaitForSilence(k) ==
  /\ command[k].at = "silence"
  /\ Step(k, "manager")

After(k) == IF command[k].verb = "restart" THEN "start" ELSE "done"

NotInstalled(k) ==
  /\ command[k].at = "manager" /\ command[k].verb # "uninstall" /\ ~installed
  /\ Step(k, "done")

Manages(k) == command[k].at = "manager" /\ (command[k].verb # "uninstall" => installed)
IsUninstall(k) == command[k].verb = "uninstall"

\* ps with every managed process signalled.
Signalled(ps) ==
  [p \in Processes |-> IF p \in Managed /\ ps[p].at # "watching" THEN Cancelled(ps, p)[p] ELSE ps[p]]

\* systemctl stop: SIGTERM, no restart owed, and it waits for the process.
SystemdStop(k) ==
  /\ platform = "systemd" /\ Manages(k)
  /\ process' = Signalled(process) /\ respawn' = FALSE
  /\ CommandTo(k, "settling")
  /\ UNCHANGED <<platform, instanceLock, installed>>

SystemdSettled(k) ==
  /\ command[k].at = "settling" /\ Managed = {}
  /\ installed' = (installed /\ ~IsUninstall(k))
  /\ CommandTo(k, After(k))
  /\ UNCHANGED <<platform, process, instanceLock, respawn>>

\* launchctl kill SIGTERM: it does not wait.
LaunchdStop(k) ==
  /\ platform = "launchd" /\ Manages(k) /\ ~IsUninstall(k)
  /\ process' = Signalled(process)
  /\ CommandTo(k, After(k))
  /\ UNCHANGED <<platform, instanceLock, installed, respawn>>

\* bootout: the job is unloaded, so its process is nobody's.
BootedOut == [p \in Processes |-> [Signalled(process)[p] EXCEPT !.managed = FALSE]]

LaunchdUninstall(k) ==
  /\ platform = "launchd" /\ Manages(k) /\ IsUninstall(k)
  /\ process' = BootedOut /\ installed' = FALSE /\ respawn' = FALSE
  /\ CommandTo(k, "done")
  /\ UNCHANGED <<platform, instanceLock>>

\* schtasks /End: the task's process ends where it stands.
WindowsEnd ==
  /\ process' = [p \in Processes |->
                   IF p \in Managed THEN [Unborn EXCEPT !.at = "ended", !.code = 1] ELSE process[p]]
  /\ instanceLock' = IF instanceLock \in Managed THEN NoProcess ELSE instanceLock

WindowsStop(k) ==
  /\ platform = "windows" /\ Manages(k) /\ ~IsUninstall(k)
  /\ WindowsEnd
  /\ CommandTo(k, After(k))
  /\ UNCHANGED <<platform, installed, respawn>>

WindowsUninstall(k) ==
  /\ platform = "windows" /\ Manages(k) /\ IsUninstall(k)
  /\ WindowsEnd
  /\ installed' = FALSE /\ respawn' = FALSE
  /\ CommandTo(k, "done")
  /\ UNCHANGED platform

\* Every manager ignores a start of what it already runs.
Starts(ps) ==
  IF Managed # {} THEN process' = ps
  ELSE \E p \in Unused : process' = Born(ps, p, TRUE)

RestartStarts(k) ==
  /\ command[k].at = "start"
  /\ IF installed THEN Starts(process) ELSE UNCHANGED process
  /\ CommandTo(k, "done")
  /\ UNCHANGED <<platform, instanceLock, installed, respawn>>

\* `norite daemon start`, and every login to the machine.
StartService ==
  /\ installed /\ Managed = {} /\ Starts(process)
  /\ respawn' = FALSE
  /\ Keep /\ UNCHANGED instanceLock

\* install enables the unit, or registers the task, and starts nothing.
SystemdInstall ==
  /\ platform = "systemd" /\ ~installed /\ installed' = TRUE
  /\ UNCHANGED <<platform, process, instanceLock, respawn, command>>

WindowsInstall ==
  /\ platform = "windows" /\ ~installed /\ installed' = TRUE
  /\ UNCHANGED <<platform, process, instanceLock, respawn, command>>

\* launchd's loads the agent anew, and RunAtLoad starts it.
LaunchdInstall ==
  /\ platform = "launchd"
  /\ installed' = TRUE /\ respawn' = FALSE
  /\ \E p \in Unused : process' = Born(BootedOut, p, TRUE)
  /\ UNCHANGED <<platform, instanceLock, command>>

\* What the socket and the manager say together.
Standing ==
  IF (\E p \in Processes : process[p].at = "up") \/ (installed /\ Managed # {}) THEN "running"
  ELSE IF installed THEN "stopped" ELSE "absent"

\* Setting the daemon up: installed, and started where installing does not.
InstallAndStart ==
  /\ platform # "launchd"
  /\ installed' = TRUE
  /\ Starts(process)
  /\ UNCHANGED <<platform, instanceLock, respawn, command>>

\* The offer at the end of a login, accepted.
DaemonAfterSignIn ==
  \/ Standing = "stopped" /\ StartService
  \/ Standing = "absent" /\ (InstallAndStart \/ LaunchdInstall)

----------------------------------------------------------------------------
ProcessNext ==
  \E p \in Processes :
    \/ Respawn(p) \/ StartByHand(p) \/ AcquireInstanceLock(p) \/ ListenFails(p) \/ RunComponents(p)
    \/ RenewAnswered(p) \/ RenewStored(p) \/ RestartForUpdate(p) \/ GraceOver(p) \/ Finish(p)
    \/ StartAgainUnix(p) \/ (\E q \in Processes : StartAgainWindows(p, q)) \/ StartAndWatch(p) \/ Crashes(p)

CommandNext ==
  \E k \in Commands :
    \/ RestartRefused(k) \/ StopNotAsked(k) \/ (\E p \in Processes : StopRequested(k, p) \/ AnswerLost(k, p))
    \/ WaitForExit(k) \/ WaitForSilence(k) \/ NotInstalled(k)
    \/ SystemdStop(k) \/ SystemdSettled(k) \/ LaunchdStop(k) \/ LaunchdUninstall(k)
    \/ WindowsStop(k) \/ WindowsUninstall(k) \/ RestartStarts(k)

LifecycleNext ==
  ProcessNext \/ CommandNext \/ StartService \/ SystemdInstall \/ WindowsInstall \/ LaunchdInstall
  \/ DaemonAfterSignIn

LifecycleSpec == LifecycleInit /\ [][LifecycleNext]_lifecycleVars

----------------------------------------------------------------------------
\* However a daemon was started, and while another is being stopped, replaced or restarted, no two have
\* their components running: one may be storing a renewal the other would present again.
OneDaemon == \A p, q \in Processes : Running(p) /\ Running(q) => p = q

\* The manager's stop never ends a process, mid-renewal, that had named itself to the command: the command
\* waits for it first. On Windows that stop is a kill.
AgreedIsNotKilled ==
  [][\A k \in Commands, p \in Processes :
       /\ command[k].at = "manager" /\ command'[k].at # "manager"
       /\ command[k].named = p /\ process[p].renewing
       => process'[p].renewing]_lifecycleVars

\* "A daemon told to stop stops": one that answered a stop request does not start again by itself.
ToldToStopStops ==
  [][\A p \in Processes : process[p].agreed => process'[p].at \notin {"starting", "watching"}]_lifecycleVars
=============================================================================
