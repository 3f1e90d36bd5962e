------------------------------- MODULE MCClient --------------------------------
(* The client side, checked together: a behaviour takes the steps of one of   *)
(* its eleven parts, chosen at the start, the others staying at an initial    *)
(* state.                                                                     *)
EXTENDS DaemonSession, DaemonCache, AttachServer, RelayRequests,
        Updater, VoiceCalls, CliLogin, DaemonLifecycle,
        ConfigFiles, Automation

VARIABLE part   \* the component whose steps this behaviour takes

Parts == {"session", "cache", "attach", "relay", "updater", "calls", "login", "lifecycle",
          "config", "control", "scripts"}

Init ==
  /\ part \in Parts
  /\ SessionInit
  /\ CacheInit
  /\ AttachInit
  /\ RelayInit
  /\ UpdaterInit
  /\ VoiceCallsInit
  /\ CliLoginInit
  /\ LifecycleInit
  /\ ConfigInit
  /\ ControlInit
  /\ PortInit
  /\ part # "lifecycle" => platform = "systemd" /\ \A k \in Commands : command[k].verb = "stop"
  /\ part # "control" => portState = Silent /\ portFile = 0 /\ signedInTo = CHOOSE i \in HomeInstances : TRUE
  /\ part # "scripts" => signedInAt = EnabledFor

Next ==
  \/ /\ part = "session" /\ SessionNext
     /\ UNCHANGED <<part, cacheVars, attachVars, relayVars, updaterVars, voiceCallVars,
                    loginVars, lifecycleVars, configVars, controlVars, portVars>>
  \/ /\ part = "cache" /\ CacheNext
     /\ UNCHANGED <<part, sessionVars, attachVars, relayVars, updaterVars, voiceCallVars,
                    loginVars, lifecycleVars, configVars, controlVars, portVars>>
  \/ /\ part = "attach" /\ AttachNext
     /\ UNCHANGED <<part, sessionVars, cacheVars, relayVars, updaterVars, voiceCallVars,
                    loginVars, lifecycleVars, configVars, controlVars, portVars>>
  \/ /\ part = "relay" /\ RelayNext
     /\ UNCHANGED <<part, sessionVars, cacheVars, attachVars, updaterVars, voiceCallVars,
                    loginVars, lifecycleVars, configVars, controlVars, portVars>>
  \/ /\ part = "updater" /\ UpdaterNext
     /\ UNCHANGED <<part, sessionVars, cacheVars, attachVars, relayVars, voiceCallVars,
                    loginVars, lifecycleVars, configVars, controlVars, portVars>>
  \/ /\ part = "calls" /\ VoiceCallsNext
     /\ UNCHANGED <<part, sessionVars, cacheVars, attachVars, relayVars, updaterVars,
                    loginVars, lifecycleVars, configVars, controlVars, portVars>>
  \/ /\ part = "login" /\ CliLoginNext
     /\ UNCHANGED <<part, sessionVars, cacheVars, attachVars, relayVars, updaterVars,
                    voiceCallVars, lifecycleVars, configVars, controlVars, portVars>>
  \/ /\ part = "lifecycle" /\ LifecycleNext
     /\ UNCHANGED <<part, sessionVars, cacheVars, attachVars, relayVars, updaterVars,
                    voiceCallVars, loginVars, configVars, controlVars, portVars>>
  \/ /\ part = "config" /\ ConfigNext
     /\ UNCHANGED <<part, sessionVars, cacheVars, attachVars, relayVars, updaterVars,
                    voiceCallVars, loginVars, lifecycleVars, controlVars, portVars>>
  \/ /\ part = "control" /\ ControlNext
     /\ UNCHANGED <<part, sessionVars, cacheVars, attachVars, relayVars, updaterVars,
                    voiceCallVars, loginVars, lifecycleVars, configVars, portVars>>
  \/ /\ part = "scripts" /\ PortNext
     /\ UNCHANGED <<part, sessionVars, cacheVars, attachVars, relayVars, updaterVars,
                    voiceCallVars, loginVars, lifecycleVars, configVars, controlVars>>

vars == <<part, sessionVars, cacheVars, attachVars, relayVars, updaterVars,
          voiceCallVars, loginVars, lifecycleVars, configVars, controlVars, portVars>>

Spec == Init /\ [][Next]_vars

--------------------------------------------------------------------------------
\* Every part is well typed: the attach server never holds more clients than its
\* limit, nor a queue more frames than its own.
TypeOK ==
  /\ part \in Parts
  /\ SessionTypeOK /\ CacheTypeOK /\ AttachTypeOK /\ RelayTypeOK /\ UpdaterTypeOK
  /\ VoiceCallsTypeOK /\ CliLoginTypeOK /\ LifecycleTypeOK /\ ConfigTypeOK
  /\ ControlTypeOK /\ PortTypeOK

\* A sign-in is neither lost nor brought back: the store holds what the last person
\* to sign in or out left there, renewed or not, and the daemon gives up no session
\* the instance would still serve, whatever failed or stopped between two writes.
SessionKept == NoSessionAbandoned /\ StoreIsTheLastSignIns

\* Nothing meant for one account reaches another: a client's frames, a request sent
\* again with a newer token, a sign-in another command began on the machine, a script's
\* token when the sign-in moves to another instance.
OneAccountEach == OneAccountPerClient /\ OneAccountPerRequest /\ OwnSignIn /\ TokenStaysHome

\* Nothing is left over: the cache's running totals are what it holds, a call that ended
\* here was ended at the instance too, connections that present nothing take no script's
\* place, and none sleeps on when the port for scripts ends.
NothingLeftOver == TotalsExact /\ NoCallUnended /\ PlacesKeptApart /\ NobodySleepsOn

\* What a client was told is what is so: of the state it watches, of the call, of the
\* settings file changed under it, of a setting it wrote, and of the port for scripts,
\* by its file and by its record.
ClientsSeeWhatIs ==
  WatcherInStep /\ ToldIsStatus /\ StaleIsTold /\ SetIsRead /\ FileNamesThePort /\ PortAsRecorded

\* One daemon runs at a time across crashes, updates and restarts, and past its
\* start it runs in an installation whose programs are all of its version.
OneWholeDaemon == OneDaemon /\ InstalledWhole
================================================================================
