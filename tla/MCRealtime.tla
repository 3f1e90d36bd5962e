------------------------------ MODULE MCRealtime -------------------------------
(* What reaches a connected client, checked together: the fan-out of guild    *)
(* events, voice, the ids both are ordered by, and the gateway's sockets from *)
(* the upgrade to the end of their handler.  A behaviour takes the            *)
(* steps of one of the seven modules, chosen at the start, the others staying *)
(* at an initial state.                                                       *)
EXTENDS GatewayFanout, VoiceRooms, VoiceSlots, SlotStream,
        TurnRelay, Snowflake, GatewayAdmission

VARIABLE part   \* the component whose steps this behaviour takes

Parts == {"fanout", "rooms", "slots", "stream", "relay", "ids", "admission"}

RealtimeInit ==
  /\ part \in Parts
  /\ Init
  /\ VoiceInit
  /\ SlotsInit
  /\ StreamInit
  /\ TurnInit
  /\ FlakeInit
  /\ AdmissionInit
  /\ part # "fanout" => members = {}
  /\ part # "stream" => inSlot = CHOOSE s \in Senders : TRUE

RealtimeNext ==
  \/ /\ part = "fanout" /\ Next
     /\ UNCHANGED <<part, voiceVars, slotVars, streamVars,
                    turnVars, flakeVars, admissionVars>>
  \/ /\ part = "rooms" /\ VoiceNext
     /\ UNCHANGED <<part, vars, slotVars, streamVars,
                    turnVars, flakeVars, admissionVars>>
  \/ /\ part = "slots" /\ SlotsNext
     /\ UNCHANGED <<part, vars, voiceVars, streamVars,
                    turnVars, flakeVars, admissionVars>>
  \/ /\ part = "stream" /\ StreamNext
     /\ UNCHANGED <<part, vars, voiceVars, slotVars,
                    turnVars, flakeVars, admissionVars>>
  \/ /\ part = "relay" /\ TurnNext
     /\ UNCHANGED <<part, vars, voiceVars, slotVars,
                    streamVars, flakeVars, admissionVars>>
  \/ /\ part = "ids" /\ FlakeNext
     /\ UNCHANGED <<part, vars, voiceVars, slotVars,
                    streamVars, turnVars, admissionVars>>
  \/ /\ part = "admission" /\ AdmissionNext
     /\ UNCHANGED <<part, vars, voiceVars, slotVars,
                    streamVars, turnVars, flakeVars>>

realtimeVars ==
  <<part, vars, voiceVars, slotVars, streamVars, turnVars, flakeVars, admissionVars>>

RealtimeSpec == RealtimeInit /\ [][RealtimeNext]_realtimeVars

--------------------------------------------------------------------------------
\* One account's sessions, and a lane for every guild.
OneAccount == [s \in Sess |-> CHOOSE u \in User : TRUE]
OwnLane == [g \in Guild |-> g]

\* Every peer is an account's only one.
OwnAccount(p) == p

\* Every part is well typed: in particular the bus and the lanes hold no more than
\* their queues, though publishers never wait.
RealtimeTypeOK ==
  /\ part \in Parts /\ TypeOK
  /\ VoiceTypeOK /\ SlotsTypeOK /\ StreamTypeOK /\ TurnTypeOK /\ FlakeTypeOK
  /\ AdmissionTypeOK

\* Nobody hears whom they, or the channel, excluded, from the moment the change was
\* applied; and once nothing is owed, a listener knows whose voice each slot is.
HeardAsTold == ExcludedIsNotForwarded /\ MapIsKnown

\* Everything is accounted for: no packet number is used twice within a receiver's window
\* however the slot changes hands; a relay is taken off the counts exactly once, whichever
\* of its ends closes it; a socket's slot is given back exactly once, whichever way its
\* handler ends; and a server that shuts down tells every socket it still serves.
AllAccountedFor ==
  NoNumberReused /\ RelaysCounted /\ SlotsGivenBack /\ ShutdownReachesAll

================================================================================
