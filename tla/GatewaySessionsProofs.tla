----------------------- MODULE GatewaySessionsProofs -----------------------
(***************************************************************************)
(* What GatewaySessions guarantees for every number of connections,        *)
(* sessions, devices and sign-ins.                                         *)
(***************************************************************************)
EXTENDS GatewaySessions, FiniteSetTheorems, TLAPS

\* The labels at which a goroutine works on the session at[a].
Working == {"attach", "live", "ready", "resume", "take", "drop", "stop", "expire"}

\* Goroutines hold only sessions that were registered at some time; only those
\* have a timer or have ended.
HoldsUsed ==
  /\ \A a \in Actor : pc[a] \in Working => at[a] \in used
  /\ \A a \in Actor : todo[a] \subseteq used
  /\ \A c \in Conn : csess[c] \in used \cup {None}
  /\ expiry \cup ended \subseteq used

\* A session is out of the map before any goroutine stops it.
StoppedAreOut ==
  /\ \A a \in Actor : pc[a] = "stop" => at[a] \notin sessions
  /\ \A c \in Conn : todo[c] \cap sessions = {}

IndInv == TypeOK /\ HoldsUsed /\ StoppedAreOut /\ RegisteredIsIndexed

\* Init satisfies the inductive invariant.
LEMMA InitIndInv == Init => IndInv
<1> SUFFICES ASSUME Init PROVE IndInv
  OBVIOUS
<1> USE RegistryAssumption DEF Init
<1>1. TypeOK
  <2>1. pc \in [Actor -> Label] /\ shut \in BOOLEAN
    BY DEF Label, Actor
  <2>2. minted \in 0..MaxSignIn /\ signIn \in [Sess -> 0..MaxSignIn]
    BY DEF Init
  <2>3. token \in [Conn -> 0..MaxSignIn] /\ perUser \in Int
    BY DEF Init
  <2>4. QED
    BY <2>1, <2>2, <2>3 DEF TypeOK
<1>2. HoldsUsed /\ StoppedAreOut /\ RegisteredIsIndexed
  BY DEF HoldsUsed, StoppedAreOut, RegisteredIsIndexed, Working, Actor
<1> QED BY <1>1, <1>2 DEF IndInv

\* Every step keeps every variable in its type (TypeOK), for the goroutines'
\* session arguments are always registered ones.
LEMMA TypeStep == IndInv /\ [Next]_vars => TypeOK'
<1> SUFFICES ASSUME TypeOK, HoldsUsed, [Next]_vars PROVE TypeOK'
  BY DEF IndInv
<1> USE RegistryAssumption DEF TypeOK, db, registry, fields, sockets, control, Goto
<1>1. ASSUME SignInAgain PROVE TypeOK'
  <2>1. minted + 1 \in SignIns /\ minted + 1 \in 1..(MaxSignIn + 1)
    BY <1>1 DEF SignInAgain, SignIns
  <2>2. live' \subseteq live \cup {minted + 1}
    BY <1>1 DEF SignInAgain
  <2>3. [before |-> minted + 1, devices |-> {DeviceOf[minted + 1]}] \in Revocation
    BY <2>1 DEF Revocation, SignIns
  <2>4. bus' \subseteq Revocation
    BY <1>1, <2>3 DEF SignInAgain
  <2>5. minted' \in 0..MaxSignIn
    BY <1>1 DEF SignInAgain
  <2>6. QED
    BY <1>1, <2>1, <2>2, <2>4, <2>5 DEF SignInAgain
<1>2. ASSUME NEW D \in SUBSET Device, SignOut(D) PROVE TypeOK'
  <2>1. live' \subseteq live
    BY <1>2 DEF SignOut
  <2>2. [before |-> minted + 1, devices |-> D] \in Revocation
    BY DEF Revocation
  <2>3. bus' \subseteq Revocation
    BY <1>2, <2>2 DEF SignOut
  <2>4. QED
    BY <1>2, <2>1, <2>3 DEF SignOut
<1>3. ASSUME NEW r \in bus, LoseRevocation(r) PROVE TypeOK'
  BY <1>3 DEF LoseRevocation
<1>4. ASSUME NEW c \in Conn, Track(c) PROVE TypeOK'
  BY <1>4 DEF Track, Actor, Label
<1>5. ASSUME NEW c \in Conn, NEW k \in SignIns, NEW s \in Sess, NewSession(c, k, s) PROVE TypeOK'
  <2>1. c \in Actor /\ DeviceOf[k] \in Device /\ k \in 0..MaxSignIn
    BY DEF Actor, SignIns
  <2>2. Superseded(DeviceOf[k]) \subseteq idx
    BY DEF Superseded
  <2>3. IsFiniteSet(Superseded(DeviceOf[k]))
    BY <2>2, FS_Subset
  <2>4. perUser - Cardinality(Superseded(DeviceOf[k])) \in Int
    BY <2>3, FS_CardinalityType
  <2>5. /\ sessions' \subseteq used' /\ idx' \subseteq used' /\ used' \subseteq Sess
        /\ perUser' \in Int
    BY <1>5, <2>2, <2>4 DEF NewSession
  <2>6. todo' \in [Actor -> SUBSET Sess] /\ token' \in [Conn -> 0..MaxSignIn]
    BY <1>5, <2>1, <2>2 DEF NewSession
  <2>7. /\ pc' \in [Actor -> Label] /\ at' \in [Actor -> Sess \cup {None}]
        /\ signIn' \in [Sess -> 0..MaxSignIn] /\ device' \in [Sess -> Device \cup {None}]
    <3>1. CASE pc' = [pc EXCEPT ![c] = "refuse"] /\ UNCHANGED <<signIn, device, at>>
      BY <2>1, <3>1 DEF Label
    <3>2. CASE /\ pc' = [pc EXCEPT ![c] = "attach"] /\ at' = [at EXCEPT ![c] = s]
               /\ signIn' = [signIn EXCEPT ![s] = k]
               /\ device' = [device EXCEPT ![s] = DeviceOf[k]]
      BY <2>1, <3>2 DEF Label
    <3>3. QED
      BY <1>5, <3>1, <3>2 DEF NewSession
  <2>8. QED
    BY <1>5, <2>5, <2>6, <2>7 DEF NewSession
<1>6. ASSUME NEW c \in Conn, NEW k \in SignIns, NEW s \in Sess, LookupSession(c, k, s) PROVE TypeOK'
  BY <1>6 DEF LookupSession, Actor, Label, SignIns
<1>7. ASSUME NEW c \in Conn, NEW s \in Sess, StopSuperseded(c, s) PROVE TypeOK'
  BY <1>7 DEF StopSuperseded, Stop, Actor
<1>8. ASSUME NEW c \in Conn, Refuse(c) \/ CheckLive(c) PROVE TypeOK'
  <2>1. CASE Refuse(c)
    BY <2>1 DEF Refuse, Actor, Label
  <2>2. CASE CheckLive(c)
    <3>1. pc' \in [Actor -> Label]
      <4>1. CASE token[c] \in live
        BY <2>2, <4>1 DEF CheckLive, Label, Actor
      <4>2. CASE ~(token[c] \in live)
        BY <2>2, <4>2 DEF CheckLive, Label, Actor
      <4>3. QED
        BY <4>1, <4>2
    <3>2. open' \subseteq Conn
      BY <2>2 DEF CheckLive
    <3>3. QED
      BY <2>2, <3>1, <3>2 DEF CheckLive
  <2>3. QED
    BY <1>8, <2>1, <2>2
<1>9. ASSUME NEW c \in Conn, Attach(c) PROVE TypeOK'
  BY <1>9 DEF Attach, Actor, Label, HoldsUsed, Working
<1>10. ASSUME NEW c \in Conn, BecomeReady(c) PROVE TypeOK'
  <2>1. c \in Actor /\ at[c] \in Sess
    BY <1>10 DEF BecomeReady, Actor, HoldsUsed, Working
  <2>2. pc' \in [Actor -> Label] /\ at' \in [Actor -> Sess \cup {None}]
    BY <1>10, <2>1 DEF BecomeReady, Label
  <2>3. ready' \subseteq Sess /\ open' \subseteq Conn
    BY <1>10, <2>1 DEF BecomeReady
  <2>4. QED
    BY <1>10, <2>2, <2>3 DEF BecomeReady
<1>11. ASSUME NEW c \in Conn, ResumeAttach(c) PROVE TypeOK'
  BY <1>11 DEF ResumeAttach, Actor, Label, HoldsUsed, Working
<1>12. ASSUME NEW c \in Conn, ResumeRefused(c) PROVE TypeOK'
  BY <1>12 DEF ResumeRefused, Actor, Label
<1>13. ASSUME NEW c \in Conn, Heartbeat(c) PROVE TypeOK'
  BY <1>13 DEF Heartbeat, Actor, Label
<1>14. ASSUME NEW c \in Conn, Exit(c) PROVE TypeOK'
  <2>1. CASE csess[c] # None /\ sconn[csess[c]] = c
    <3>1. csess[c] \in Sess
      BY <2>1
    <3>2. sconn' = [sconn EXCEPT ![csess[c]] = None] /\ expiry' \subseteq Sess
      BY <1>14, <2>1, <3>1 DEF Exit
    <3>3. pc' \in [Actor -> Label]
      BY <1>14 DEF Exit, Actor, Label
    <3>4. QED
      BY <1>14, <3>2, <3>3 DEF Exit
  <2>2. CASE ~(csess[c] # None /\ sconn[csess[c]] = c)
    BY <1>14, <2>2 DEF Exit, Actor, Label
  <2>3. QED
    BY <2>1, <2>2
<1>15. ASSUME NEW c \in Conn, Disconnect(c) \/ CloseLands(c) PROVE TypeOK'
  BY <1>15 DEF Disconnect, CloseLands
<1>16. ASSUME NEW s \in Sess, TimerFires(s) \/ ExpireSession(s) PROVE TypeOK'
  <2>1. CASE TimerFires(s)
    BY <2>1 DEF TimerFires, Actor, Label
  <2>2. CASE ExpireSession(s)
    <3>1. pc' \in [Actor -> Label]
      <4>1. CASE sconn[s] = None
        BY <2>2, <4>1 DEF ExpireSession, Label, Actor
      <4>2. CASE ~(sconn[s] = None)
        BY <2>2, <4>2 DEF ExpireSession, Label, Actor
      <4>3. QED
        BY <4>1, <4>2
    <3>2. at' \in [Actor -> Sess \cup {None}]
      BY <2>2 DEF ExpireSession
    <3>3. QED
      BY <2>2, <3>1, <3>2 DEF ExpireSession
  <2>3. QED
    BY <1>16, <2>1, <2>2
<1>17. ASSUME NEW r \in bus, OnRevocation(r) PROVE TypeOK'
  BY <1>17 DEF OnRevocation, Actor
<1>18. ASSUME NEW s \in Sess, RevokeNext(s) \/ ShutdownDrop(s) PROVE TypeOK'
  BY <1>18 DEF RevokeNext, ShutdownDrop, Actor, Label
<1>19. ASSUME Shutdown \/ ShutdownCollect PROVE TypeOK'
  <2>1. CASE Shutdown
    BY <2>1, Zenon DEF Shutdown
  <2>2. CASE ShutdownCollect
    BY <2>2 DEF ShutdownCollect, Actor, Label
  <2>3. QED
    BY <1>19, <2>1, <2>2
<1>20. ASSUME NEW a \in Actor, TakeConn(a) PROVE TypeOK'
  BY <1>20 DEF TakeConn, Label, HoldsUsed, Working
<1>21. ASSUME NEW a \in Actor, DropFromMap(a) PROVE TypeOK'
  BY <1>21 DEF DropFromMap, Label
<1>22. ASSUME NEW a \in Actor, StopDropped(a) PROVE TypeOK'
  <2>1. at[a] \in Sess /\ Return(a) \in Label
    BY <1>22 DEF StopDropped, HoldsUsed, Working, Return, Label
  <2>2. pc' \in [Actor -> Label] /\ at' \in [Actor -> Sess \cup {None}]
    BY <1>22, <2>1 DEF StopDropped
  <2>3. expiry' \subseteq Sess /\ idx' \subseteq used /\ ended' \subseteq Sess
    BY <1>22, <2>1 DEF StopDropped, Stop
  <2>4. taken' \in [Actor -> Conn \cup {None}] /\ closing' \subseteq Conn
    BY <1>22 DEF StopDropped
  <2>5. QED
    BY <1>22, <2>2, <2>3, <2>4 DEF StopDropped
<1>23. ASSUME UNCHANGED vars PROVE TypeOK'
  BY <1>23 DEF vars
<1>24. QED
  BY <1>1, <1>2, <1>3, <1>4, <1>5, <1>6, <1>7, <1>8, <1>9, <1>10, <1>11, <1>12, <1>13,
     <1>14, <1>15, <1>16, <1>17, <1>18, <1>19, <1>20, <1>21, <1>22, <1>23
     DEF Next, Accounts, Serve, Internal

\* Goroutines only ever pick up sessions that were registered.
LEMMA HoldsUsedStep == IndInv /\ [Next]_vars => HoldsUsed'
<1> SUFFICES ASSUME TypeOK, HoldsUsed, [Next]_vars PROVE HoldsUsed'
  BY DEF IndInv
<1> USE RegistryAssumption DEF HoldsUsed, Working, TypeOK, db, registry, fields, sockets, control, Goto, Actor
<1>1. ASSUME SignInAgain PROVE HoldsUsed'
  BY <1>1 DEF SignInAgain
<1>2. ASSUME NEW D \in SUBSET Device, SignOut(D) PROVE HoldsUsed'
  BY <1>2 DEF SignOut
<1>3. ASSUME NEW r \in bus, LoseRevocation(r) PROVE HoldsUsed'
  BY <1>3 DEF LoseRevocation
<1>4. ASSUME NEW c \in Conn, Track(c) PROVE HoldsUsed'
  BY <1>4 DEF Track
<1>5. ASSUME NEW c \in Conn, NEW k \in SignIns, NEW s \in Sess, NewSession(c, k, s) PROVE HoldsUsed'
  <2>1. Superseded(DeviceOf[k]) \subseteq idx
    BY DEF Superseded
  <2>2. CASE pc' = [pc EXCEPT ![c] = "refuse"]
    BY <1>5, <2>1, <2>2 DEF NewSession
  <2>3. CASE pc' = [pc EXCEPT ![c] = "attach"]
    BY <1>5, <2>1, <2>3 DEF NewSession
  <2>4. QED
    BY <1>5, <2>2, <2>3 DEF NewSession
<1>6. ASSUME NEW c \in Conn, NEW k \in SignIns, NEW s \in Sess, LookupSession(c, k, s) PROVE HoldsUsed'
  BY <1>6 DEF LookupSession
<1>7. ASSUME NEW c \in Conn, NEW s \in Sess, StopSuperseded(c, s) PROVE HoldsUsed'
  BY <1>7 DEF StopSuperseded, Stop
<1>8. ASSUME NEW c \in Conn, Refuse(c) PROVE HoldsUsed'
  BY <1>8 DEF Refuse
<1>9. ASSUME NEW c \in Conn, CheckLive(c) PROVE HoldsUsed'
  BY <1>9 DEF CheckLive
<1>10. ASSUME NEW c \in Conn, Attach(c) PROVE HoldsUsed'
  BY <1>10 DEF Attach
<1>11. ASSUME NEW c \in Conn, BecomeReady(c) PROVE HoldsUsed'
  <2>1. CASE pc' = [pc EXCEPT ![c] = "drop"]
    BY <1>11, <2>1 DEF BecomeReady
  <2>2. CASE pc' # [pc EXCEPT ![c] = "drop"]
    BY <1>11, <2>2 DEF BecomeReady
  <2>3. QED
    BY <2>1, <2>2
<1>12. ASSUME NEW c \in Conn, ResumeAttach(c) PROVE HoldsUsed'
  BY <1>12 DEF ResumeAttach
<1>13. ASSUME NEW c \in Conn, ResumeRefused(c) PROVE HoldsUsed'
  <2>1. CASE pc' = [pc EXCEPT ![c] = "drop"]
    BY <1>13, <2>1 DEF ResumeRefused
  <2>2. CASE pc' = [pc EXCEPT ![c] = "idle"]
    BY <1>13, <2>2 DEF ResumeRefused
  <2>3. CASE pc' = [pc EXCEPT ![c] = "exit"]
    BY <1>13, <2>3 DEF ResumeRefused
  <2>4. QED
    BY <1>13, <2>1, <2>2, <2>3 DEF ResumeRefused
<1>14. ASSUME NEW c \in Conn, Heartbeat(c) PROVE HoldsUsed'
  BY <1>14 DEF Heartbeat
<1>15. ASSUME NEW c \in Conn, Exit(c) PROVE HoldsUsed'
  BY <1>15 DEF Exit
<1>16. ASSUME NEW c \in Conn, Disconnect(c) \/ CloseLands(c) PROVE HoldsUsed'
  BY <1>16 DEF Disconnect, CloseLands
<1>17. ASSUME NEW s \in Sess, TimerFires(s) PROVE HoldsUsed'
  BY <1>17 DEF TimerFires
<1>18. ASSUME NEW s \in Sess, ExpireSession(s) PROVE HoldsUsed'
  BY <1>18 DEF ExpireSession
<1>19. ASSUME NEW r \in bus, OnRevocation(r) PROVE HoldsUsed'
  BY <1>19 DEF OnRevocation
<1>20. ASSUME NEW s \in Sess, RevokeNext(s) PROVE HoldsUsed'
  BY <1>20 DEF RevokeNext
<1>21. ASSUME NEW s \in Sess, ShutdownDrop(s) PROVE HoldsUsed'
  BY <1>21 DEF ShutdownDrop
<1>22. ASSUME Shutdown PROVE HoldsUsed'
  BY <1>22 DEF Shutdown
<1>23. ASSUME ShutdownCollect PROVE HoldsUsed'
  BY <1>23 DEF ShutdownCollect
<1>24. ASSUME NEW a \in Actor, TakeConn(a) PROVE HoldsUsed'
  BY <1>24 DEF TakeConn
<1>25. ASSUME NEW a \in Actor, DropFromMap(a) PROVE HoldsUsed'
  BY <1>25 DEF DropFromMap
<1>26. ASSUME NEW a \in Actor, StopDropped(a) PROVE HoldsUsed'
  BY <1>26 DEF StopDropped, Stop, Return
<1>27. ASSUME UNCHANGED vars PROVE HoldsUsed'
  BY <1>27 DEF vars
<1> HIDE DEF HoldsUsed, Working, TypeOK, Actor
<1>28. QED
  BY <1>1, <1>2, <1>3, <1>4, <1>5, <1>6, <1>7, <1>8, <1>9, <1>10, <1>11, <1>12, <1>13,
     <1>14, <1>15, <1>16, <1>17, <1>18, <1>19, <1>20, <1>21, <1>22, <1>23, <1>24,
     <1>25, <1>26, <1>27
     DEF Next, Accounts, Serve, Internal

\* Whatever order droppers run in, a session leaves the map before it is stopped,
\* and a fresh id never puts it back.
LEMMA StoppedAreOutStep == IndInv /\ [Next]_vars => StoppedAreOut'
<1> SUFFICES ASSUME TypeOK, HoldsUsed, StoppedAreOut, [Next]_vars PROVE StoppedAreOut'
  BY DEF IndInv
<1> USE RegistryAssumption DEF HoldsUsed, Working, StoppedAreOut, TypeOK, db, registry, fields, sockets, control, Goto, Actor
<1>1. ASSUME SignInAgain PROVE StoppedAreOut'
  BY <1>1 DEF SignInAgain
<1>2. ASSUME NEW D \in SUBSET Device, SignOut(D) PROVE StoppedAreOut'
  BY <1>2 DEF SignOut
<1>3. ASSUME NEW r \in bus, LoseRevocation(r) PROVE StoppedAreOut'
  BY <1>3 DEF LoseRevocation
<1>4. ASSUME NEW c \in Conn, Track(c) PROVE StoppedAreOut'
  BY <1>4 DEF Track
<1>5. ASSUME NEW c \in Conn, NEW k \in SignIns, NEW s \in Sess, NewSession(c, k, s) PROVE StoppedAreOut'
  <2>1. Superseded(DeviceOf[k]) \subseteq idx
    BY DEF Superseded
  <2>2. CASE pc' = [pc EXCEPT ![c] = "refuse"]
    BY <1>5, <2>1, <2>2 DEF NewSession
  <2>3. CASE pc' = [pc EXCEPT ![c] = "attach"]
    BY <1>5, <2>1, <2>3 DEF NewSession
  <2>4. QED
    BY <1>5, <2>2, <2>3 DEF NewSession
<1>6. ASSUME NEW c \in Conn, NEW k \in SignIns, NEW s \in Sess, LookupSession(c, k, s) PROVE StoppedAreOut'
  BY <1>6 DEF LookupSession
<1>7. ASSUME NEW c \in Conn, NEW s \in Sess, StopSuperseded(c, s) PROVE StoppedAreOut'
  BY <1>7 DEF StopSuperseded, Stop
<1>8. ASSUME NEW c \in Conn, Refuse(c) PROVE StoppedAreOut'
  BY <1>8 DEF Refuse
<1>9. ASSUME NEW c \in Conn, CheckLive(c) PROVE StoppedAreOut'
  BY <1>9 DEF CheckLive
<1>10. ASSUME NEW c \in Conn, Attach(c) PROVE StoppedAreOut'
  BY <1>10 DEF Attach
<1>11. ASSUME NEW c \in Conn, BecomeReady(c) PROVE StoppedAreOut'
  BY <1>11 DEF BecomeReady
<1>12. ASSUME NEW c \in Conn, ResumeAttach(c) PROVE StoppedAreOut'
  BY <1>12 DEF ResumeAttach
<1>13. ASSUME NEW c \in Conn, ResumeRefused(c) PROVE StoppedAreOut'
  <2>1. CASE pc' = [pc EXCEPT ![c] = "drop"]
    BY <1>13, <2>1 DEF ResumeRefused
  <2>2. CASE pc' = [pc EXCEPT ![c] = "idle"]
    BY <1>13, <2>2 DEF ResumeRefused
  <2>3. CASE pc' = [pc EXCEPT ![c] = "exit"]
    BY <1>13, <2>3 DEF ResumeRefused
  <2>4. QED
    BY <1>13, <2>1, <2>2, <2>3 DEF ResumeRefused
<1>14. ASSUME NEW c \in Conn, Heartbeat(c) PROVE StoppedAreOut'
  BY <1>14 DEF Heartbeat
<1>15. ASSUME NEW c \in Conn, Exit(c) PROVE StoppedAreOut'
  BY <1>15 DEF Exit
<1>16. ASSUME NEW c \in Conn, Disconnect(c) \/ CloseLands(c) PROVE StoppedAreOut'
  BY <1>16 DEF Disconnect, CloseLands
<1>17. ASSUME NEW s \in Sess, TimerFires(s) PROVE StoppedAreOut'
  BY <1>17 DEF TimerFires
<1>18. ASSUME NEW s \in Sess, ExpireSession(s) PROVE StoppedAreOut'
  <2>1. CASE sconn[s] = None
    BY <1>18, <2>1 DEF ExpireSession
  <2>2. CASE sconn[s] # None
    BY <1>18, <2>2 DEF ExpireSession
  <2>3. QED
    BY <2>1, <2>2
<1>19. ASSUME NEW r \in bus, OnRevocation(r) PROVE StoppedAreOut'
  BY <1>19 DEF OnRevocation
<1>20. ASSUME NEW s \in Sess, RevokeNext(s) PROVE StoppedAreOut'
  BY <1>20 DEF RevokeNext
<1>21. ASSUME NEW s \in Sess, ShutdownDrop(s) PROVE StoppedAreOut'
  BY <1>21 DEF ShutdownDrop
<1>22. ASSUME Shutdown PROVE StoppedAreOut'
  BY <1>22 DEF Shutdown
<1>23. ASSUME ShutdownCollect PROVE StoppedAreOut'
  BY <1>23 DEF ShutdownCollect
<1>24. ASSUME NEW a \in Actor, TakeConn(a) PROVE StoppedAreOut'
  BY <1>24 DEF TakeConn
<1>25. ASSUME NEW a \in Actor, DropFromMap(a) PROVE StoppedAreOut'
  BY <1>25 DEF DropFromMap
<1>26. ASSUME NEW a \in Actor, StopDropped(a) PROVE StoppedAreOut'
  BY <1>26 DEF StopDropped, Stop, Return
<1>27. ASSUME UNCHANGED vars PROVE StoppedAreOut'
  BY <1>27 DEF vars
<1> HIDE DEF StoppedAreOut, Working, TypeOK, Actor
<1>28. QED
  BY <1>1, <1>2, <1>3, <1>4, <1>5, <1>6, <1>7, <1>8, <1>9, <1>10, <1>11, <1>12, <1>13,
     <1>14, <1>15, <1>16, <1>17, <1>18, <1>19, <1>20, <1>21, <1>22, <1>23, <1>24,
     <1>25, <1>26, <1>27
     DEF Next, Accounts, Serve, Internal

\* The index keeps every session of the map, and no session that ended.
LEMMA RegisteredStep == IndInv /\ [Next]_vars => RegisteredIsIndexed'
<1> SUFFICES ASSUME TypeOK, HoldsUsed, StoppedAreOut, RegisteredIsIndexed, [Next]_vars PROVE RegisteredIsIndexed'
  BY DEF IndInv
<1> USE RegistryAssumption DEF HoldsUsed, Working, StoppedAreOut, RegisteredIsIndexed, TypeOK, db, registry, fields, sockets, control, Goto, Actor
<1>1. ASSUME SignInAgain PROVE RegisteredIsIndexed'
  BY <1>1 DEF SignInAgain
<1>2. ASSUME NEW D \in SUBSET Device, SignOut(D) PROVE RegisteredIsIndexed'
  BY <1>2 DEF SignOut
<1>3. ASSUME NEW r \in bus, LoseRevocation(r) PROVE RegisteredIsIndexed'
  BY <1>3 DEF LoseRevocation
<1>4. ASSUME NEW c \in Conn, Track(c) PROVE RegisteredIsIndexed'
  BY <1>4 DEF Track
<1>5. ASSUME NEW c \in Conn, NEW k \in SignIns, NEW s \in Sess, NewSession(c, k, s) PROVE RegisteredIsIndexed'
  BY <1>5 DEF NewSession
<1>6. ASSUME NEW c \in Conn, NEW k \in SignIns, NEW s \in Sess, LookupSession(c, k, s) PROVE RegisteredIsIndexed'
  BY <1>6 DEF LookupSession
<1>7. ASSUME NEW c \in Conn, NEW s \in Sess, StopSuperseded(c, s) PROVE RegisteredIsIndexed'
  BY <1>7 DEF StopSuperseded, Stop
<1>8. ASSUME NEW c \in Conn, Refuse(c) PROVE RegisteredIsIndexed'
  BY <1>8 DEF Refuse
<1>9. ASSUME NEW c \in Conn, CheckLive(c) PROVE RegisteredIsIndexed'
  BY <1>9 DEF CheckLive
<1>10. ASSUME NEW c \in Conn, Attach(c) PROVE RegisteredIsIndexed'
  BY <1>10 DEF Attach
<1>11. ASSUME NEW c \in Conn, BecomeReady(c) PROVE RegisteredIsIndexed'
  BY <1>11 DEF BecomeReady
<1>12. ASSUME NEW c \in Conn, ResumeAttach(c) PROVE RegisteredIsIndexed'
  BY <1>12 DEF ResumeAttach
<1>13. ASSUME NEW c \in Conn, ResumeRefused(c) PROVE RegisteredIsIndexed'
  BY <1>13 DEF ResumeRefused
<1>14. ASSUME NEW c \in Conn, Heartbeat(c) PROVE RegisteredIsIndexed'
  BY <1>14 DEF Heartbeat
<1>15. ASSUME NEW c \in Conn, Exit(c) PROVE RegisteredIsIndexed'
  BY <1>15 DEF Exit
<1>16. ASSUME NEW c \in Conn, Disconnect(c) \/ CloseLands(c) PROVE RegisteredIsIndexed'
  BY <1>16 DEF Disconnect, CloseLands
<1>17. ASSUME NEW s \in Sess, TimerFires(s) PROVE RegisteredIsIndexed'
  BY <1>17 DEF TimerFires
<1>18. ASSUME NEW s \in Sess, ExpireSession(s) PROVE RegisteredIsIndexed'
  BY <1>18 DEF ExpireSession
<1>19. ASSUME NEW r \in bus, OnRevocation(r) PROVE RegisteredIsIndexed'
  BY <1>19 DEF OnRevocation
<1>20. ASSUME NEW s \in Sess, RevokeNext(s) PROVE RegisteredIsIndexed'
  BY <1>20 DEF RevokeNext
<1>21. ASSUME NEW s \in Sess, ShutdownDrop(s) PROVE RegisteredIsIndexed'
  BY <1>21 DEF ShutdownDrop
<1>22. ASSUME Shutdown PROVE RegisteredIsIndexed'
  BY <1>22 DEF Shutdown
<1>23. ASSUME ShutdownCollect PROVE RegisteredIsIndexed'
  BY <1>23 DEF ShutdownCollect
<1>24. ASSUME NEW a \in Actor, TakeConn(a) PROVE RegisteredIsIndexed'
  BY <1>24 DEF TakeConn
<1>25. ASSUME NEW a \in Actor, DropFromMap(a) PROVE RegisteredIsIndexed'
  BY <1>25 DEF DropFromMap
<1>26. ASSUME NEW a \in Actor, StopDropped(a) PROVE RegisteredIsIndexed'
  BY <1>26 DEF StopDropped, Stop, Return
<1>27. ASSUME UNCHANGED vars PROVE RegisteredIsIndexed'
  BY <1>27 DEF vars
<1>28. QED
  BY <1>1, <1>2, <1>3, <1>4, <1>5, <1>6, <1>7, <1>8, <1>9, <1>10, <1>11, <1>12, <1>13,
     <1>14, <1>15, <1>16, <1>17, <1>18, <1>19, <1>20, <1>21, <1>22, <1>23, <1>24,
     <1>25, <1>26, <1>27
     DEF Next, Accounts, Serve, Internal

\* The inductive invariant holds in every reachable state.
LEMMA IndInvHolds == Spec => []IndInv
<1>1. IndInv /\ [Next]_vars => IndInv'
  BY TypeStep, HoldsUsedStep, StoppedAreOutStep, RegisteredStep DEF IndInv
<1>2. QED
  BY InitIndInv, <1>1, PTL DEF Spec

\* The registry is well typed in every reachable state (TypeOK), whatever the
\* interleaving of serve loops, expiry callbacks, revocations and Shutdown.
THEOREM TypeCorrect == Spec => []TypeOK
<1>1. IndInv => TypeOK
  BY DEF IndInv
<1>2. QED
  BY IndInvHolds, <1>1, PTL

\* However the paths that drop a session race, the map of sessions never holds one
\* that fan-out and revocations cannot find, nor one that ended
\* (gateway.go newSession, dropSession; session.go stop).
THEOREM RegistryIsConsistent == Spec => []RegisteredIsIndexed
<1>1. IndInv => RegisteredIsIndexed
  BY DEF IndInv
<1>2. QED
  BY IndInvHolds, <1>1, PTL

\* Taking a set T out of S lowers its size by at most T's.
LEMMA RemovedAtMost ==
  ASSUME NEW S, NEW T, IsFiniteSet(S), IsFiniteSet(T)
  PROVE  /\ IsFiniteSet(S \ T) /\ Cardinality(S \ T) \in Nat
         /\ Cardinality(S) - Cardinality(T) <= Cardinality(S \ T)
<1>1. IsFiniteSet(S \ T) /\ Cardinality(S \ T) = Cardinality(S) - Cardinality(S \cap T)
  BY FS_Difference
<1>2. Cardinality(S \cap T) <= Cardinality(T) /\ IsFiniteSet(S \cap T)
  BY FS_Subset
<1>3. /\ Cardinality(S) \in Nat /\ Cardinality(T) \in Nat
      /\ Cardinality(S \cap T) \in Nat /\ Cardinality(S \ T) \in Nat
  BY <1>1, <1>2, FS_CardinalityType
<1>4. QED
  BY <1>1, <1>2, <1>3

\* Every step keeps the account's counter at or below the sessions it holds: a
\* path that takes a session out of the map lowers the counter, perhaps twice,
\* and only newSession raises it, by one, for the session it adds.
LEMMA SlotsStep == IndInv /\ SlotsNotLeaked /\ [Next]_vars => SlotsNotLeaked'
<1> SUFFICES ASSUME TypeOK, HoldsUsed, SlotsNotLeaked, [Next]_vars PROVE SlotsNotLeaked'
  BY DEF IndInv
<1>0. IsFiniteSet(sessions) /\ Cardinality(sessions) \in Nat /\ perUser \in Int
  BY RegistryAssumption, FS_Subset, FS_CardinalityType DEF TypeOK
<1>1. CASE UNCHANGED <<sessions, perUser>>
  BY <1>1 DEF SlotsNotLeaked
<1>2. ASSUME NEW a \in Actor, DropFromMap(a) PROVE SlotsNotLeaked'
  <2>1. CASE at[a] \in sessions
    <3>1. Cardinality(sessions') = Cardinality(sessions) - 1
      BY <1>0, <1>2, <2>1, FS_RemoveElement DEF DropFromMap
    <3>2. Cardinality(sessions') \in Nat
      BY <1>0, <1>2, <2>1, FS_RemoveElement, FS_CardinalityType DEF DropFromMap
    <3>3. QED
      BY <1>0, <1>2, <2>1, <3>1, <3>2 DEF DropFromMap, SlotsNotLeaked
  <2>2. CASE at[a] \notin sessions
    BY <1>2, <2>2 DEF DropFromMap, SlotsNotLeaked
  <2>3. QED
    BY <2>1, <2>2
<1>3. ASSUME NEW c \in Conn, NEW k \in SignIns, NEW s \in Sess, NewSession(c, k, s)
      PROVE SlotsNotLeaked'
  <2> DEFINE sup == Superseded(DeviceOf[k])
  <2>1. IsFiniteSet(sup) /\ Cardinality(sup) \in Nat
    BY RegistryAssumption, FS_Subset, FS_CardinalityType DEF Superseded, TypeOK
  <2>2. /\ IsFiniteSet(sessions \ sup) /\ Cardinality(sessions \ sup) \in Nat
        /\ Cardinality(sessions) - Cardinality(sup) <= Cardinality(sessions \ sup)
    BY <1>0, <2>1, RemovedAtMost
  <2>3. perUser - Cardinality(sup) <= Cardinality(sessions \ sup)
    BY <1>0, <2>1, <2>2 DEF SlotsNotLeaked
  <2>4. CASE sessions' = sessions \ sup /\ perUser' = perUser - Cardinality(sup)
    BY <2>3, <2>4 DEF SlotsNotLeaked
  <2>5. CASE sessions' = (sessions \ sup) \cup {s} /\ perUser' = perUser - Cardinality(sup) + 1
    <3>1. s \notin sessions \ sup
      BY <1>3 DEF NewSession, TypeOK
    <3>2. Cardinality(sessions') = Cardinality(sessions \ sup) + 1
      BY <2>2, <2>5, <3>1, FS_AddElement
    <3>3. QED
      BY <1>0, <2>1, <2>2, <2>3, <2>5, <3>2 DEF SlotsNotLeaked
  <2>6. QED
    BY <1>3, <2>4, <2>5 DEF NewSession
<1>4. ASSUME ~UNCHANGED <<sessions, perUser>>
      PROVE  \/ \E a \in Actor : DropFromMap(a)
             \/ \E c \in Conn, k \in SignIns, s \in Sess : NewSession(c, k, s)
  BY <1>4 DEF Next, Accounts, Serve, Internal, vars, registry, SignInAgain, SignOut,
     LoseRevocation, Track, LookupSession, StopSuperseded, Refuse, Attach, CheckLive,
     BecomeReady, ResumeAttach, ResumeRefused, Heartbeat, Exit, Disconnect, CloseLands,
     TimerFires, ExpireSession, OnRevocation, RevokeNext, ShutdownDrop, Shutdown,
     ShutdownCollect, TakeConn, StopDropped
<1>5. QED
  BY <1>1, <1>2, <1>3, <1>4

\* An account is never refused a session while it holds fewer than the limit: the
\* counter newSession compares with maxConnectionsPerAccount never exceeds the
\* sessions registered, whichever paths raced to end the earlier ones.
THEOREM NoSlotIsLeaked == Spec => []SlotsNotLeaked
<1>1. Init => SlotsNotLeaked
  BY FS_EmptySet DEF Init, SlotsNotLeaked
<1>2. QED
  BY IndInvHolds, <1>1, SlotsStep, PTL DEF Spec

\* Whatever interleaving of registering, resuming, dropping, expiring, revoking and shutting down,
\* the session map, the index and the account's counter agree (newSession, dropSession).
THEOREM RegistryAlwaysAgrees == Spec => []RegistryAgrees
<1>1. RegisteredIsIndexed /\ SlotsNotLeaked => RegistryAgrees
  BY DEF RegistryAgrees
<1>2. QED
  BY RegistryIsConsistent, NoSlotIsLeaked, <1>1, PTL

----------------------------------------------------------------------------
(* Sign-outs.                                                              *)

\* A sign-in, a session and the connection that opens or resumes it are of one
\* device, and no sign-in is from the future.
OneDeviceEach ==
  /\ live \subseteq 1..minted
  /\ \A s \in used : signIn[s] \in 1..minted /\ DeviceOf[signIn[s]] = device[s]
  /\ \A c \in Conn : pc[c] \in {"attach", "live", "resume"} =>
       token[c] \in 1..minted /\ DeviceOf[token[c]] = device[at[c]]

\* The labels at which a goroutine is about to end the session at[a], or to ask
\* whether it must.
Ending == {"take", "drop", "attach", "live"}

\* What will still end session s on whichever sign-in of its device it runs: a
\* RESUME moves a session between sign-ins, which Covered depends on.
CoveredForAll(s) ==
  \/ \E r \in bus \cup lost :
       device[s] \in r.devices /\ \A j \in 1..minted : DeviceOf[j] = device[s] => j < r.before
  \/ s \in todo[Bus]
  \/ \E a \in Actor : at[a] = s /\ pc[a] \in Ending
  \/ shut

SignedOut(s) == \A k \in live : DeviceOf[k] # device[s]

GapInv == OneDeviceEach /\ \A s \in sessions : SignedOut(s) => CoveredForAll(s)


\* At first there are no sign-ins and no sessions.
LEMMA GapInit == Init => GapInv
BY RegistryAssumption DEF Init, GapInv, OneDeviceEach, Actor

\* A session stays with its device: IDENTIFY takes it from the sign-in, and RESUME
\* refuses a token of another device.
LEMMA OneDeviceStep == IndInv /\ OneDeviceEach /\ [Next]_vars => OneDeviceEach'
<1> SUFFICES ASSUME TypeOK, HoldsUsed, OneDeviceEach, [Next]_vars PROVE OneDeviceEach'
  BY DEF IndInv
<1> USE RegistryAssumption DEF OneDeviceEach, HoldsUsed, Working, TypeOK, db, registry, fields, sockets, control, Goto, Actor
<1>1. ASSUME SignInAgain PROVE OneDeviceEach'
  <2>1. minted' = minted + 1 /\ minted \in Nat /\ 1..minted \subseteq 1..minted' /\ minted + 1 \in 1..minted'
    BY <1>1 DEF SignInAgain
  <2>2. live' \subseteq 1..minted'
    BY <1>1, <2>1 DEF SignInAgain
  <2>3. UNCHANGED <<used, signIn, device, pc, token, at>>
    BY <1>1 DEF SignInAgain
  <2> QED BY <2>1, <2>2, <2>3
<1>2. ASSUME NEW D \in SUBSET Device, SignOut(D) PROVE OneDeviceEach'
  BY <1>2 DEF SignOut
<1>3. ASSUME NEW r \in bus, LoseRevocation(r) PROVE OneDeviceEach'
  BY <1>3 DEF LoseRevocation
<1>4. ASSUME NEW c \in Conn, Track(c) PROVE OneDeviceEach'
  BY <1>4 DEF Track
<1>5. ASSUME NEW c \in Conn, NEW k \in SignIns, NEW s \in Sess, NewSession(c, k, s) PROVE OneDeviceEach'
  <2>1. k \in 1..minted /\ UNCHANGED <<minted, live>> /\ token' = [token EXCEPT ![c] = k] /\ s \notin used
    BY <1>5 DEF NewSession, SignIns
  <2>2. CASE Goto(c, "refuse") /\ UNCHANGED <<used, signIn, device, at>>
    BY <2>1, <2>2
  <2>3. CASE /\ used' = used \cup {s} /\ signIn' = [signIn EXCEPT ![s] = k]
             /\ device' = [device EXCEPT ![s] = DeviceOf[k]] /\ at' = [at EXCEPT ![c] = s] /\ Goto(c, "attach")
    <3>1. \A o \in used' : signIn'[o] \in 1..minted' /\ DeviceOf[signIn'[o]] = device'[o]
      BY <2>1, <2>3
    <3>2. ASSUME NEW d \in Conn, pc'[d] \in {"attach", "live", "resume"}
          PROVE  token'[d] \in 1..minted' /\ DeviceOf[token'[d]] = device'[at'[d]]
      BY <2>1, <2>3, <3>2
    <3> QED BY <2>1, <3>1, <3>2
  <2> QED BY <1>5, <2>2, <2>3 DEF NewSession
<1>6. ASSUME NEW c \in Conn, NEW k \in SignIns, NEW s \in Sess, LookupSession(c, k, s) PROVE OneDeviceEach'
  BY <1>6 DEF LookupSession
<1>7. ASSUME NEW c \in Conn, NEW s \in Sess, StopSuperseded(c, s) PROVE OneDeviceEach'
  BY <1>7 DEF StopSuperseded, Stop
<1>8. ASSUME NEW c \in Conn, Refuse(c) PROVE OneDeviceEach'
  BY <1>8 DEF Refuse
<1>9. ASSUME NEW c \in Conn, CheckLive(c) PROVE OneDeviceEach'
  BY <1>9 DEF CheckLive
<1>10. ASSUME NEW c \in Conn, Attach(c) PROVE OneDeviceEach'
  BY <1>10 DEF Attach
<1>11. ASSUME NEW c \in Conn, BecomeReady(c) PROVE OneDeviceEach'
  BY <1>11 DEF BecomeReady
<1>12. ASSUME NEW c \in Conn, ResumeAttach(c) PROVE OneDeviceEach'
  BY <1>12 DEF ResumeAttach
<1>13. ASSUME NEW c \in Conn, ResumeRefused(c) PROVE OneDeviceEach'
  BY <1>13 DEF ResumeRefused
<1>14. ASSUME NEW c \in Conn, Heartbeat(c) PROVE OneDeviceEach'
  BY <1>14 DEF Heartbeat, Reading
<1>15. ASSUME NEW c \in Conn, Exit(c) PROVE OneDeviceEach'
  BY <1>15 DEF Exit
<1>16. ASSUME NEW c \in Conn, Disconnect(c) \/ CloseLands(c) PROVE OneDeviceEach'
  BY <1>16 DEF Disconnect, CloseLands
<1>17. ASSUME NEW s \in Sess, TimerFires(s) PROVE OneDeviceEach'
  BY <1>17 DEF TimerFires
<1>18. ASSUME NEW s \in Sess, ExpireSession(s) PROVE OneDeviceEach'
  BY <1>18 DEF ExpireSession
<1>19. ASSUME NEW r \in bus, OnRevocation(r) PROVE OneDeviceEach'
  BY <1>19 DEF OnRevocation
<1>20. ASSUME NEW s \in Sess, RevokeNext(s) PROVE OneDeviceEach'
  BY <1>20 DEF RevokeNext
<1>21. ASSUME NEW s \in Sess, ShutdownDrop(s) PROVE OneDeviceEach'
  BY <1>21 DEF ShutdownDrop
<1>22. ASSUME Shutdown PROVE OneDeviceEach'
  BY <1>22 DEF Shutdown
<1>23. ASSUME ShutdownCollect PROVE OneDeviceEach'
  BY <1>23 DEF ShutdownCollect
<1>24. ASSUME NEW a \in Actor, TakeConn(a) PROVE OneDeviceEach'
  BY <1>24 DEF TakeConn
<1>25. ASSUME NEW a \in Actor, DropFromMap(a) PROVE OneDeviceEach'
  BY <1>25 DEF DropFromMap
<1>26. ASSUME NEW a \in Actor, StopDropped(a) PROVE OneDeviceEach'
  BY <1>26 DEF StopDropped, Stop, Return
<1>27. ASSUME UNCHANGED vars PROVE OneDeviceEach'
  BY <1>27 DEF vars
<1> HIDE DEF OneDeviceEach, HoldsUsed, Working, TypeOK, Actor
<1> QED
  BY <1>1, <1>2, <1>3, <1>4, <1>5, <1>6, <1>7, <1>8, <1>9, <1>10, <1>11, <1>12, <1>13,
     <1>14, <1>15, <1>16, <1>17, <1>18, <1>19, <1>20, <1>21, <1>22, <1>23, <1>24, <1>25,
     <1>26, <1>27
     DEF Next, Accounts, Serve, Internal

\* Nothing that a session's end depends on changes, but what b does; and b does
\* not turn away from ending x.
Calm(b) ==
  /\ UNCHANGED <<minted, live, bus, lost, shut>> /\ todo'[Bus] = todo[Bus]
  /\ \A a \in Actor \ {b} : pc'[a] = pc[a] /\ at'[a] = at[a]
Kept(b, x) ==
  device'[x] = device[x] /\ (at[b] = x /\ pc[b] \in Ending => at'[b] = x /\ pc'[b] \in Ending)

\* Then x is covered as before.
LEMMA GapOther ==
  ASSUME NEW b \in Actor, NEW x \in sessions, SignedOut(x) => CoveredForAll(x), Calm(b), Kept(b, x)
  PROVE  SignedOut(x)' => CoveredForAll(x)'
BY DEF Calm, Kept, SignedOut, CoveredForAll

\* So it is when nothing changes but where a revocation is.
LEMMA GapStays ==
  ASSUME NEW x \in sessions, SignedOut(x) => CoveredForAll(x),
         UNCHANGED <<minted, live, shut, device, pc, at>>, todo'[Bus] = todo[Bus], bus' \cup lost' = bus \cup lost
  PROVE  SignedOut(x)' => CoveredForAll(x)'
BY DEF SignedOut, CoveredForAll

\* Every step leaves what ends a signed-out device's sessions in place, or brings
\* the session one step nearer to its end.
LEMMA GapStep == IndInv /\ GapInv /\ [Next]_vars => GapInv'
<1> SUFFICES ASSUME TypeOK, HoldsUsed, RegisteredIsIndexed, OneDeviceEach, [Next]_vars, IndInv, GapInv
             PROVE  \A x \in sessions' : SignedOut(x)' => CoveredForAll(x)'
  BY OneDeviceStep DEF IndInv, GapInv
<1>s. \A x \in sessions : SignedOut(x) => CoveredForAll(x)
  BY DEF GapInv
<1> USE RegistryAssumption DEF Calm, Kept, Ending, TypeOK, db, registry, fields, sockets, control, Goto, Actor
<1>1. ASSUME SignInAgain
      PROVE \A x \in sessions' : SignedOut(x)' => CoveredForAll(x)'
  <2>1. UNCHANGED <<shut, device, todo, pc, at, sessions, lost>> /\ bus \subseteq bus' /\ minted' = minted + 1
    BY <1>1 DEF SignInAgain
  <2>2. /\ \A j \in live : DeviceOf[j] # DeviceOf[minted + 1] => j \in live'
        /\ minted + 1 \in live'
    BY <1>1 DEF SignInAgain
  <2>3. ASSUME NEW x \in sessions', SignedOut(x)' PROVE CoveredForAll(x)'
    <3>1. DeviceOf[minted + 1] # device[x] /\ SignedOut(x)
      BY <2>1, <2>2, <2>3 DEF SignedOut
    <3>2. CoveredForAll(x)
      BY <1>s, <2>1, <3>1
    <3>3. ASSUME NEW r \in bus \cup lost, device[x] \in r.devices,
                 \A j \in 1..minted : DeviceOf[j] = device[x] => j < r.before
          PROVE  \A j \in 1..minted' : DeviceOf[j] = device'[x] => j < r.before
      <4>1. minted \in Nat /\ \A j \in 1..minted' : j \in 1..minted \/ j = minted + 1
        BY <2>1
      <4> QED BY <2>1, <3>1, <3>3, <4>1
    <3> QED BY <2>1, <3>2, <3>3 DEF CoveredForAll
  <2> QED BY <2>3
<1>2. ASSUME NEW D \in SUBSET Device, SignOut(D)
      PROVE \A x \in sessions' : SignedOut(x)' => CoveredForAll(x)'
  <2> DEFINE r == [before |-> minted + 1, devices |-> D]
  <2>1. UNCHANGED <<shut, device, todo, pc, at, sessions, lost, minted>> /\ bus' = bus \cup {r}
    BY <1>2 DEF SignOut
  <2>2. live' = {j \in live : DeviceOf[j] \notin D}
    BY <1>2 DEF SignOut
  <2>3. r.before = minted + 1 /\ r.devices = D /\ r \in bus' \cup lost'
    BY <2>1
  <2> HIDE DEF r
  <2>4. ASSUME NEW x \in sessions', SignedOut(x)' PROVE CoveredForAll(x)'
    <3>1. CASE SignedOut(x)
      <4>1. CoveredForAll(x)
        BY <1>s, <2>1, <3>1
      <4> QED BY <2>1, <4>1 DEF CoveredForAll
    <3>2. CASE ~SignedOut(x)
      <4>1. device[x] \in D
        BY <2>1, <2>2, <2>4, <3>2 DEF SignedOut
      <4>2. \A j \in 1..minted' : j < r.before
        BY <2>1, <2>3
      <4> QED BY <2>1, <2>3, <4>1, <4>2 DEF CoveredForAll
    <3> QED BY <3>1, <3>2
  <2> QED BY <2>4
<1>3. ASSUME NEW r \in bus, LoseRevocation(r)
      PROVE \A x \in sessions' : SignedOut(x)' => CoveredForAll(x)'
  <2>1. UNCHANGED <<minted, live, shut, device, todo, pc, at, sessions>> /\ bus' \cup lost' = bus \cup lost
    BY <1>3 DEF LoseRevocation
  <2> QED BY <1>s, <2>1, GapStays
<1>4. ASSUME NEW c \in Conn, Track(c)
      PROVE \A x \in sessions' : SignedOut(x)' => CoveredForAll(x)'
  <2>1. Calm(c) /\ sessions' = sessions /\ \A x \in sessions : Kept(c, x)
    BY <1>4 DEF Track
  <2> QED BY <1>s, <2>1, GapOther
<1>5. ASSUME NEW c \in Conn, NEW k \in SignIns, NEW s \in Sess, NewSession(c, k, s)
      PROVE \A x \in sessions' : SignedOut(x)' => CoveredForAll(x)'
  <2>0. c \in Actor /\ c # Bus /\ UNCHANGED <<minted, live, bus, lost, shut>> /\ todo'[Bus] = todo[Bus] /\ s \notin used
    BY <1>5 DEF NewSession, Actor
  <2>1. CASE Goto(c, "refuse") /\ sessions' \subseteq sessions /\ UNCHANGED <<device, at>>
    <3>1. Calm(c) /\ \A x \in sessions : Kept(c, x)
      BY <1>5, <2>0, <2>1 DEF NewSession, Reading
    <3> QED BY <1>s, <2>1, <3>1, GapOther
  <2>2. CASE /\ sessions' \subseteq sessions \cup {s} /\ device' = [device EXCEPT ![s] = DeviceOf[k]]
             /\ at' = [at EXCEPT ![c] = s] /\ Goto(c, "attach")
    <3>1. Calm(c) /\ \A x \in sessions : Kept(c, x)
      BY <1>5, <2>0, <2>2 DEF NewSession, Reading
    <3>2. \A x \in sessions' : x = s \/ (SignedOut(x)' => CoveredForAll(x)')
      BY <1>s, <2>2, <3>1, GapOther
    <3>3. at'[c] = s /\ pc'[c] \in Ending
      BY <2>0, <2>2 DEF Ending
    <3>4. CoveredForAll(s)'
      BY <2>0, <3>3 DEF CoveredForAll
    <3> QED BY <3>2, <3>4
  <2> QED BY <1>5, <2>1, <2>2 DEF NewSession
<1>6. ASSUME NEW c \in Conn, NEW k \in SignIns, NEW s \in Sess, LookupSession(c, k, s)
      PROVE \A x \in sessions' : SignedOut(x)' => CoveredForAll(x)'
  <2>1. Calm(c) /\ sessions' = sessions /\ \A x \in sessions : Kept(c, x)
    BY <1>6 DEF LookupSession, Reading
  <2> QED BY <1>s, <2>1, GapOther
<1>7. ASSUME NEW c \in Conn, NEW s \in Sess, StopSuperseded(c, s)
      PROVE \A x \in sessions' : SignedOut(x)' => CoveredForAll(x)'
  <2>1. UNCHANGED <<minted, live, bus, lost, shut, device, pc, at, sessions>> /\ todo'[Bus] = todo[Bus]
    BY <1>7 DEF StopSuperseded
  <2> QED BY <1>s, <2>1, GapStays
<1>8. ASSUME NEW c \in Conn, Refuse(c)
      PROVE \A x \in sessions' : SignedOut(x)' => CoveredForAll(x)'
  <2>1. Calm(c) /\ sessions' = sessions /\ \A x \in sessions : Kept(c, x)
    BY <1>8 DEF Refuse
  <2> QED BY <1>s, <2>1, GapOther
<1>9. ASSUME NEW c \in Conn, CheckLive(c)
      PROVE \A x \in sessions' : SignedOut(x)' => CoveredForAll(x)'
  <2>0. c \in Actor /\ c # Bus /\ UNCHANGED <<minted, live, bus, lost, shut, device, at, todo, sessions>>
    BY <1>9 DEF CheckLive, Actor
  <2>1. CASE token[c] \in live
    <3>1. DeviceOf[token[c]] = device[at[c]]
      BY <1>9 DEF CheckLive, OneDeviceEach
    <3>2. SignedOut(at[c])' => FALSE
      BY <2>0, <2>1, <3>1 DEF SignedOut
    <3>3. \A x \in sessions : x # at[c] => Calm(c) /\ Kept(c, x)
      BY <1>9, <2>0, <2>1 DEF CheckLive
    <3> QED BY <1>s, <2>0, <3>2, <3>3, GapOther
  <2>2. CASE token[c] \notin live
    <3>1. Calm(c) /\ \A x \in sessions : Kept(c, x)
      BY <1>9, <2>0, <2>2 DEF CheckLive
    <3> QED BY <1>s, <2>0, <3>1, GapOther
  <2> QED BY <2>1, <2>2
<1>10. ASSUME NEW c \in Conn, Attach(c)
      PROVE \A x \in sessions' : SignedOut(x)' => CoveredForAll(x)'
  <2>1. Calm(c) /\ sessions' = sessions /\ \A x \in sessions : Kept(c, x)
    BY <1>10 DEF Attach
  <2> QED BY <1>s, <2>1, GapOther
<1>11. ASSUME NEW c \in Conn, BecomeReady(c)
      PROVE \A x \in sessions' : SignedOut(x)' => CoveredForAll(x)'
  <2>1. Calm(c) /\ sessions' = sessions /\ \A x \in sessions : Kept(c, x)
    BY <1>11 DEF BecomeReady
  <2> QED BY <1>s, <2>1, GapOther
<1>12. ASSUME NEW c \in Conn, ResumeAttach(c)
      PROVE \A x \in sessions' : SignedOut(x)' => CoveredForAll(x)'
  <2>1. Calm(c) /\ sessions' = sessions /\ \A x \in sessions : Kept(c, x)
    BY <1>12 DEF ResumeAttach
  <2> QED BY <1>s, <2>1, GapOther
<1>13. ASSUME NEW c \in Conn, ResumeRefused(c)
      PROVE \A x \in sessions' : SignedOut(x)' => CoveredForAll(x)'
  <2>1. Calm(c) /\ sessions' = sessions /\ \A x \in sessions : Kept(c, x)
    BY <1>13 DEF ResumeRefused
  <2> QED BY <1>s, <2>1, GapOther
<1>14. ASSUME NEW c \in Conn, Heartbeat(c)
      PROVE \A x \in sessions' : SignedOut(x)' => CoveredForAll(x)'
  <2>1. Calm(c) /\ sessions' = sessions /\ \A x \in sessions : Kept(c, x)
    BY <1>14 DEF Heartbeat, Reading
  <2> QED BY <1>s, <2>1, GapOther
<1>15. ASSUME NEW c \in Conn, Exit(c)
      PROVE \A x \in sessions' : SignedOut(x)' => CoveredForAll(x)'
  <2>1. Calm(c) /\ sessions' = sessions /\ \A x \in sessions : Kept(c, x)
    BY <1>15 DEF Exit
  <2> QED BY <1>s, <2>1, GapOther
<1>16. ASSUME NEW c \in Conn, Disconnect(c) \/ CloseLands(c)
      PROVE \A x \in sessions' : SignedOut(x)' => CoveredForAll(x)'
  <2>1. UNCHANGED <<minted, live, bus, lost, shut, device, todo, pc, at, sessions>>
    BY <1>16 DEF Disconnect, CloseLands
  <2> QED BY <1>s, <2>1, GapStays
<1>17. ASSUME NEW s \in Sess, TimerFires(s)
      PROVE \A x \in sessions' : SignedOut(x)' => CoveredForAll(x)'
  <2>1. Calm(s) /\ sessions' = sessions /\ \A x \in sessions : Kept(s, x)
    BY <1>17 DEF TimerFires
  <2> QED BY <1>s, <2>1, GapOther
<1>18. ASSUME NEW s \in Sess, ExpireSession(s)
      PROVE \A x \in sessions' : SignedOut(x)' => CoveredForAll(x)'
  <2>1. Calm(s) /\ sessions' = sessions /\ \A x \in sessions : Kept(s, x)
    BY <1>18 DEF ExpireSession
  <2> QED BY <1>s, <2>1, GapOther
<1>19. ASSUME NEW r \in bus, OnRevocation(r)
      PROVE \A x \in sessions' : SignedOut(x)' => CoveredForAll(x)'
  <2>1. /\ UNCHANGED <<minted, live, lost, shut, device, pc, at, sessions>> /\ bus' = bus \ {r}
        /\ todo[Bus] = {} /\ todo'[Bus] = {s \in idx : Matches(r, s)}
    BY <1>19 DEF OnRevocation
  <2>2. ASSUME NEW x \in sessions', SignedOut(x)' PROVE CoveredForAll(x)'
    <3>1. x \in sessions /\ SignedOut(x) /\ CoveredForAll(x) /\ x \in idx /\ x \in used
      BY <1>s, <2>1, <2>2 DEF SignedOut, RegisteredIsIndexed
    <3>2. CASE /\ device[x] \in r.devices
               /\ \A j \in 1..minted : DeviceOf[j] = device[x] => j < r.before
      <4>1. Matches(r, x)
        BY <3>1, <3>2 DEF OneDeviceEach, Matches
      <4> QED BY <2>1, <3>1, <4>1 DEF CoveredForAll
    <3>3. CASE ~(/\ device[x] \in r.devices
                 /\ \A j \in 1..minted : DeviceOf[j] = device[x] => j < r.before)
      BY <2>1, <3>1, <3>3 DEF CoveredForAll
    <3> QED BY <3>2, <3>3
  <2> QED BY <2>2
<1>20. ASSUME NEW s \in Sess, RevokeNext(s)
      PROVE \A x \in sessions' : SignedOut(x)' => CoveredForAll(x)'
  <2>1. /\ UNCHANGED <<minted, live, bus, lost, shut, device, sessions>> /\ pc[Bus] = "idle"
        /\ todo'[Bus] = todo[Bus] \ {s} /\ at'[Bus] = s /\ pc'[Bus] = "take"
        /\ \A b \in Actor \ {Bus} : at'[b] = at[b] /\ pc'[b] = pc[b]
    BY <1>20 DEF RevokeNext, Actor
  <2>2. Bus \in Actor /\ "take" \in Ending /\ "idle" \notin Ending
    BY DEF Actor, Ending
  <2>3. ASSUME NEW x \in sessions', SignedOut(x)' PROVE CoveredForAll(x)'
    <3>1. CoveredForAll(x)
      BY <1>s, <2>1, <2>3 DEF SignedOut
    <3> QED BY <2>1, <2>2, <3>1 DEF CoveredForAll
  <2> QED BY <2>3
<1>21. ASSUME NEW s \in Sess, ShutdownDrop(s)
      PROVE \A x \in sessions' : SignedOut(x)' => CoveredForAll(x)'
  <2>1. Calm(Server) /\ sessions' = sessions /\ \A x \in sessions : Kept(Server, x)
    BY <1>21 DEF ShutdownDrop, Bus, Server
  <2> QED BY <1>s, <2>1, GapOther
<1>22. ASSUME Shutdown
      PROVE \A x \in sessions' : SignedOut(x)' => CoveredForAll(x)'
  BY <1>22 DEF Shutdown, CoveredForAll
<1>23. ASSUME ShutdownCollect
      PROVE \A x \in sessions' : SignedOut(x)' => CoveredForAll(x)'
  <2>1. Calm(Server) /\ sessions' = sessions /\ \A x \in sessions : Kept(Server, x)
    BY <1>23 DEF ShutdownCollect, Bus, Server
  <2> QED BY <1>s, <2>1, GapOther
<1>24. ASSUME NEW a \in Actor, TakeConn(a)
      PROVE \A x \in sessions' : SignedOut(x)' => CoveredForAll(x)'
  <2>1. Calm(a) /\ sessions' = sessions /\ \A x \in sessions : Kept(a, x)
    BY <1>24 DEF TakeConn
  <2> QED BY <1>s, <2>1, GapOther
<1>25. ASSUME NEW a \in Actor, DropFromMap(a)
      PROVE \A x \in sessions' : SignedOut(x)' => CoveredForAll(x)'
  <2>0. /\ UNCHANGED <<minted, live, bus, lost, shut, device, todo, at>> /\ sessions' \subseteq sessions
        /\ at[a] \notin sessions' /\ \A b \in Actor \ {a} : pc'[b] = pc[b]
    BY <1>25 DEF DropFromMap
  <2>1. \A x \in sessions : x # at[a] => Calm(a) /\ Kept(a, x)
    BY <2>0
  <2> QED BY <1>s, <2>0, <2>1, GapOther
<1>26. ASSUME NEW a \in Actor, StopDropped(a)
      PROVE \A x \in sessions' : SignedOut(x)' => CoveredForAll(x)'
  <2>1. Calm(a) /\ sessions' = sessions /\ \A x \in sessions : Kept(a, x)
    BY <1>26 DEF StopDropped, Stop, Return
  <2> QED BY <1>s, <2>1, GapOther
<1>27. ASSUME UNCHANGED vars
      PROVE \A x \in sessions' : SignedOut(x)' => CoveredForAll(x)'
  <2>1. UNCHANGED <<minted, live, bus, lost, shut, device, todo, pc, at, sessions>>
    BY <1>27 DEF vars
  <2> QED BY <1>s, <2>1, GapStays
<1> HIDE DEF Calm, Kept, Ending, TypeOK, Actor
<1> QED
  BY <1>1, <1>2, <1>3, <1>4, <1>5, <1>6, <1>7, <1>8, <1>9, <1>10, <1>11, <1>12, <1>13,
     <1>14, <1>15, <1>16, <1>17, <1>18, <1>19, <1>20, <1>21, <1>22, <1>23, <1>24, <1>25,
     <1>26, <1>27
     DEF Next, Accounts, Serve, Internal

\* Once no sign-in of a device is live, every session of it still registered is one
\* that a revocation, or the liveness check of the IDENTIFY creating it, will end,
\* whatever resumes, drops and sign-ins come between (conn.go identify; auth/revoke.go).
THEOREM SignOutNeverHasGap == Spec => []SignOutHasNoGap
<1>1. ASSUME IndInv, GapInv, NEW s \in sessions, SignedOut(s) PROVE Covered(s)
  <2>1. CoveredForAll(s) /\ s \in used /\ signIn[s] \in 1..minted /\ DeviceOf[signIn[s]] = device[s]
    BY <1>1 DEF GapInv, OneDeviceEach, IndInv, TypeOK
  <2> QED BY <2>1 DEF CoveredForAll, Covered, Matches, Ending
<1>2. IndInv /\ GapInv => SignOutHasNoGap
  BY <1>1 DEF SignOutHasNoGap, SignedOut
<1> QED BY <1>2, IndInvHolds, GapInit, GapStep, PTL DEF Spec

----------------------------------------------------------------------------
(* Connections and the sessions they hold.                                 *)

Creating == {"attach", "live", "ready"}

\* What a goroutine holds, it holds only while it works on it; a session is
\* resumed only after READY told its id, so nobody resumes one that is created.
Holding ==
  /\ \A a \in Actor : pc[a] \in Working \/ at[a] = None
  /\ \A a \in Actor : taken[a] # None => pc[a] \in {"drop", "stop"}
  /\ \A c \in Conn : pc[c] \in {"new", "attach", "refuse", "resume"} => csess[c] = None
  /\ \A c \in open : pc[c] \notin {"new", "gone"}
  /\ ready \subseteq used
  /\ \A c \in Conn : pc[c] \in Creating => at[c] \notin ready
  /\ \A c \in Conn : pc[c] = "resume" => at[c] \in ready
  /\ \A c, d \in Conn : c # d /\ pc[c] \in Creating /\ pc[d] \in Creating => at[c] # at[d]
  /\ \A c, d \in Conn : pc[c] = "attach" => csess[d] # at[c]

\* A session and the connection it has name each other.
Attached == \A s \in Sess : sconn[s] # None => csess[sconn[s]] = s /\ pc[sconn[s]] # "gone"

\* A connection that is served has its session.
ServedHasSession == \A c \in Conn : Served(c) /\ csess[c] # None => sconn[csess[c]] = c

\* Until a session is ready only whoever drops it takes its connection away.
CreatedIsHeld ==
  \A c \in Conn : pc[c] \in {"live", "ready"} /\ at[c] \in sessions =>
    sconn[at[c]] = c \/ \E a \in Actor : at[a] = at[c] /\ pc[a] = "drop"

\* A timer's callback works on its own session.
OwnTimer == \A s \in Sess : at[s] \in {s, None}

HoldInv == Holding /\ Attached /\ ServedHasSession /\ CreatedIsHeld /\ OwnTimer /\ NoForgottenSession

\* At first no goroutine holds anything.
LEMMA HoldInit == Init => HoldInv
BY RegistryAssumption DEF Init, HoldInv, Holding, Attached, ServedHasSession, CreatedIsHeld, OwnTimer, NoForgottenSession, Actor, Working, Creating, Served

\* Goroutines take a session up and let go of it together with their label.
LEMMA HoldingStep == IndInv /\ Holding /\ [Next]_vars => Holding'
<1> SUFFICES ASSUME TypeOK, HoldsUsed, Holding, [Next]_vars PROVE Holding'
  BY DEF IndInv
<1> USE RegistryAssumption DEF Holding, HoldsUsed, Working, Creating, TypeOK, db, registry, fields, sockets, control, Goto, Actor
<1>1. ASSUME SignInAgain PROVE Holding'
  BY <1>1 DEF SignInAgain
<1>2. ASSUME NEW D \in SUBSET Device, SignOut(D) PROVE Holding'
  BY <1>2 DEF SignOut
<1>3. ASSUME NEW r \in bus, LoseRevocation(r) PROVE Holding'
  BY <1>3 DEF LoseRevocation
<1>4. ASSUME NEW c \in Conn, Track(c) PROVE Holding'
  BY <1>4 DEF Track
<1>5. ASSUME NEW c \in Conn, NEW k \in SignIns, NEW s \in Sess, NewSession(c, k, s) PROVE Holding'
  <2>1. CASE pc' = [pc EXCEPT ![c] = "refuse"]
    BY <1>5, <2>1 DEF NewSession, Reading
  <2>2. CASE pc' = [pc EXCEPT ![c] = "attach"]
    BY <1>5, <2>2 DEF NewSession, Reading
  <2> QED BY <1>5, <2>1, <2>2 DEF NewSession
<1>6. ASSUME NEW c \in Conn, NEW k \in SignIns, NEW s \in Sess, LookupSession(c, k, s) PROVE Holding'
  BY <1>6 DEF LookupSession, Reading
<1>7. ASSUME NEW c \in Conn, NEW s \in Sess, StopSuperseded(c, s) PROVE Holding'
  BY <1>7 DEF StopSuperseded, Stop
<1>8. ASSUME NEW c \in Conn, Refuse(c) PROVE Holding'
  BY <1>8 DEF Refuse
<1>9. ASSUME NEW c \in Conn, CheckLive(c) PROVE Holding'
  <2>1. CASE pc' = [pc EXCEPT ![c] = "ready"]
    BY <1>9, <2>1 DEF CheckLive
  <2>2. CASE pc' = [pc EXCEPT ![c] = "drop"]
    BY <1>9, <2>2 DEF CheckLive
  <2> QED BY <1>9, <2>1, <2>2 DEF CheckLive
<1>10. ASSUME NEW c \in Conn, Attach(c) PROVE Holding'
  BY <1>10 DEF Attach
<1>11. ASSUME NEW c \in Conn, BecomeReady(c) PROVE Holding'
  <2>1. CASE pc' = [pc EXCEPT ![c] = "idle"]
    BY <1>11, <2>1 DEF BecomeReady
  <2>2. CASE pc' = [pc EXCEPT ![c] = "drop"]
    BY <1>11, <2>2 DEF BecomeReady
  <2> QED BY <1>11, <2>1, <2>2 DEF BecomeReady
<1>12. ASSUME NEW c \in Conn, ResumeAttach(c) PROVE Holding'
  BY <1>12 DEF ResumeAttach
<1>13. ASSUME NEW c \in Conn, ResumeRefused(c) PROVE Holding'
  <2>1. CASE pc' = [pc EXCEPT ![c] = "idle"]
    BY <1>13, <2>1 DEF ResumeRefused
  <2>2. CASE pc' = [pc EXCEPT ![c] = "drop"]
    BY <1>13, <2>2 DEF ResumeRefused
  <2>3. CASE pc' = [pc EXCEPT ![c] = "exit"]
    BY <1>13, <2>3 DEF ResumeRefused
  <2> QED BY <1>13, <2>1, <2>2, <2>3 DEF ResumeRefused
<1>14. ASSUME NEW c \in Conn, Heartbeat(c) PROVE Holding'
  BY <1>14 DEF Heartbeat, Reading
<1>15. ASSUME NEW c \in Conn, Exit(c) PROVE Holding'
  BY <1>15 DEF Exit
<1>16. ASSUME NEW c \in Conn, Disconnect(c) \/ CloseLands(c) PROVE Holding'
  BY <1>16 DEF Disconnect, CloseLands
<1>17. ASSUME NEW s \in Sess, TimerFires(s) PROVE Holding'
  BY <1>17 DEF TimerFires
<1>18. ASSUME NEW s \in Sess, ExpireSession(s) PROVE Holding'
  <2>1. CASE pc' = [pc EXCEPT ![s] = "idle"]
    BY <1>18, <2>1 DEF ExpireSession
  <2>2. CASE pc' = [pc EXCEPT ![s] = "drop"]
    BY <1>18, <2>2 DEF ExpireSession
  <2> QED BY <1>18, <2>1, <2>2 DEF ExpireSession
<1>19. ASSUME NEW r \in bus, OnRevocation(r) PROVE Holding'
  BY <1>19 DEF OnRevocation
<1>20. ASSUME NEW s \in Sess, RevokeNext(s) PROVE Holding'
  BY <1>20 DEF RevokeNext
<1>21. ASSUME NEW s \in Sess, ShutdownDrop(s) PROVE Holding'
  BY <1>21 DEF ShutdownDrop
<1>22. ASSUME Shutdown PROVE Holding'
  BY <1>22 DEF Shutdown
<1>23. ASSUME ShutdownCollect PROVE Holding'
  BY <1>23 DEF ShutdownCollect
<1>24. ASSUME NEW a \in Actor, TakeConn(a) PROVE Holding'
  BY <1>24 DEF TakeConn
<1>25. ASSUME NEW a \in Actor, DropFromMap(a) PROVE Holding'
  BY <1>25 DEF DropFromMap
<1>26. ASSUME NEW a \in Actor, StopDropped(a) PROVE Holding'
  BY <1>26 DEF StopDropped, Stop, Return
<1>27. ASSUME UNCHANGED vars PROVE Holding'
  BY <1>27 DEF vars
<1> HIDE DEF Holding, HoldsUsed, Working, Creating, TypeOK, Actor
<1> QED
  BY <1>1, <1>2, <1>3, <1>4, <1>5, <1>6, <1>7, <1>8, <1>9, <1>10, <1>11, <1>12, <1>13,
     <1>14, <1>15, <1>16, <1>17, <1>18, <1>19, <1>20, <1>21, <1>22, <1>23, <1>24, <1>25,
     <1>26, <1>27
     DEF Next, Accounts, Serve, Internal

\* Attach and RESUME set both names, and only the connection itself goes.
LEMMA AttachedStep == IndInv /\ HoldInv /\ [Next]_vars => Attached'
<1> SUFFICES ASSUME TypeOK, HoldsUsed, Holding, Attached, [Next]_vars PROVE Attached'
  BY DEF IndInv, HoldInv
<1> USE RegistryAssumption DEF Attached, HoldsUsed, Working, Holding, TypeOK, db, registry, fields, sockets, control, Goto, Actor
<1>1. ASSUME SignInAgain PROVE Attached'
  BY <1>1 DEF SignInAgain
<1>2. ASSUME NEW D \in SUBSET Device, SignOut(D) PROVE Attached'
  BY <1>2 DEF SignOut
<1>3. ASSUME NEW r \in bus, LoseRevocation(r) PROVE Attached'
  BY <1>3 DEF LoseRevocation
<1>4. ASSUME NEW c \in Conn, Track(c) PROVE Attached'
  BY <1>4 DEF Track
<1>5. ASSUME NEW c \in Conn, NEW k \in SignIns, NEW s \in Sess, NewSession(c, k, s) PROVE Attached'
  BY <1>5 DEF NewSession
<1>6. ASSUME NEW c \in Conn, NEW k \in SignIns, NEW s \in Sess, LookupSession(c, k, s) PROVE Attached'
  BY <1>6 DEF LookupSession, Reading
<1>7. ASSUME NEW c \in Conn, NEW s \in Sess, StopSuperseded(c, s) PROVE Attached'
  BY <1>7 DEF StopSuperseded, Stop
<1>8. ASSUME NEW c \in Conn, Refuse(c) PROVE Attached'
  BY <1>8 DEF Refuse
<1>9. ASSUME NEW c \in Conn, CheckLive(c) PROVE Attached'
  BY <1>9 DEF CheckLive
<1>10. ASSUME NEW c \in Conn, Attach(c) PROVE Attached'
  BY <1>10 DEF Attach
<1>11. ASSUME NEW c \in Conn, BecomeReady(c) PROVE Attached'
  BY <1>11 DEF BecomeReady
<1>12. ASSUME NEW c \in Conn, ResumeAttach(c) PROVE Attached'
  BY <1>12 DEF ResumeAttach
<1>13. ASSUME NEW c \in Conn, ResumeRefused(c) PROVE Attached'
  BY <1>13 DEF ResumeRefused
<1>14. ASSUME NEW c \in Conn, Heartbeat(c) PROVE Attached'
  BY <1>14 DEF Heartbeat, Reading
<1>15. ASSUME NEW c \in Conn, Exit(c) PROVE Attached'
  <2> SUFFICES ASSUME NEW s \in Sess, sconn'[s] # None PROVE csess'[sconn'[s]] = s /\ pc'[sconn'[s]] # "gone"
    OBVIOUS
  <2>1. sconn'[s] = sconn[s] /\ UNCHANGED csess /\ pc' = [pc EXCEPT ![c] = "gone"]
    BY <1>15 DEF Exit
  <2>2. csess[sconn[s]] = s /\ pc[sconn[s]] # "gone" /\ sconn[s] \in Conn
    BY <2>1
  <2>3. sconn[s] # c
    BY <1>15, <2>1, <2>2 DEF Exit
  <2> QED BY <2>1, <2>2, <2>3
<1>16. ASSUME NEW c \in Conn, Disconnect(c) \/ CloseLands(c) PROVE Attached'
  BY <1>16 DEF Disconnect, CloseLands
<1>17. ASSUME NEW s \in Sess, TimerFires(s) PROVE Attached'
  BY <1>17 DEF TimerFires
<1>18. ASSUME NEW s \in Sess, ExpireSession(s) PROVE Attached'
  BY <1>18 DEF ExpireSession
<1>19. ASSUME NEW r \in bus, OnRevocation(r) PROVE Attached'
  BY <1>19 DEF OnRevocation
<1>20. ASSUME NEW s \in Sess, RevokeNext(s) PROVE Attached'
  BY <1>20 DEF RevokeNext
<1>21. ASSUME NEW s \in Sess, ShutdownDrop(s) PROVE Attached'
  BY <1>21 DEF ShutdownDrop
<1>22. ASSUME Shutdown PROVE Attached'
  BY <1>22 DEF Shutdown
<1>23. ASSUME ShutdownCollect PROVE Attached'
  BY <1>23 DEF ShutdownCollect
<1>24. ASSUME NEW a \in Actor, TakeConn(a) PROVE Attached'
  BY <1>24 DEF TakeConn
<1>25. ASSUME NEW a \in Actor, DropFromMap(a) PROVE Attached'
  BY <1>25 DEF DropFromMap
<1>26. ASSUME NEW a \in Actor, StopDropped(a) PROVE Attached'
  BY <1>26 DEF StopDropped, Stop, Return
<1>27. ASSUME UNCHANGED vars PROVE Attached'
  BY <1>27 DEF vars
<1> HIDE DEF Attached, HoldsUsed, Working, Holding, TypeOK, Actor
<1> QED
  BY <1>1, <1>2, <1>3, <1>4, <1>5, <1>6, <1>7, <1>8, <1>9, <1>10, <1>11, <1>12, <1>13,
     <1>14, <1>15, <1>16, <1>17, <1>18, <1>19, <1>20, <1>21, <1>22, <1>23, <1>24, <1>25,
     <1>26, <1>27
     DEF Next, Accounts, Serve, Internal

\* Whoever takes a session's connection away closes it.
LEMMA ServedStep == IndInv /\ HoldInv /\ [Next]_vars => ServedHasSession'
<1> SUFFICES ASSUME TypeOK, HoldsUsed, Holding, Attached, ServedHasSession, [Next]_vars PROVE ServedHasSession'
  BY DEF IndInv, HoldInv
<1> USE RegistryAssumption DEF ServedHasSession, Served, Attached, HoldsUsed, Working, Holding, TypeOK, db, registry, fields, sockets, control, Goto, Actor
<1>1. ASSUME SignInAgain PROVE ServedHasSession'
  BY <1>1 DEF SignInAgain
<1>2. ASSUME NEW D \in SUBSET Device, SignOut(D) PROVE ServedHasSession'
  BY <1>2 DEF SignOut
<1>3. ASSUME NEW r \in bus, LoseRevocation(r) PROVE ServedHasSession'
  BY <1>3 DEF LoseRevocation
<1>4. ASSUME NEW c \in Conn, Track(c) PROVE ServedHasSession'
  BY <1>4 DEF Track
<1>5. ASSUME NEW c \in Conn, NEW k \in SignIns, NEW s \in Sess, NewSession(c, k, s) PROVE ServedHasSession'
  BY <1>5 DEF NewSession
<1>6. ASSUME NEW c \in Conn, NEW k \in SignIns, NEW s \in Sess, LookupSession(c, k, s) PROVE ServedHasSession'
  BY <1>6 DEF LookupSession, Reading
<1>7. ASSUME NEW c \in Conn, NEW s \in Sess, StopSuperseded(c, s) PROVE ServedHasSession'
  BY <1>7 DEF StopSuperseded, Stop
<1>8. ASSUME NEW c \in Conn, Refuse(c) PROVE ServedHasSession'
  BY <1>8 DEF Refuse
<1>9. ASSUME NEW c \in Conn, CheckLive(c) PROVE ServedHasSession'
  BY <1>9 DEF CheckLive
<1>10. ASSUME NEW c \in Conn, Attach(c) PROVE ServedHasSession'
  BY <1>10 DEF Attach
<1>11. ASSUME NEW c \in Conn, BecomeReady(c) PROVE ServedHasSession'
  BY <1>11 DEF BecomeReady
<1>12. ASSUME NEW c \in Conn, ResumeAttach(c) PROVE ServedHasSession'
  BY <1>12 DEF ResumeAttach
<1>13. ASSUME NEW c \in Conn, ResumeRefused(c) PROVE ServedHasSession'
  BY <1>13 DEF ResumeRefused
<1>14. ASSUME NEW c \in Conn, Heartbeat(c) PROVE ServedHasSession'
  BY <1>14 DEF Heartbeat, Reading
<1>15. ASSUME NEW c \in Conn, Exit(c) PROVE ServedHasSession'
  BY <1>15 DEF Exit
<1>16. ASSUME NEW c \in Conn, Disconnect(c) \/ CloseLands(c) PROVE ServedHasSession'
  BY <1>16 DEF Disconnect, CloseLands
<1>17. ASSUME NEW s \in Sess, TimerFires(s) PROVE ServedHasSession'
  BY <1>17 DEF TimerFires
<1>18. ASSUME NEW s \in Sess, ExpireSession(s) PROVE ServedHasSession'
  BY <1>18 DEF ExpireSession
<1>19. ASSUME NEW r \in bus, OnRevocation(r) PROVE ServedHasSession'
  BY <1>19 DEF OnRevocation
<1>20. ASSUME NEW s \in Sess, RevokeNext(s) PROVE ServedHasSession'
  BY <1>20 DEF RevokeNext
<1>21. ASSUME NEW s \in Sess, ShutdownDrop(s) PROVE ServedHasSession'
  BY <1>21 DEF ShutdownDrop
<1>22. ASSUME Shutdown PROVE ServedHasSession'
  BY <1>22 DEF Shutdown
<1>23. ASSUME ShutdownCollect PROVE ServedHasSession'
  BY <1>23 DEF ShutdownCollect
<1>24. ASSUME NEW a \in Actor, TakeConn(a) PROVE ServedHasSession'
  <2> SUFFICES ASSUME NEW d \in Conn, Served(d)', csess'[d] # None PROVE sconn'[csess'[d]] = d
    OBVIOUS
  <2>1. UNCHANGED <<open, closing, csess>> /\ taken[a] = None /\ taken'[a] = sconn[at[a]]
        /\ \A b \in Actor \ {a} : taken'[b] = taken[b]
    BY <1>24 DEF TakeConn
  <2>2. Served(d) /\ sconn[at[a]] # d
    <3>1. d \in open /\ d \notin closing /\ taken'[a] # d /\ \A b \in Actor : taken'[b] # d
      BY <2>1
    <3>2. ASSUME NEW b \in Actor PROVE taken[b] # d
      <4>1. CASE b = a
        BY <2>1, <4>1
      <4>2. CASE b # a
        <5>1. taken'[b] = taken[b]
          BY <2>1, <4>2
        <5> QED BY <3>1, <5>1
      <4> QED BY <4>1, <4>2
    <3> QED BY <2>1, <3>1, <3>2
  <2>3. sconn[csess[d]] = d /\ csess[d] # at[a] /\ csess[d] \in Sess
    BY <2>1, <2>2
  <2> QED BY <1>24, <2>1, <2>3 DEF TakeConn
<1>25. ASSUME NEW a \in Actor, DropFromMap(a) PROVE ServedHasSession'
  BY <1>25 DEF DropFromMap
<1>26. ASSUME NEW a \in Actor, StopDropped(a) PROVE ServedHasSession'
  BY <1>26 DEF StopDropped, Stop, Return
<1>27. ASSUME UNCHANGED vars PROVE ServedHasSession'
  BY <1>27 DEF vars
<1> HIDE DEF ServedHasSession, Served, Attached, HoldsUsed, Working, Holding, TypeOK, Actor
<1> QED
  BY <1>1, <1>2, <1>3, <1>4, <1>5, <1>6, <1>7, <1>8, <1>9, <1>10, <1>11, <1>12, <1>13,
     <1>14, <1>15, <1>16, <1>17, <1>18, <1>19, <1>20, <1>21, <1>22, <1>23, <1>24, <1>25,
     <1>26, <1>27
     DEF Next, Accounts, Serve, Internal

HeldOrDropped(d) == sconn[at[d]] = d \/ \E a \in Actor : at[a] = at[d] /\ pc[a] = "drop"

\* Nothing happens to what d creates, nor to who drops it.
StillHeld(d) ==
  /\ pc[d] \in {"live", "ready"} /\ at[d] \in sessions /\ at'[d] = at[d] /\ sconn'[at[d]] = sconn[at[d]]
  /\ \A a \in Actor : at[a] = at[d] /\ pc[a] = "drop" => at'[a] = at[a] /\ pc'[a] = "drop"

\* Then it is held, or dropped, as before.
LEMMA StillHeldIs == ASSUME CreatedIsHeld, NEW d \in Conn, StillHeld(d) PROVE HeldOrDropped(d)'
BY DEF CreatedIsHeld, StillHeld, HeldOrDropped

\* Nobody resumes a session that is not ready.
LEMMA CreatedStep == IndInv /\ HoldInv /\ [Next]_vars => CreatedIsHeld'
<1> SUFFICES ASSUME TypeOK, HoldsUsed, Holding, Attached, CreatedIsHeld, [Next]_vars PROVE CreatedIsHeld'
  BY DEF IndInv, HoldInv
<1> USE RegistryAssumption DEF CreatedIsHeld, HeldOrDropped, Creating, Attached, HoldsUsed, Working, Holding, TypeOK, db, registry, fields, sockets, control, Goto, Actor
<1>1. ASSUME SignInAgain PROVE CreatedIsHeld'
  BY <1>1 DEF SignInAgain
<1>2. ASSUME NEW D \in SUBSET Device, SignOut(D) PROVE CreatedIsHeld'
  BY <1>2 DEF SignOut
<1>3. ASSUME NEW r \in bus, LoseRevocation(r) PROVE CreatedIsHeld'
  BY <1>3 DEF LoseRevocation
<1>4. ASSUME NEW c \in Conn, Track(c) PROVE CreatedIsHeld'
  BY <1>4 DEF Track
<1>5. ASSUME NEW c \in Conn, NEW k \in SignIns, NEW s \in Sess, NewSession(c, k, s) PROVE CreatedIsHeld'
  <2> SUFFICES ASSUME NEW d \in Conn, pc'[d] \in {"live", "ready"}, at'[d] \in sessions' PROVE HeldOrDropped(d)'
    BY DEF CreatedIsHeld
  <2>1. d # c /\ pc'[d] = pc[d] /\ at'[d] = at[d] /\ pc[c] = "idle"
    BY <1>5 DEF NewSession, Reading
  <2>2. at[d] \in used /\ s \notin used /\ sessions' \subseteq sessions \cup {s} /\ UNCHANGED sconn
    BY <1>5, <2>1 DEF NewSession
  <2>3. \A b \in Actor : pc[b] = "drop" => at'[b] = at[b] /\ pc'[b] = "drop"
    BY <1>5, <2>1 DEF NewSession
  <2>4. StillHeld(d)
    BY <2>1, <2>2, <2>3 DEF StillHeld
  <2> QED BY <2>4, StillHeldIs
<1>6. ASSUME NEW c \in Conn, NEW k \in SignIns, NEW s \in Sess, LookupSession(c, k, s) PROVE CreatedIsHeld'
  BY <1>6 DEF LookupSession, Reading
<1>7. ASSUME NEW c \in Conn, NEW s \in Sess, StopSuperseded(c, s) PROVE CreatedIsHeld'
  BY <1>7 DEF StopSuperseded, Stop
<1>8. ASSUME NEW c \in Conn, Refuse(c) PROVE CreatedIsHeld'
  BY <1>8 DEF Refuse
<1>9. ASSUME NEW c \in Conn, CheckLive(c) PROVE CreatedIsHeld'
  BY <1>9 DEF CheckLive
<1>10. ASSUME NEW c \in Conn, Attach(c) PROVE CreatedIsHeld'
  <2> SUFFICES ASSUME NEW d \in Conn, pc'[d] \in {"live", "ready"}, at'[d] \in sessions' PROVE HeldOrDropped(d)'
    BY DEF CreatedIsHeld
  <2>0. at[c] \in Sess /\ UNCHANGED <<at, sessions>> /\ sconn' = [sconn EXCEPT ![at[c]] = c]
    BY <1>10 DEF Attach
  <2>1. CASE d = c
    <3>1. sconn'[at'[d]] = d
      BY <2>0, <2>1
    <3> QED BY <3>1 DEF HeldOrDropped
  <2>2. CASE d # c
    <3>1. pc[d] = pc'[d] /\ at[d] # at[c]
      BY <1>10, <2>2 DEF Attach
    <3>2. \A b \in Actor : pc[b] = "drop" => pc'[b] = "drop"
      BY <1>10 DEF Attach
    <3>3. StillHeld(d)
      BY <2>0, <3>1, <3>2 DEF StillHeld
    <3> QED BY <3>3, StillHeldIs
  <2> QED BY <2>1, <2>2
<1>11. ASSUME NEW c \in Conn, BecomeReady(c) PROVE CreatedIsHeld'
  <2> SUFFICES ASSUME NEW d \in Conn, pc'[d] \in {"live", "ready"}, at'[d] \in sessions' PROVE HeldOrDropped(d)'
    BY DEF CreatedIsHeld
  <2>1. StillHeld(d)
    BY <1>11 DEF BecomeReady, Working, StillHeld
  <2> QED BY <2>1, StillHeldIs
<1>12. ASSUME NEW c \in Conn, ResumeAttach(c) PROVE CreatedIsHeld'
  <2> SUFFICES ASSUME NEW d \in Conn, pc'[d] \in {"live", "ready"}, at'[d] \in sessions' PROVE HeldOrDropped(d)'
    BY DEF CreatedIsHeld
  <2>1. d # c /\ pc[d] \in Creating /\ at[d] \notin ready /\ at[c] \in ready /\ at[c] # at[d]
    BY <1>12 DEF ResumeAttach, Creating, Holding
  <2>2. StillHeld(d)
    BY <1>12, <2>1 DEF ResumeAttach, StillHeld
  <2> QED BY <2>2, StillHeldIs
<1>13. ASSUME NEW c \in Conn, ResumeRefused(c) PROVE CreatedIsHeld'
  <2> SUFFICES ASSUME NEW d \in Conn, pc'[d] \in {"live", "ready"}, at'[d] \in sessions' PROVE HeldOrDropped(d)'
    BY DEF CreatedIsHeld
  <2>1. StillHeld(d)
    BY <1>13 DEF ResumeRefused, Working, StillHeld
  <2> QED BY <2>1, StillHeldIs
<1>14. ASSUME NEW c \in Conn, Heartbeat(c) PROVE CreatedIsHeld'
  BY <1>14 DEF Heartbeat, Reading
<1>15. ASSUME NEW c \in Conn, Exit(c) PROVE CreatedIsHeld'
  <2> SUFFICES ASSUME NEW d \in Conn, pc'[d] \in {"live", "ready"}, at'[d] \in sessions' PROVE HeldOrDropped(d)'
    BY DEF CreatedIsHeld
  <2>1. d # c /\ at[d] = at'[d] /\ at[d] \in Sess /\ pc[d] = pc'[d]
    BY <1>15 DEF Exit
  <2>2. CASE sconn[at[d]] = d
    <3>1. sconn'[at[d]] = d
      BY <1>15, <2>1, <2>2 DEF Exit
    <3> QED BY <2>1, <3>1 DEF HeldOrDropped
  <2>3. CASE sconn[at[d]] # d
    <3>1. PICK a \in Actor : at[a] = at[d] /\ pc[a] = "drop"
      BY <1>15, <2>1, <2>3 DEF Exit, CreatedIsHeld
    <3>2. at'[a] = at[a] /\ pc'[a] = "drop"
      BY <1>15, <3>1 DEF Exit
    <3> QED BY <2>1, <3>1, <3>2 DEF HeldOrDropped
  <2> QED BY <2>2, <2>3
<1>16. ASSUME NEW c \in Conn, Disconnect(c) \/ CloseLands(c) PROVE CreatedIsHeld'
  <2> SUFFICES ASSUME NEW d \in Conn, pc'[d] \in {"live", "ready"}, at'[d] \in sessions' PROVE HeldOrDropped(d)'
    BY DEF CreatedIsHeld
  <2>1. StillHeld(d)
    BY <1>16 DEF Disconnect, CloseLands, Working, StillHeld
  <2> QED BY <2>1, StillHeldIs
<1>17. ASSUME NEW s \in Sess, TimerFires(s) PROVE CreatedIsHeld'
  BY <1>17 DEF TimerFires
<1>18. ASSUME NEW s \in Sess, ExpireSession(s) PROVE CreatedIsHeld'
  <2> SUFFICES ASSUME NEW d \in Conn, pc'[d] \in {"live", "ready"}, at'[d] \in sessions' PROVE HeldOrDropped(d)'
    BY DEF CreatedIsHeld
  <2>1. StillHeld(d)
    BY <1>18 DEF ExpireSession, Working, StillHeld
  <2> QED BY <2>1, StillHeldIs
<1>19. ASSUME NEW r \in bus, OnRevocation(r) PROVE CreatedIsHeld'
  BY <1>19 DEF OnRevocation
<1>20. ASSUME NEW s \in Sess, RevokeNext(s) PROVE CreatedIsHeld'
  BY <1>20 DEF RevokeNext
<1>21. ASSUME NEW s \in Sess, ShutdownDrop(s) PROVE CreatedIsHeld'
  BY <1>21 DEF ShutdownDrop
<1>22. ASSUME Shutdown PROVE CreatedIsHeld'
  BY <1>22 DEF Shutdown
<1>23. ASSUME ShutdownCollect PROVE CreatedIsHeld'
  BY <1>23 DEF ShutdownCollect
<1>24. ASSUME NEW a \in Actor, TakeConn(a) PROVE CreatedIsHeld'
  <2> SUFFICES ASSUME NEW d \in Conn, pc'[d] \in {"live", "ready"}, at'[d] \in sessions' PROVE HeldOrDropped(d)'
    BY DEF CreatedIsHeld
  <2>1. d # a /\ at[d] = at'[d] /\ pc[d] = pc'[d] /\ at[d] \in sessions /\ UNCHANGED at /\ pc'[a] = "drop"
    BY <1>24 DEF TakeConn
  <2>2. CASE at[a] = at[d]
    BY <2>1, <2>2 DEF HeldOrDropped
  <2>3. CASE at[a] # at[d]
    <3>1. StillHeld(d)
      BY <1>24, <2>1, <2>3 DEF TakeConn, StillHeld
    <3> QED BY <3>1, StillHeldIs
  <2> QED BY <2>2, <2>3
<1>25. ASSUME NEW a \in Actor, DropFromMap(a) PROVE CreatedIsHeld'
  BY <1>25 DEF DropFromMap
<1>26. ASSUME NEW a \in Actor, StopDropped(a) PROVE CreatedIsHeld'
  BY <1>26 DEF StopDropped, Stop, Return
<1>27. ASSUME UNCHANGED vars PROVE CreatedIsHeld'
  BY <1>27 DEF vars
<1> HIDE DEF CreatedIsHeld, HeldOrDropped, Creating, Attached, HoldsUsed, Working, Holding, TypeOK, Actor
<1> QED
  BY <1>1, <1>2, <1>3, <1>4, <1>5, <1>6, <1>7, <1>8, <1>9, <1>10, <1>11, <1>12, <1>13,
     <1>14, <1>15, <1>16, <1>17, <1>18, <1>19, <1>20, <1>21, <1>22, <1>23, <1>24, <1>25,
     <1>26, <1>27
     DEF Next, Accounts, Serve, Internal

\* Only the callback takes a session of its own up, and it takes its own.
LEMMA OwnTimerStep == IndInv /\ HoldInv /\ [Next]_vars => OwnTimer'
<1> SUFFICES ASSUME TypeOK, OwnTimer, [Next]_vars PROVE OwnTimer'
  BY DEF IndInv, HoldInv
<1> USE RegistryAssumption DEF OwnTimer, TypeOK, db, registry, fields, sockets, control, Goto, Actor
<1>1. ASSUME SignInAgain PROVE OwnTimer'
  BY <1>1 DEF SignInAgain
<1>2. ASSUME NEW D \in SUBSET Device, SignOut(D) PROVE OwnTimer'
  BY <1>2 DEF SignOut
<1>3. ASSUME NEW r \in bus, LoseRevocation(r) PROVE OwnTimer'
  BY <1>3 DEF LoseRevocation
<1>4. ASSUME NEW c \in Conn, Track(c) PROVE OwnTimer'
  BY <1>4 DEF Track
<1>5. ASSUME NEW c \in Conn, NEW k \in SignIns, NEW s \in Sess, NewSession(c, k, s) PROVE OwnTimer'
  BY <1>5 DEF NewSession
<1>6. ASSUME NEW c \in Conn, NEW k \in SignIns, NEW s \in Sess, LookupSession(c, k, s) PROVE OwnTimer'
  BY <1>6 DEF LookupSession, Reading
<1>7. ASSUME NEW c \in Conn, NEW s \in Sess, StopSuperseded(c, s) PROVE OwnTimer'
  BY <1>7 DEF StopSuperseded, Stop
<1>8. ASSUME NEW c \in Conn, Refuse(c) PROVE OwnTimer'
  BY <1>8 DEF Refuse
<1>9. ASSUME NEW c \in Conn, CheckLive(c) PROVE OwnTimer'
  BY <1>9 DEF CheckLive
<1>10. ASSUME NEW c \in Conn, Attach(c) PROVE OwnTimer'
  BY <1>10 DEF Attach
<1>11. ASSUME NEW c \in Conn, BecomeReady(c) PROVE OwnTimer'
  BY <1>11 DEF BecomeReady
<1>12. ASSUME NEW c \in Conn, ResumeAttach(c) PROVE OwnTimer'
  BY <1>12 DEF ResumeAttach
<1>13. ASSUME NEW c \in Conn, ResumeRefused(c) PROVE OwnTimer'
  BY <1>13 DEF ResumeRefused
<1>14. ASSUME NEW c \in Conn, Heartbeat(c) PROVE OwnTimer'
  BY <1>14 DEF Heartbeat, Reading
<1>15. ASSUME NEW c \in Conn, Exit(c) PROVE OwnTimer'
  BY <1>15 DEF Exit
<1>16. ASSUME NEW c \in Conn, Disconnect(c) \/ CloseLands(c) PROVE OwnTimer'
  BY <1>16 DEF Disconnect, CloseLands
<1>17. ASSUME NEW s \in Sess, TimerFires(s) PROVE OwnTimer'
  BY <1>17 DEF TimerFires
<1>18. ASSUME NEW s \in Sess, ExpireSession(s) PROVE OwnTimer'
  BY <1>18 DEF ExpireSession
<1>19. ASSUME NEW r \in bus, OnRevocation(r) PROVE OwnTimer'
  BY <1>19 DEF OnRevocation
<1>20. ASSUME NEW s \in Sess, RevokeNext(s) PROVE OwnTimer'
  BY <1>20 DEF RevokeNext
<1>21. ASSUME NEW s \in Sess, ShutdownDrop(s) PROVE OwnTimer'
  BY <1>21 DEF ShutdownDrop
<1>22. ASSUME Shutdown PROVE OwnTimer'
  BY <1>22 DEF Shutdown
<1>23. ASSUME ShutdownCollect PROVE OwnTimer'
  BY <1>23 DEF ShutdownCollect
<1>24. ASSUME NEW a \in Actor, TakeConn(a) PROVE OwnTimer'
  BY <1>24 DEF TakeConn
<1>25. ASSUME NEW a \in Actor, DropFromMap(a) PROVE OwnTimer'
  BY <1>25 DEF DropFromMap
<1>26. ASSUME NEW a \in Actor, StopDropped(a) PROVE OwnTimer'
  BY <1>26 DEF StopDropped, Stop, Return
<1>27. ASSUME UNCHANGED vars PROVE OwnTimer'
  BY <1>27 DEF vars
<1> HIDE DEF OwnTimer, TypeOK, Actor
<1> QED
  BY <1>1, <1>2, <1>3, <1>4, <1>5, <1>6, <1>7, <1>8, <1>9, <1>10, <1>11, <1>12, <1>13,
     <1>14, <1>15, <1>16, <1>17, <1>18, <1>19, <1>20, <1>21, <1>22, <1>23, <1>24, <1>25,
     <1>26, <1>27
     DEF Next, Accounts, Serve, Internal

Remembered(x) ==
  \/ sconn[x] # None /\ pc[sconn[x]] # "gone"
  \/ sconn[x] = None /\ x \in expiry
  \/ sconn[x] = None /\ x \in todo[Bus] \cup todo[Server]
  \/ \E a \in Actor : at[a] = x /\ pc[a] # "resume"

\* Nothing happens to what will let go of x.
StillRemembered(x) ==
  /\ x \in sessions /\ sconn'[x] = sconn[x] /\ (x \in expiry => x \in expiry')
  /\ x \in todo[Bus] \cup todo[Server] => x \in todo'[Bus] \cup todo'[Server]
  /\ \A c \in Conn : pc[c] # "gone" => pc'[c] # "gone"
  /\ \A a \in Actor : at[a] = x /\ pc[a] # "resume" => at'[a] = x /\ pc'[a] # "resume"

\* Then it is remembered as before.
LEMMA StillRememberedIs ==
  ASSUME TypeOK, NoForgottenSession, NEW x \in sessions, StillRemembered(x) PROVE Remembered(x)'
<1>1. Remembered(x) /\ x \in Sess
  BY DEF NoForgottenSession, Remembered, TypeOK
<1>2. CASE sconn[x] # None /\ pc[sconn[x]] # "gone"
  BY <1>1, <1>2 DEF StillRemembered, Remembered, TypeOK
<1>3. CASE sconn[x] = None /\ x \in expiry \cup todo[Bus] \cup todo[Server]
  BY <1>3 DEF StillRemembered, Remembered
<1>4. CASE \E a \in Actor : at[a] = x /\ pc[a] # "resume"
  BY <1>4 DEF StillRemembered, Remembered
<1> QED BY <1>1, <1>2, <1>3, <1>4 DEF Remembered

\* A session is let go of only into its window or into the hands of who drops it.
LEMMA ForgottenStep == IndInv /\ HoldInv /\ [Next]_vars => NoForgottenSession'
<1> SUFFICES ASSUME IndInv, TypeOK, HoldsUsed, StoppedAreOut, RegisteredIsIndexed, Holding, OwnTimer, Attached, CreatedIsHeld, NoForgottenSession, [Next]_vars PROVE NoForgottenSession'
  BY DEF IndInv, HoldInv
<1> USE RegistryAssumption DEF StoppedAreOut, HoldsUsed, Working, Holding, TypeOK, db, registry, fields, sockets, control, Goto, Actor
<1>1. ASSUME SignInAgain PROVE NoForgottenSession'
  BY <1>1 DEF NoForgottenSession, RegisteredIsIndexed, SignInAgain
<1>2. ASSUME NEW D \in SUBSET Device, SignOut(D) PROVE NoForgottenSession'
  BY <1>2 DEF NoForgottenSession, RegisteredIsIndexed, SignOut
<1>3. ASSUME NEW r \in bus, LoseRevocation(r) PROVE NoForgottenSession'
  BY <1>3 DEF NoForgottenSession, RegisteredIsIndexed, LoseRevocation
<1>4. ASSUME NEW c \in Conn, Track(c) PROVE NoForgottenSession'
  BY <1>4 DEF NoForgottenSession, RegisteredIsIndexed, Track
<1>5. ASSUME NEW c \in Conn, NEW k \in SignIns, NEW s \in Sess, NewSession(c, k, s) PROVE NoForgottenSession'
  <2> SUFFICES ASSUME NEW x \in sessions' PROVE Remembered(x)'
    BY DEF NoForgottenSession, Remembered
  <2>0. at[c] = None /\ pc[c] = "idle" /\ s # None /\ c \notin {Bus, Server} /\ UNCHANGED <<sconn, expiry>>
        /\ sessions' \subseteq sessions \cup {s} /\ todo'[Bus] = todo[Bus] /\ todo'[Server] = todo[Server]
    BY <1>5 DEF NewSession, Reading
  <2>1. CASE Goto(c, "refuse") /\ sessions' \subseteq sessions /\ UNCHANGED at
    <3>1. StillRemembered(x)
      BY <2>0, <2>1 DEF StillRemembered
    <3> QED BY <2>1, <3>1, StillRememberedIs
  <2>2. CASE at' = [at EXCEPT ![c] = s] /\ Goto(c, "attach")
    <3>1. CASE x = s
      BY <2>2, <3>1 DEF Remembered
    <3>2. CASE x # s
      <4>1. StillRemembered(x)
        BY <2>0, <2>2, <3>2 DEF StillRemembered
      <4> QED BY <2>0, <3>2, <4>1, StillRememberedIs
    <3> QED BY <3>1, <3>2
  <2> QED BY <1>5, <2>1, <2>2 DEF NewSession
<1>6. ASSUME NEW c \in Conn, NEW k \in SignIns, NEW s \in Sess, LookupSession(c, k, s) PROVE NoForgottenSession'
  <2> SUFFICES ASSUME NEW x \in sessions' PROVE Remembered(x)'
    BY DEF NoForgottenSession, Remembered
  <2>1. at[c] = None /\ x # None /\ UNCHANGED <<sessions, sconn, expiry, todo>> /\ pc[c] = "idle"
        /\ at' = [at EXCEPT ![c] = s] /\ pc' = [pc EXCEPT ![c] = "resume"]
    <3>1. pc[c] = "idle" /\ x # None /\ c \in Actor
      BY <1>6 DEF LookupSession, Reading
    <3>2. at[c] = None
      BY <3>1
    <3> QED BY <1>6, <3>1, <3>2 DEF LookupSession
  <2>2. StillRemembered(x)
    BY <2>1 DEF StillRemembered
  <2> QED BY <2>1, <2>2, StillRememberedIs
<1>7. ASSUME NEW c \in Conn, NEW s \in Sess, StopSuperseded(c, s) PROVE NoForgottenSession'
  BY <1>7 DEF NoForgottenSession, RegisteredIsIndexed, StopSuperseded, Stop
<1>8. ASSUME NEW c \in Conn, Refuse(c) PROVE NoForgottenSession'
  BY <1>8 DEF NoForgottenSession, RegisteredIsIndexed, Refuse
<1>9. ASSUME NEW c \in Conn, CheckLive(c) PROVE NoForgottenSession'
  <2> SUFFICES ASSUME NEW x \in sessions' PROVE Remembered(x)'
    BY DEF NoForgottenSession, Remembered
  <2>0. sessions' = sessions /\ UNCHANGED <<sconn, expiry, todo, at>>
        /\ \A a \in Actor \ {c} : pc'[a] = pc[a]
    BY <1>9 DEF CheckLive
  <2>1. pc'[c] \in {"ready", "drop"}
    BY <1>9 DEF CheckLive
  <2>2. StillRemembered(x)
    BY <2>0, <2>1 DEF StillRemembered
  <2> QED BY <2>0, <2>2, StillRememberedIs
<1>10. ASSUME NEW c \in Conn, Attach(c) PROVE NoForgottenSession'
  <2> SUFFICES ASSUME NEW x \in sessions' PROVE Remembered(x)'
    BY DEF NoForgottenSession, Remembered
  <2>0. sessions' = sessions /\ at[c] \in Sess
    BY <1>10 DEF Attach
  <2>1. CASE x = at[c]
    <3>1. sconn'[x] = c /\ pc'[c] = "live" /\ c # None
      BY <1>10, <2>0, <2>1 DEF Attach
    <3> QED BY <3>1 DEF Remembered
  <2>2. CASE x # at[c]
    <3>1. StillRemembered(x)
      BY <1>10, <2>0, <2>2 DEF Attach, StillRemembered
    <3> QED BY <2>0, <3>1, StillRememberedIs
  <2> QED BY <2>1, <2>2
<1>11. ASSUME NEW c \in Conn, BecomeReady(c) PROVE NoForgottenSession'
  <2> SUFFICES ASSUME NEW x \in sessions' PROVE Remembered(x)'
    BY DEF NoForgottenSession, Remembered
  <2>0. sessions' = sessions /\ UNCHANGED <<sconn, expiry, todo>> /\ at[c] \in Sess /\ pc[c] = "ready"
    BY <1>11 DEF BecomeReady
  <2>1. CASE Goto(c, "drop") /\ UNCHANGED at
    <3>1. StillRemembered(x)
      BY <2>0, <2>1 DEF StillRemembered
    <3> QED BY <2>0, <3>1, StillRememberedIs
  <2>2. CASE Goto(c, "idle") /\ at' = [at EXCEPT ![c] = None]
    <3>1. CASE x # at[c]
      <4>1. StillRemembered(x)
        BY <2>0, <2>2, <3>1 DEF StillRemembered
      <4> QED BY <2>0, <4>1, StillRememberedIs
    <3>2. CASE x = at[c] /\ sconn[x] = c
      <4>1. sconn'[x] = c /\ pc'[c] = "idle" /\ c # None
        BY <2>0, <2>2, <3>2
      <4> QED BY <4>1 DEF Remembered
    <3>3. CASE x = at[c] /\ sconn[x] # c
      <4>1. PICK a \in Actor : at[a] = x /\ pc[a] = "drop"
        BY <2>0, <3>3 DEF CreatedIsHeld
      <4>2. at'[a] = x /\ pc'[a] = "drop"
        BY <2>0, <2>2, <4>1
      <4> QED BY <4>2 DEF Remembered
    <3> QED BY <3>1, <3>2, <3>3
  <2> QED BY <1>11, <2>1, <2>2 DEF BecomeReady
<1>12. ASSUME NEW c \in Conn, ResumeAttach(c) PROVE NoForgottenSession'
  <2> SUFFICES ASSUME NEW x \in sessions' PROVE Remembered(x)'
    BY DEF NoForgottenSession, Remembered
  <2>0. sessions' = sessions /\ at[c] \in Sess
    BY <1>12 DEF ResumeAttach
  <2>1. CASE x = at[c]
    <3>1. sconn'[x] = c /\ pc'[c] = "idle" /\ c # None
      BY <1>12, <2>0, <2>1 DEF ResumeAttach
    <3> QED BY <3>1 DEF Remembered
  <2>2. CASE x # at[c]
    <3>1. StillRemembered(x)
      BY <1>12, <2>0, <2>2 DEF ResumeAttach, StillRemembered
    <3> QED BY <2>0, <3>1, StillRememberedIs
  <2> QED BY <2>1, <2>2
<1>13. ASSUME NEW c \in Conn, ResumeRefused(c) PROVE NoForgottenSession'
  <2> SUFFICES ASSUME NEW x \in sessions' PROVE Remembered(x)'
    BY DEF NoForgottenSession, Remembered
  <2>0. sessions' = sessions /\ UNCHANGED <<sconn, expiry, todo>> /\ pc[c] = "resume"
        /\ \A a \in Actor \ {c} : at'[a] = at[a] /\ pc'[a] = pc[a]
    BY <1>13 DEF ResumeRefused
  <2>1. pc'[c] # "gone"
    BY <1>13 DEF ResumeRefused
  <2>2. StillRemembered(x)
    BY <2>0, <2>1 DEF StillRemembered
  <2> QED BY <2>0, <2>2, StillRememberedIs
<1>14. ASSUME NEW c \in Conn, Heartbeat(c) PROVE NoForgottenSession'
  <2> SUFFICES ASSUME NEW x \in sessions' PROVE Remembered(x)'
    BY DEF NoForgottenSession, Remembered
  <2>0. sessions' = sessions /\ UNCHANGED <<sconn, expiry, todo>> /\ at[c] = None /\ x # None
        /\ at' = [at EXCEPT ![c] = csess[c]] /\ pc' = [pc EXCEPT ![c] = "take"]
    BY <1>14 DEF Heartbeat, Reading
  <2>1. StillRemembered(x)
    BY <2>0 DEF StillRemembered
  <2> QED BY <2>0, <2>1, StillRememberedIs
<1>15. ASSUME NEW c \in Conn, Exit(c) PROVE NoForgottenSession'
  <2> SUFFICES ASSUME NEW x \in sessions' PROVE Remembered(x)'
    BY DEF NoForgottenSession, Remembered
  <2>0. sessions' = sessions /\ UNCHANGED <<at, todo>> /\ pc' = [pc EXCEPT ![c] = "gone"] /\ expiry \subseteq expiry'
        /\ x \in Sess /\ x \notin ended
    BY <1>15 DEF Exit, RegisteredIsIndexed
  <2>1. CASE sconn[x] = c
    <3>1. csess[c] = x
      BY <2>0, <2>1 DEF Attached
    <3>2. sconn'[x] = None /\ x \in expiry'
      BY <1>15, <2>0, <2>1, <3>1 DEF Exit
    <3> QED BY <3>2 DEF Remembered
  <2>2. CASE sconn[x] # c
    <3>1. sconn'[x] = sconn[x]
      BY <1>15, <2>2 DEF Exit
    <3>2. Remembered(x)
      BY <2>0 DEF NoForgottenSession, Remembered
    <3>3. \A a \in Actor : at[a] = x /\ pc[a] # "resume" => at'[a] = x /\ pc'[a] # "resume"
      BY <2>0
    <3>4. sconn[x] # None /\ pc[sconn[x]] # "gone" => sconn'[x] # None /\ pc'[sconn'[x]] # "gone"
      BY <2>0, <2>2, <3>1
    <3> QED BY <2>0, <3>1, <3>2, <3>3, <3>4 DEF Remembered
  <2> QED BY <2>1, <2>2
<1>16. ASSUME NEW c \in Conn, Disconnect(c) \/ CloseLands(c) PROVE NoForgottenSession'
  <2> SUFFICES ASSUME NEW x \in sessions' PROVE Remembered(x)'
    BY DEF NoForgottenSession, Remembered
  <2>1. StillRemembered(x) /\ sessions' = sessions
    BY <1>16 DEF Disconnect, CloseLands, StillRemembered
  <2> QED BY <2>1, StillRememberedIs
<1>17. ASSUME NEW s \in Sess, TimerFires(s) PROVE NoForgottenSession'
  BY <1>17 DEF NoForgottenSession, RegisteredIsIndexed, TimerFires
<1>18. ASSUME NEW s \in Sess, ExpireSession(s) PROVE NoForgottenSession'
  <2> SUFFICES ASSUME NEW x \in sessions' PROVE Remembered(x)'
    BY DEF NoForgottenSession, Remembered
  <2>0. sessions' = sessions /\ UNCHANGED <<sconn, expiry, todo>> /\ s \notin Conn /\ s \in Actor
    BY <1>18 DEF ExpireSession
  <2>1. CASE Goto(s, "drop") /\ UNCHANGED at
    <3>1. StillRemembered(x)
      BY <2>0, <2>1 DEF StillRemembered
    <3> QED BY <2>0, <3>1, StillRememberedIs
  <2>2. CASE Goto(s, "idle") /\ at' = [at EXCEPT ![s] = None] /\ sconn[s] # None
    <3>1. CASE x # s
      <4>1. StillRemembered(x)
        BY <2>0, <2>2, <3>1 DEF StillRemembered, OwnTimer
      <4> QED BY <2>0, <4>1, StillRememberedIs
    <3>2. CASE x = s
      <4>1. sconn[x] \in Conn /\ pc[sconn[x]] # "gone" /\ sconn[x] # s
        BY <2>0, <2>2, <3>2 DEF Attached
      <4> QED BY <2>0, <2>2, <3>2, <4>1 DEF Remembered
    <3> QED BY <3>1, <3>2
  <2> QED BY <1>18, <2>1, <2>2 DEF ExpireSession
<1>19. ASSUME NEW r \in bus, OnRevocation(r) PROVE NoForgottenSession'
  BY <1>19 DEF NoForgottenSession, RegisteredIsIndexed, OnRevocation
<1>20. ASSUME NEW s \in Sess, RevokeNext(s) PROVE NoForgottenSession'
  <2> SUFFICES ASSUME NEW x \in sessions' PROVE Remembered(x)'
    BY DEF NoForgottenSession, Remembered
  <2>0. sessions' = sessions /\ UNCHANGED <<sconn, expiry>> /\ Bus \in Actor /\ at[Bus] = None /\ x # None
        /\ at' = [at EXCEPT ![Bus] = s] /\ pc' = [pc EXCEPT ![Bus] = "take"] /\ Bus \notin Conn
        /\ todo' = [todo EXCEPT ![Bus] = todo[Bus] \ {s}]
    <3>1. Bus \in Actor /\ Bus \notin Conn /\ x # None /\ pc[Bus] = "idle"
      BY <1>20 DEF RevokeNext
    <3>2. at[Bus] = None
      BY <3>1
    <3> QED BY <1>20, <3>1, <3>2 DEF RevokeNext
  <2>1. CASE x = s
    BY <2>0, <2>1 DEF Remembered
  <2>2. CASE x # s
    <3>1. StillRemembered(x)
      BY <2>0, <2>2 DEF StillRemembered, Bus, Server
    <3> QED BY <2>0, <3>1, StillRememberedIs
  <2> QED BY <2>1, <2>2
<1>21. ASSUME NEW s \in Sess, ShutdownDrop(s) PROVE NoForgottenSession'
  <2> SUFFICES ASSUME NEW x \in sessions' PROVE Remembered(x)'
    BY DEF NoForgottenSession, Remembered
  <2>0. sessions' = sessions /\ UNCHANGED <<sconn, expiry>> /\ Server \in Actor /\ at[Server] = None /\ x # None
        /\ at' = [at EXCEPT ![Server] = s] /\ pc' = [pc EXCEPT ![Server] = "drop"] /\ Server \notin Conn
        /\ todo' = [todo EXCEPT ![Server] = todo[Server] \ {s}]
    <3>1. Server \in Actor /\ Server \notin Conn /\ x # None /\ pc[Server] = "collected"
      BY <1>21 DEF ShutdownDrop
    <3>2. at[Server] = None
      BY <3>1
    <3> QED BY <1>21, <3>1, <3>2 DEF ShutdownDrop
  <2>1. CASE x = s
    BY <2>0, <2>1 DEF Remembered
  <2>2. CASE x # s
    <3>1. StillRemembered(x)
      BY <2>0, <2>2 DEF StillRemembered, Bus, Server
    <3> QED BY <2>0, <3>1, StillRememberedIs
  <2> QED BY <2>1, <2>2
<1>22. ASSUME Shutdown PROVE NoForgottenSession'
  BY <1>22 DEF NoForgottenSession, RegisteredIsIndexed, Shutdown
<1>23. ASSUME ShutdownCollect PROVE NoForgottenSession'
  BY <1>23 DEF NoForgottenSession, RegisteredIsIndexed, ShutdownCollect
<1>24. ASSUME NEW a \in Actor, TakeConn(a) PROVE NoForgottenSession'
  <2> SUFFICES ASSUME NEW x \in sessions' PROVE Remembered(x)'
    BY DEF NoForgottenSession, Remembered
  <2>0. sessions' = sessions /\ at[a] \in Sess
    BY <1>24 DEF TakeConn
  <2>1. CASE x = at[a]
    <3>1. at'[a] = x /\ pc'[a] = "drop"
      BY <1>24, <2>0, <2>1 DEF TakeConn
    <3> QED BY <3>1 DEF Remembered
  <2>2. CASE x # at[a]
    <3>1. StillRemembered(x)
      BY <1>24, <2>0, <2>2 DEF TakeConn, StillRemembered
    <3> QED BY <2>0, <3>1, StillRememberedIs
  <2> QED BY <2>1, <2>2
<1>25. ASSUME NEW a \in Actor, DropFromMap(a) PROVE NoForgottenSession'
  BY <1>25 DEF NoForgottenSession, RegisteredIsIndexed, DropFromMap
<1>26. ASSUME NEW a \in Actor, StopDropped(a) PROVE NoForgottenSession'
  BY <1>26 DEF NoForgottenSession, RegisteredIsIndexed, StopDropped, Stop, Return
<1>27. ASSUME UNCHANGED vars PROVE NoForgottenSession'
  BY <1>27 DEF NoForgottenSession, RegisteredIsIndexed, vars
<1> HIDE DEF StoppedAreOut, HoldsUsed, Working, Holding, TypeOK, Actor
<1> QED
  BY <1>1, <1>2, <1>3, <1>4, <1>5, <1>6, <1>7, <1>8, <1>9, <1>10, <1>11, <1>12, <1>13,
     <1>14, <1>15, <1>16, <1>17, <1>18, <1>19, <1>20, <1>21, <1>22, <1>23, <1>24, <1>25,
     <1>26, <1>27
     DEF Next, Accounts, Serve, Internal

\* The invariant about connections holds in every reachable state.
LEMMA HoldInvHolds == Spec => []HoldInv
<1>1. IndInv /\ HoldInv /\ [Next]_vars => HoldInv'
  BY HoldingStep, AttachedStep, ServedStep, CreatedStep, OwnTimerStep, ForgottenStep DEF HoldInv
<1> QED BY <1>1, HoldInit, IndInvHolds, PTL DEF Spec

\* However connections resume, are replaced, dropped and revoked, no two sockets are served
\* on one stream, and a registered session has a socket, a running window, or a goroutine
\* that is dropping it (session.go resume, detach; gateway.go expireSession).
THEOREM NoSessionStrays == Spec => []NoStraySession
<1>1. ASSUME TypeOK, HoldInv, NEW c \in Conn, NEW d \in Conn, c # d, Served(c), Served(d), csess[c] # None
      PROVE  csess[c] # csess[d]
  BY <1>1 DEF HoldInv, ServedHasSession
<1>2. IndInv /\ HoldInv => NoStraySession
  BY <1>1 DEF NoStraySession, OneSocketPerStream, HoldInv, IndInv
<1> QED BY <1>2, IndInvHolds, HoldInvHolds, PTL
================================================================================
