---------------------------- MODULE DaemonSession ----------------------------
(***************************************************************************)
(* The daemon's session source and the credential store it shares with     *)
(* `norite login` and `norite logout`: one refresh token in the store, the *)
(* newest one in the daemon's memory, and the instance that rotates it.    *)
(* The sign-ins are on one account, instance and device, the case in which *)
(* a record names every one of them alike. A token is <<sign-in, rotation>>.*)
(* A store operation holds the lock file throughout and is one step.       *)
(***************************************************************************)
EXTENDS Naturals

CONSTANTS
  MaxSignIns,    \* how often somebody signs in
  MaxRotations   \* how often a sign-in's token is renewed

ASSUME SessionAssumption == MaxSignIns \in Nat /\ MaxRotations \in Nat

VARIABLES
  issued,     \* the instance: the sign-ins so far
  rotation,   \* the instance: the newest rotation of each
  over,       \* the instance: the sign-ins it has revoked
  store,      \* [record, secret]: the record file and the secret beside it
  cli,        \* the sign-in a `norite login` has obtained and not yet saved
  lastSaved,  \* history: the sign-in the last login saved; 0 after a logout
  pc,         \* where Run is
  have, current, stored, dead,  \* Source's own fields of the same names
  refused,    \* keepLive's answer, which signIn reads
  reload,     \* the pending nudge: the store's record changed
  phase,      \* starting, signedOut, live
  read,       \* what Load returned
  pair,       \* the refresh token in the instance's answer
  taken,      \* history: the sign-ins this process took up
  faulted     \* history: the sign-ins a fault has cost their newest token

sessionVars == <<issued, rotation, over, store, cli, lastSaved, pc, have, current, stored,
                 dead, refused, reload, phase, read, pair, taken, faulted>>
instanceVars == <<issued, rotation, over>>
cliVars == <<cli, lastSaved>>
sourceVars == <<have, current, stored, dead>>
historyVars == <<taken, faulted>>

SignIns == 1..MaxSignIns
NoToken == <<0, 0>>
Tokens == (SignIns \X (0..MaxRotations)) \cup {NoToken}
Newest(k) == <<k, rotation[k]>>
Gone == [record |-> FALSE, secret |-> NoToken]

SessionInit ==
  /\ issued = 0 /\ rotation = [k \in SignIns |-> 0] /\ over = {}
  /\ store = Gone /\ cli = 0 /\ lastSaved = 0
  /\ pc = "down" /\ have = FALSE /\ current = NoToken /\ stored = NoToken /\ dead = NoToken
  /\ refused = FALSE /\ reload = FALSE /\ phase = "starting"
  /\ read = Gone /\ pair = NoToken /\ taken = {} /\ faulted = {}

-----------------------------------------------------------------------------
(* The command line.                                                       *)

\* The instance issues a sign-in and supersedes the device's earlier ones.
Login ==
  /\ cli = 0 /\ issued < MaxSignIns
  /\ issued' = issued + 1 /\ cli' = issued + 1 /\ over' = 1..issued
  /\ UNCHANGED <<rotation, store, lastSaved, pc, sourceVars, refused, reload, phase, read, pair,
                 historyVars>>

\* Save: the secret, then the record, whose change the daemon's watch reports.
Save ==
  /\ cli # 0
  /\ store' = [record |-> TRUE, secret |-> <<cli, 0>>]
  /\ cli' = 0 /\ lastSaved' = cli /\ reload' = (pc # "down")
  /\ UNCHANGED <<instanceVars, pc, sourceVars, refused, phase, read, pair, historyVars>>

\* Clear: the secret, then the record. Nothing is said to the instance.
Clear ==
  /\ store.record
  /\ store' = Gone /\ lastSaved' = 0 /\ reload' = (pc # "down")
  /\ taken' = IF pc = "down" THEN {} ELSE taken
  /\ UNCHANGED <<instanceVars, cli, pc, sourceVars, refused, phase, read, pair, faulted>>

-----------------------------------------------------------------------------
(* What the daemon asks of the instance and of the store.                  *)

\* handBackToken signs the token's session out, and only warns when it cannot.
HandBack(token, delivered) ==
  /\ over' = IF delivered /\ token = Newest(token[1]) THEN over \cup {token[1]} ELSE over
  /\ faulted' = IF delivered THEN faulted ELSE faulted \cup {token[1]}

\* Mutant: the record is compared and the secret is not.
ReplaceableUnlessGone(spent) == store.record

\* ReplaceToken writes only while the store still holds the token that was spent.
Replaceable(spent) == store.record /\ store.secret = spent

\* Watch's nudge, or Revoked's, sends Run to the store; storeChanged.
StoreChanged == ~store.record \/ store.secret # stored

-----------------------------------------------------------------------------
(* Source.Run.                                                             *)

Start ==
  /\ pc = "down"
  /\ pc' = "signIn" /\ have' = FALSE /\ current' = NoToken /\ stored' = NoToken
  /\ dead' = NoToken /\ refused' = FALSE /\ reload' = FALSE /\ phase' = "starting" /\ taken' = {}
  /\ UNCHANGED <<instanceVars, store, cliVars, read, pair, faulted>>

\* signIn's Load. A store that cannot be read is read again, and changes nothing.
Load ==
  /\ pc = "signIn"
  /\ read' = store /\ pc' = "decide"
  /\ UNCHANGED <<instanceVars, store, cliVars, sourceVars, refused, reload, phase, pair, historyVars>>

\* No credential: signed out, the session held is handed back, and Run waits for the store.
SignedOut(delivered) ==
  /\ pc = "decide" /\ ~read.record
  /\ pc' = "wait" /\ phase' = "signedOut" /\ have' = FALSE
  /\ IF have THEN HandBack(current, delivered) ELSE UNCHANGED <<over, faulted>>
  /\ UNCHANGED <<issued, rotation, store, cliVars, current, stored, dead, refused, reload, read, pair,
                 taken>>

Known == stored # NoToken /\ read.secret = stored

\* The stored token is dead, or it is the one just refused.
Spent ==
  /\ pc = "decide" /\ read.record
  /\ read.secret = dead \/ (refused /\ Known)
  /\ pc' = "wait" /\ phase' = "signedOut" /\ dead' = read.secret /\ have' = FALSE
  /\ UNCHANGED <<instanceVars, store, cliVars, current, stored, refused, reload, read, pair, historyVars>>

Usable == pc = "decide" /\ read.record /\ read.secret # dead /\ ~(refused /\ Known)

\* The store still holds what this process took from it.
KeepSignIn ==
  /\ Usable /\ have /\ Known
  /\ pc' = "renew"
  /\ UNCHANGED <<instanceVars, store, cliVars, sourceVars, refused, reload, phase, read, pair, historyVars>>

\* Another sign-in is in the store: the session held is handed back, and the other one taken up.
TakeSignIn(delivered) ==
  /\ Usable /\ ~(have /\ Known)
  /\ IF have THEN HandBack(current, delivered) ELSE UNCHANGED <<over, faulted>>
  /\ have' = TRUE /\ current' = read.secret /\ stored' = read.secret
  /\ phase' = "starting" /\ pc' = "renew" /\ taken' = taken \cup {read.secret[1]}
  /\ UNCHANGED <<issued, rotation, store, cliVars, dead, refused, reload, read, pair>>

\* keepLive's refresh, answered with the next token.
Renew ==
  /\ pc = "renew" /\ current = Newest(current[1]) /\ current[1] \notin over
  /\ rotation[current[1]] < MaxRotations
  /\ rotation' = [rotation EXCEPT ![current[1]] = @ + 1]
  /\ pair' = <<current[1], rotation[current[1]] + 1>> /\ pc' = "write"
  /\ UNCHANGED <<issued, over, store, cliVars, sourceVars, refused, reload, phase, read, historyVars>>

\* The refresh rotated the token and its answer was lost.
LoseAnswer ==
  /\ pc = "renew" /\ current = Newest(current[1]) /\ current[1] \notin over
  /\ rotation[current[1]] < MaxRotations
  /\ rotation' = [rotation EXCEPT ![current[1]] = @ + 1]
  /\ faulted' = faulted \cup {current[1]} /\ pc' = "live"
  /\ UNCHANGED <<issued, over, store, cliVars, sourceVars, refused, reload, phase, read, pair, taken>>

\* The instance refuses: the sign-in is over, or a spent token is reuse, which ends it.
RenewRefused ==
  /\ pc = "renew" /\ (current # Newest(current[1]) \/ current[1] \in over)
  /\ over' = over \cup {current[1]}
  /\ dead' = current /\ have' = FALSE /\ phase' = "starting" /\ refused' = TRUE /\ pc' = "signIn"
  /\ UNCHANGED <<issued, rotation, store, cliVars, current, stored, reload, read, pair, historyVars>>

\* writeBack: the store holds the token that was spent.
WriteBack ==
  /\ pc = "write" /\ Replaceable(stored)
  /\ store' = [store EXCEPT !.secret = pair]
  /\ current' = pair /\ stored' = pair /\ phase' = "live" /\ pc' = "live"
  /\ UNCHANGED <<instanceVars, cliVars, have, dead, refused, reload, read, pair, historyVars>>

\* writeBack: somebody signed in or out meanwhile, and the token obtained goes back.
WriteBackChanged(delivered) ==
  /\ pc = "write" /\ ~Replaceable(stored)
  /\ HandBack(pair, delivered)
  /\ have' = FALSE /\ phase' = "starting" /\ refused' = FALSE /\ pc' = "signIn"
  /\ UNCHANGED <<issued, rotation, store, cliVars, current, stored, dead, reload, read, pair, taken>>

\* writeBack: the store could not be read or written. The session is kept, and stored later.
WriteBackUnavailable ==
  /\ pc = "write"
  /\ current' = pair /\ phase' = "live" /\ pc' = "live"
  /\ UNCHANGED <<instanceVars, store, cliVars, have, stored, dead, refused, reload, read, pair,
                 historyVars>>

\* waitUntilDue, waitLive and throttle: time for another refresh.
Due ==
  /\ pc = "live" /\ pc' = "renew"
  /\ UNCHANGED <<instanceVars, store, cliVars, sourceVars, refused, reload, phase, read, pair, historyVars>>

\* The same waits, nudged: back to the store if it changed.
Reload ==
  /\ pc = "live" /\ reload /\ reload' = FALSE
  /\ pc' = IF StoreChanged THEN "signIn" ELSE "live"
  /\ refused' = IF StoreChanged THEN FALSE ELSE refused
  /\ UNCHANGED <<instanceVars, store, cliVars, sourceVars, phase, read, pair, historyVars>>

\* waitForStore, signed out.
WaitForStore ==
  /\ pc = "wait" /\ reload /\ reload' = FALSE /\ pc' = "signIn"
  /\ UNCHANGED <<instanceVars, store, cliVars, sourceVars, refused, phase, read, pair, historyVars>>

-----------------------------------------------------------------------------
(* Stopping.                                                               *)

\* settleStore tries the write one last time, from the waits Run stops in.
SettleStore(written) ==
  /\ pc \in {"live", "wait"}
  /\ pc' = "down"
  /\ IF have /\ current # stored /\ written /\ Replaceable(stored)
     THEN store' = [store EXCEPT !.secret = current] /\ UNCHANGED faulted
     ELSE /\ UNCHANGED store
          /\ faulted' = IF have /\ current # stored THEN faulted \cup {current[1]} ELSE faulted
  /\ UNCHANGED <<instanceVars, cliVars, sourceVars, refused, reload, phase, read, pair, taken>>

\* The process dies: what only its memory held is lost.
Crash ==
  /\ pc # "down" /\ pc' = "down"
  /\ faulted' = faulted \cup {k \in SignIns : have /\ (current # stored \/ pc = "write") /\ k = current[1]}
  /\ UNCHANGED <<instanceVars, store, cliVars, sourceVars, refused, reload, phase, read, pair, taken>>

SessionNext ==
  \/ Login \/ Save \/ Clear
  \/ Start \/ Load \/ Spent \/ KeepSignIn
  \/ \E ok \in BOOLEAN : SignedOut(ok) \/ TakeSignIn(ok) \/ WriteBackChanged(ok) \/ SettleStore(ok)
  \/ Renew \/ LoseAnswer \/ RenewRefused \/ WriteBack \/ WriteBackUnavailable
  \/ Due \/ Reload \/ WaitForStore \/ Crash

SessionSpec == SessionInit /\ [][SessionNext]_sessionVars

-----------------------------------------------------------------------------
SessionTypeOK ==
  /\ issued \in 0..MaxSignIns /\ rotation \in [SignIns -> 0..MaxRotations] /\ over \subseteq SignIns
  /\ store \in [record : BOOLEAN, secret : Tokens] /\ read \in [record : BOOLEAN, secret : Tokens]
  /\ cli \in 0..MaxSignIns /\ lastSaved \in 0..MaxSignIns
  /\ pc \in {"down", "signIn", "decide", "wait", "renew", "write", "live"}
  /\ have \in BOOLEAN /\ {current, stored, dead, pair} \subseteq Tokens
  /\ refused \in BOOLEAN /\ reload \in BOOLEAN /\ phase \in {"starting", "signedOut", "live"}
  /\ taken \subseteq SignIns /\ faulted \subseteq SignIns

\* A renewal in flight never writes over the credential of a later login, and never brings back
\* the one a logout removed: the store holds a token of the sign-in saved last, or none
\* (ReplaceToken, credentials.go:471).
StoreIsTheLastSignIns ==
  IF lastSaved = 0 THEN store = Gone ELSE store.record /\ store.secret[1] = lastSaved

\* A sign-in the daemon took up and the instance still honours is reachable by somebody: the
\* store or the running daemon holds its newest token, unless a crash, a lost answer, a store that
\* would not be written at the end or an undelivered revocation cost it, or the daemon was stopped
\* before it heard that somebody had signed out (writeBack, settleStore, handBackToken).
NoSessionAbandoned ==
  \A k \in taken \ (over \cup faulted) :
    \/ store.secret = Newest(k)
    \/ pc # "down" /\ have /\ current = Newest(k)
    \/ pc = "write" /\ pair = Newest(k)
    \/ pc = "down" /\ lastSaved = 0
=============================================================================
