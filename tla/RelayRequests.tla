----------------------------- MODULE RelayRequests -----------------------------
(***************************************************************************)
(* A client's requests through the daemon: handle's table of what is in    *)
(* flight, and relay.Do, which sends with the session's access token and,  *)
(* refused, once more with a renewed one. A sign-in is its generation.     *)
(***************************************************************************)
EXTENDS Naturals, FiniteSets

CONSTANTS
  RequestIds,    \* the ids a client chooses for its requests
  MaxSignedIn,   \* sign-ins
  MaxRenewed,    \* access tokens of a sign-in
  MaxInFlight

ASSUME RelayAssumption == {MaxSignedIn, MaxRenewed, MaxInFlight} \subseteq Nat

VARIABLES
  named,      \* [gen, token]: the session's credential; gen 0 when signed out
  accepted,   \* whether the instance still accepts that access token
  stale,      \* the session was told its token was rejected, and will renew it
  attached,   \* the connection stands
  inflight,   \* the ids handle has let in
  request     \* id -> the request with it

relayVars == <<named, accepted, stale, attached, inflight, request>>

NoCredential == [gen |-> 0, token |-> 0]
Credentials == [gen : 0..MaxSignedIn, token : 0..MaxRenewed]
NoRequest == [at |-> "none", cred |-> NoCredential, sentAs |-> {}]

RelayInit ==
  /\ named = NoCredential /\ accepted = FALSE /\ stale = FALSE /\ attached = TRUE
  /\ inflight = {} /\ request = [q \in RequestIds |-> NoRequest]

-----------------------------------------------------------------------------
(* The session.                                                            *)

SignInAgain ==
  /\ \E g \in 1..MaxSignedIn : g > named.gen /\ (\A q \in RequestIds : g > request[q].cred.gen)
                            /\ named' = [gen |-> g, token |-> 0]
  /\ accepted' = TRUE /\ stale' = FALSE /\ UNCHANGED <<attached, inflight, request>>

SignOutOfSession ==
  /\ named.gen # 0 /\ named' = NoCredential
  /\ accepted' = FALSE /\ stale' = FALSE /\ UNCHANGED <<attached, inflight, request>>

RenewToken ==
  /\ named.gen # 0 /\ named.token < MaxRenewed
  /\ named' = [named EXCEPT !.token = @ + 1] /\ accepted' = TRUE /\ stale' = FALSE
  /\ UNCHANGED <<attached, inflight, request>>

\* The token expires, or the sign-in is revoked, at the instance.
Unaccept == accepted /\ accepted' = FALSE /\ UNCHANGED <<named, stale, attached, inflight, request>>

-----------------------------------------------------------------------------
(* A request.                                                              *)

\* handle: a second request with an id in flight, or one past the limit, is refused at once.
Handle(q) ==
  /\ attached /\ request[q].at \in {"none", "answered"}
  /\ q \notin inflight /\ Cardinality(inflight) < MaxInFlight
  /\ inflight' = inflight \cup {q}
  /\ request' = [request EXCEPT ![q] = [NoRequest EXCEPT !.at = "asking"]]
  /\ UNCHANGED <<named, accepted, stale, attached>>

Answer(q) == [request EXCEPT ![q].at = "answered"]

\* Do's credential: CurrentUnlessSignedOut, which a stale one is not.
TakeCredential(q) ==
  /\ request[q].at = "asking" /\ named.gen # 0 /\ ~stale
  /\ request' = [request EXCEPT ![q].at = "sending", ![q].cred = named]
  /\ UNCHANGED <<named, accepted, stale, attached, inflight>>

\* send, which the instance answers.
SendRequest(q) ==
  /\ request[q].at \in {"sending", "again"}
  /\ LET r == request[q]
         ok == r.cred = named /\ accepted
         sent == [r EXCEPT !.sentAs = @ \cup {r.cred.gen},
                           !.at = IF ok \/ r.at = "again" THEN "answered" ELSE "refused"]
     IN  /\ request' = [request EXCEPT ![q] = sent]
         /\ stale' = (stale \/ (~ok /\ r.at = "sending" /\ r.cred = named))
         /\ inflight' = IF sent.at = "answered" THEN inflight \ {q} ELSE inflight
  /\ UNCHANGED <<named, accepted, attached>>

\* Mutant: the renewed credential is taken for the same account's.
SendsAgainAnyway(cred) == TRUE

\* The renewed credential is of the sign-in the request was sent as.
SendsAgain(cred) == cred.gen = named.gen

\* Do, refused once: the renewed credential, or the answer that the sign-in changed.
Again(q) ==
  /\ request[q].at = "refused" /\ named.gen # 0 /\ ~stale
  /\ request' = IF SendsAgain(request[q].cred)
                THEN [request EXCEPT ![q].at = "again", ![q].cred = named] ELSE Answer(q)
  /\ inflight' = IF SendsAgain(request[q].cred) THEN inflight ELSE inflight \ {q}
  /\ UNCHANGED <<named, accepted, stale, attached>>

\* Signed out, unreachable, or not signed in within signInWait.
FailRequest(q) ==
  /\ request[q].at \in {"asking", "sending", "refused", "again"}
  /\ request' = Answer(q) /\ inflight' = inflight \ {q}
  /\ UNCHANGED <<named, accepted, stale, attached>>

\* kill cancels the connection's requests, and serveConn waits for them.
KillConnection == attached /\ attached' = FALSE /\ UNCHANGED <<named, accepted, stale, inflight, request>>

RelayNext ==
  \/ SignInAgain \/ SignOutOfSession \/ RenewToken \/ Unaccept \/ KillConnection
  \/ \E q \in RequestIds :
       Handle(q) \/ TakeCredential(q) \/ SendRequest(q) \/ Again(q) \/ FailRequest(q)

RelaySpec == RelayInit /\ [][RelayNext]_relayVars

-----------------------------------------------------------------------------
RelayTypeOK ==
  /\ named \in Credentials /\ accepted \in BOOLEAN /\ stale \in BOOLEAN /\ attached \in BOOLEAN
  /\ inflight \subseteq RequestIds /\ Cardinality(inflight) <= MaxInFlight
  /\ request \in [RequestIds -> [at : {"none", "asking", "sending", "refused", "again", "answered"},
                                 cred : Credentials, sentAs : SUBSET (0..MaxSignedIn)]]

\* A request the instance refused is repeated as the account it was made for or not at all, though
\* somebody signs in between the two attempts (Do, relay.go:147).
OneAccountPerRequest == \A q \in RequestIds : Cardinality(request[q].sentAs) <= 1
=============================================================================
