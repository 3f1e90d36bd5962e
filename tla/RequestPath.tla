----------------------------- MODULE RequestPath -----------------------------
(***************************************************************************)
(* A request's way to its handler: the rate limiter, the refusal while     *)
(* the instance starts, the credential made an actor, what the route asks  *)
(* of the actor, and the handler. One account on one device, which signs   *)
(* in again and again. An access token names the session row it was        *)
(* issued with and is good until it expires, whatever became of the row.   *)
(***************************************************************************)
EXTENDS Naturals, FiniteSets

CONSTANTS
  Calls,                \* requests that may be under way at once
  MaxSignedIn,          \* sign-ins
  MaxRefreshes,         \* refreshes of one sign-in
  MaxMinted,            \* API tokens
  rateLimit,            \* requests a window lets through
  MaxAttempts,          \* the bound on those counted
  maxConcurrentHashes   \* password hashes computed at once

\* There are finitely many requests at a time, and a slot to hash in.
ASSUME RequestPathAssumption ==
  /\ IsFiniteSet(Calls) /\ {MaxSignedIn, MaxRefreshes, MaxMinted, rateLimit, MaxAttempts} \subseteq Nat
  /\ maxConcurrentHashes \in Nat \ {0}

VARIABLES
  serving,      \* the instance has started
  attempts,     \* requests counted in this window
  signIn,       \* sign-in -> "none", "live" or "ended"
  newestRow,    \* sign-in -> its newest session row
  expiredTokens, \* the access tokens past their fifteen minutes
  apiToken,     \* API token -> "none", "active" or "revoked"
  isAdmin,      \* the account is an instance administrator
  call          \* request -> how far it is

pathVars == <<serving, attempts, signIn, newestRow, expiredTokens, apiToken, isAdmin, call>>

SignIns == 1..MaxSignedIn
AccessTokens == SignIns \X (1..(MaxRefreshes + 1))
ApiTokens == 1..MaxMinted
Rowless(t) == <<t, 0>>   \* what names no session row of a sign-in
Credentials ==
  [kind : {"access"}, token : AccessTokens] \cup [kind : {"api"}, token : {Rowless(t) : t \in ApiTokens}]
    \cup [kind : {"operator", "none"}, token : {Rowless(0)}]

(* What a route asks: nothing; any actor; a scope; a signed-in user whose  *)
(* sign-in is live; the instance's operator or administrator.              *)
Routes == {"login", "read", "scoped", "guarded", "instance"}

Uncalled == [at |-> "idle", route |-> "read", with |-> [kind |-> "none", token |-> Rowless(0)], late |-> FALSE]

PathInit ==
  /\ serving \in BOOLEAN /\ attempts = 0 /\ isAdmin \in BOOLEAN
  /\ signIn = [s \in SignIns |-> IF s = 1 THEN "live" ELSE "none"]
  /\ newestRow = [s \in SignIns |-> 1] /\ expiredTokens = {}
  /\ apiToken = [t \in ApiTokens |-> "none"]
  /\ call = [c \in Calls |-> Uncalled]

At(c, stage) == call[c].at = stage
Goes(c, stage) == call' = [call EXCEPT ![c].at = stage]
StateKept == UNCHANGED <<serving, signIn, newestRow, expiredTokens, apiToken, isAdmin>>

-----------------------------------------------------------------------------
(* The limiter, and the start.                                             *)

\* A request arrives with a credential the client was given; `late` remembers that its sign-in was over.
Arrive(c, route, cred) ==
  /\ At(c, "idle") /\ (route = "login" => cred.kind = "none")
  /\ cred.kind = "access" => signIn[cred.token[1]] # "none" /\ cred.token[2] <= newestRow[cred.token[1]]
  /\ cred.kind = "api" => apiToken[cred.token[1]] # "none"
  /\ call' = [call EXCEPT ![c] =
       [at |-> "arrived", route |-> route, with |-> cred,
        late |-> cred.kind = "access" /\ signIn[cred.token[1]] = "ended"]]
  /\ StateKept /\ UNCHANGED attempts

\* Middleware: one attempt counted, and refused past the limit. A store that cannot answer lets through.
Limited(c) ==
  /\ At(c, "arrived") /\ attempts < MaxAttempts /\ attempts' = attempts + 1
  /\ Goes(c, IF attempts < rateLimit THEN "limited" ELSE "refused") /\ StateKept

StoreFailure(c) == At(c, "arrived") /\ Goes(c, "limited") /\ StateKept /\ UNCHANGED attempts

RefuseWhileStarting(c) ==
  /\ At(c, "limited") /\ Goes(c, IF serving THEN "routed" ELSE "refused")
  /\ StateKept /\ UNCHANGED attempts

WindowEnds == attempts > 0 /\ attempts' = 0 /\ StateKept /\ UNCHANGED call

MarkReady ==
  /\ ~serving /\ serving' = TRUE
  /\ UNCHANGED <<attempts, signIn, newestRow, expiredTokens, apiToken, isAdmin, call>>

-----------------------------------------------------------------------------
(* The actor.                                                              *)

\* Verify: the signature and the expiry, and no look at the session.
AuthenticateAccessToken(cred) == cred.kind = "access" /\ cred.token \notin expiredTokens

AuthenticateAPIToken(cred) == cred.kind = "api" /\ apiToken[cred.token[1]] = "active"

\* A credential that proves nothing leaves the request without an actor, and the route refuses it.
Authenticate(c) ==
  /\ At(c, "routed") /\ call[c].route \notin {"login", "instance"}
  /\ LET cred == call[c].with
         user == AuthenticateAccessToken(cred)
         api == AuthenticateAPIToken(cred)
     IN  Goes(c, CASE call[c].route = "read" /\ (user \/ api) -> "handling"
                   [] call[c].route = "scoped" /\ user -> "handling"
                   [] call[c].route = "guarded" /\ user -> "checking"
                   [] OTHER -> "refused")
  /\ StateKept /\ UNCHANGED attempts

\* RequireScope for an API token: its scopes hold the route's, or not.
RequireScope(c, held) ==
  /\ At(c, "routed") /\ call[c].route = "scoped" /\ AuthenticateAPIToken(call[c].with)
  /\ Goes(c, IF held THEN "handling" ELSE "refused") /\ StateKept /\ UNCHANGED attempts

\* The operator's own token needs no account; an API token is refused; a user is asked for as any guarded
\* route asks.
AuthenticateInstanceAdmin(c) ==
  /\ At(c, "routed") /\ call[c].route = "instance"
  /\ LET cred == call[c].with
     IN  Goes(c, CASE cred.kind = "operator" -> "handling"
                   [] AuthenticateAccessToken(cred) -> "checking"
                   [] OTHER -> "refused")
  /\ StateKept /\ UNCHANGED attempts

\* Mutant: the device is signed in, by whichever sign-in.
LiveOnDevice(token) == \E s \in SignIns : signIn[s] = "live"

\* SignInOf and RequireLiveSignIn: the row's sign-in has a live session. A row that was rotated away has.
Live(token) == signIn[token[1]] = "live"

\* RequireLiveSession, and the instance's check of the administrator after it.
RequireLiveSession(c) ==
  /\ At(c, "checking")
  /\ Goes(c, CASE ~Live(call[c].with.token) -> "signedOut"
               [] call[c].route = "instance" /\ ~isAdmin -> "refused"
               [] OTHER -> "handling")
  /\ StateKept /\ UNCHANGED attempts

-----------------------------------------------------------------------------
(* The handlers.                                                           *)

Hashing == {c \in Calls : call[c].at = "hashing"}

\* withHashSlot: a login waits for a slot, and gives up when its client does.
AcquireHashSlot(c) ==
  /\ At(c, "routed") /\ call[c].route = "login" /\ Cardinality(Hashing) < maxConcurrentHashes
  /\ Goes(c, "hashing") /\ StateKept /\ UNCHANGED attempts

HangUp(c) == At(c, "routed") /\ call[c].route = "login" /\ Goes(c, "refused") /\ StateKept /\ UNCHANGED attempts

\* A right password starts the next sign-in, and ends the device's last.
Login(c) ==
  /\ At(c, "hashing")
  /\ \/ Goes(c, "refused") /\ UNCHANGED signIn
     \/ \E s \in SignIns :
          /\ signIn[s] = "none" /\ \A q \in 1..(s - 1) : signIn[q] # "none"
          /\ signIn' = [q \in SignIns |-> IF q = s THEN "live" ELSE IF signIn[q] = "live" THEN "ended" ELSE signIn[q]]
          /\ Goes(c, "served")
  /\ UNCHANGED <<serving, attempts, newestRow, expiredTokens, apiToken, isAdmin>>

Serve(c) == At(c, "handling") /\ Goes(c, "served") /\ StateKept /\ UNCHANGED attempts

MintAPIToken(c, t) ==
  /\ At(c, "handling") /\ call[c].route = "guarded" /\ apiToken[t] = "none" /\ Goes(c, "served")
  /\ apiToken' = [apiToken EXCEPT ![t] = "active"]
  /\ UNCHANGED <<serving, attempts, signIn, newestRow, expiredTokens, isAdmin>>

RevokeAPIToken(c, t) ==
  /\ At(c, "handling") /\ call[c].route = "guarded" /\ apiToken[t] = "active" /\ Goes(c, "served")
  /\ apiToken' = [apiToken EXCEPT ![t] = "revoked"]
  /\ UNCHANGED <<serving, attempts, signIn, newestRow, expiredTokens, isAdmin>>

\* The answer is written, whichever it is.
Answered(c) ==
  /\ call[c].at \in {"refused", "signedOut", "served"} /\ call' = [call EXCEPT ![c] = Uncalled]
  /\ StateKept /\ UNCHANGED attempts

-----------------------------------------------------------------------------
(* Sessions meanwhile.                                                     *)

\* A refresh revokes the row and issues a token with the next one.
Rotate(s) ==
  /\ signIn[s] = "live" /\ newestRow[s] <= MaxRefreshes
  /\ newestRow' = [newestRow EXCEPT ![s] = @ + 1]
  /\ UNCHANGED <<serving, attempts, signIn, expiredTokens, apiToken, isAdmin, call>>

EndSignIn(s) ==
  /\ signIn[s] = "live" /\ signIn' = [signIn EXCEPT ![s] = "ended"]
  /\ UNCHANGED <<serving, attempts, newestRow, expiredTokens, apiToken, isAdmin, call>>

\* Every token lives as long, so the first issued is the first to expire.
TokenExpires(t) ==
  /\ t \notin expiredTokens /\ signIn[t[1]] # "none" /\ t[2] <= newestRow[t[1]]
  /\ \A q \in AccessTokens :
       (q[1] < t[1] /\ q[2] <= newestRow[q[1]]) \/ (q[1] = t[1] /\ q[2] < t[2]) => q \in expiredTokens
  /\ expiredTokens' = expiredTokens \cup {t}
  /\ UNCHANGED <<serving, attempts, signIn, newestRow, apiToken, isAdmin, call>>

PathNext ==
  \/ WindowEnds \/ MarkReady
  \/ \E s \in SignIns : Rotate(s) \/ EndSignIn(s)
  \/ \E t \in AccessTokens : TokenExpires(t)
  \/ \E c \in Calls :
       \/ \E route \in Routes, cred \in Credentials : Arrive(c, route, cred)
       \/ Limited(c) \/ StoreFailure(c) \/ RefuseWhileStarting(c)
       \/ Authenticate(c) \/ AuthenticateInstanceAdmin(c) \/ RequireLiveSession(c)
       \/ (\E held \in BOOLEAN : RequireScope(c, held))
       \/ AcquireHashSlot(c) \/ HangUp(c) \/ Login(c) \/ Serve(c) \/ Answered(c)
       \/ \E t \in ApiTokens : MintAPIToken(c, t) \/ RevokeAPIToken(c, t)

PathSpec == PathInit /\ [][PathNext]_pathVars

-----------------------------------------------------------------------------
PathTypeOK ==
  /\ serving \in BOOLEAN /\ isAdmin \in BOOLEAN /\ attempts \in 0..MaxAttempts
  /\ signIn \in [SignIns -> {"none", "live", "ended"}]
  /\ newestRow \in [SignIns -> 1..(MaxRefreshes + 1)] /\ expiredTokens \subseteq AccessTokens
  /\ apiToken \in [ApiTokens -> {"none", "active", "revoked"}] /\ Cardinality(Hashing) <= maxConcurrentHashes
  /\ \A c \in Calls : /\ call[c].route \in Routes
                      /\ call[c].with \in Credentials

\* A route that changes what an account is secured by asks of the sign-in, of neither the row nor the
\* device: a request that arrives after its sign-in ended is not served, though its token has not expired
\* and the device signed in again, and a request is only ever told it was signed out when it was, though
\* the row its token names was rotated away (requireLiveDevice, sessions.go:183; middleware.go:180).
LivenessIsTheSignIns ==
  \A c \in Calls :
    /\ call[c].at = "served" /\ call[c].route \in {"guarded", "instance"} => ~call[c].late
    /\ call[c].at = "signedOut" => signIn[call[c].with.token[1]] = "ended"
=============================================================================
