------------------------------ MODULE OAuthSignIn ------------------------------
(***************************************************************************)
(* Signing in with a provider: the flow's state row, the callback that     *)
(* resolves the provider's identity to an account, the link or the         *)
(* username step it leads to, and the exchange code a client redeems.      *)
(* Sources: auth/oauthservice.go, auth/oauthsignup.go, auth/oauthhttp.go,  *)
(* auth/verification.go and the statements of db/oauth.sql.go.             *)
(*                                                                         *)
(* One provider, so an account has at most one identity (UNIQUE (user_id,  *)
(* provider)).  A flow is bound to the client that began it by a challenge *)
(* only that client has the verifier of: here, the flow itself.  Neither   *)
(* the callback nor the exchange is a transaction: each statement is a     *)
(* step wherever another request may come between two of them.             *)
(***************************************************************************)
EXTENDS Accounts, Naturals, FiniteSets

CONSTANTS Flows,       \* rows of oauth_states, each begun by a client of its own
          Identities,  \* the provider's user ids
          Emails,      \* addresses accounts may have
          VerificationRequired,  \* the instance sends mail
          RegistrationOpen       \* registration_mode is open

\* The provider's ids are ids, and both settings are set.
ASSUME OAuthAssumption ==
  NoOne \notin Identities /\ VerificationRequired \in BOOLEAN /\ RegistrationOpen \in BOOLEAN

VARIABLES
  holder,     \* [Emails -> the account registered with it, or NoOne]
  confirmed,  \* accounts with email_verified_at set
  linked,     \* oauth_identities: [Identities -> account or NoOne]
  flow,       \* [Flows -> where the flow is and what it learnt]
  signup,     \* sign-up tokens issued and unexpired; reusable, never stored
  exchange,   \* oauth_exchange_codes, one at most for each flow
  redeeming,  \* codes consumed by the right client, session not yet written
  signedIn,   \* <<flow whose client has the session, account>>
  proved      \* addresses a provider vouched for, or whose mail was read

oauthVars == <<holder, confirmed, linked, flow, signup, exchange, redeeming, signedIn, proved>>

NoIdentity == [ident |-> NoOne, email |-> NoOne, vouched |-> FALSE]
Claims == [ident: Identities, email: Emails, vouched: BOOLEAN]
NoCode == [user |-> NoOne, spent |-> TRUE]
Existing == {holder[e] : e \in Emails} \ {NoOne}

OAuthTypeOK ==
  /\ holder \in [Emails -> Users \cup {NoOne}]
  /\ confirmed \subseteq Users
  /\ linked \in [Identities -> Users \cup {NoOne}]
  /\ flow \in [Flows -> [at: {"new", "begun", "resolve", "link", "done"}, device: BOOLEAN,
                         who: Claims \cup {NoIdentity}, user: Users \cup {NoOne}]]
  /\ signup \subseteq [flow: Flows, who: Claims, byMail: BOOLEAN]
  /\ exchange \in [Flows -> [user: Users \cup {NoOne}, spent: BOOLEAN]]
  /\ redeeming \subseteq Flows /\ proved \subseteq Emails
  /\ signedIn \subseteq Flows \X Users

OAuthInit ==
  /\ holder = [e \in Emails |-> NoOne] /\ confirmed = {} /\ proved = {}
  /\ linked = [i \in Identities |-> NoOne]
  /\ flow = [f \in Flows |-> [at |-> "new", device |-> FALSE, who |-> NoIdentity, user |-> NoOne]]
  /\ signup = {} /\ redeeming = {} /\ signedIn = {}
  /\ exchange = [f \in Flows |-> NoCode]

-------------------------------------------------------------------------------
\* StartOAuth: bound by oauthFlowBinding to a client's challenge, or to a
\* device-code page's entry token.
StartOAuth(f) ==
  /\ flow[f].at = "new"
  /\ \E device \in BOOLEAN : flow' = [flow EXCEPT ![f].at = "begun", ![f].device = device]
  /\ UNCHANGED <<holder, confirmed, linked, signup, exchange, redeeming, signedIn, proved>>

\* CompleteOAuth: the state is consumed before anything about it is judged, so a
\* failure after that ends the flow; else the provider says whose code this is.
CompleteOAuth(f) ==
  /\ flow[f].at = "begun"
  /\ \/ flow' = [flow EXCEPT ![f].at = "done"]     \* wrong provider, declined, or no identity
     \/ \E who \in Claims : flow' = [flow EXCEPT ![f].at = "resolve", ![f].who = who]
  /\ UNCHANGED <<holder, confirmed, linked, signup, exchange, redeeming, signedIn, proved>>

\* issueOAuthExchangeCode: a code for the account, bound to the flow's challenge.
IssueOAuthExchangeCode(f, u) == [exchange EXCEPT ![f] = [user |-> u, spent |-> FALSE]]

\* signedInOutcome: a device continues on its approval page, a client gets a code.
SignedInOutcome(f, u) ==
  /\ flow' = [flow EXCEPT ![f].at = "done", ![f].user = u]
  /\ exchange' = IF flow[f].device THEN exchange ELSE IssueOAuthExchangeCode(f, u)

\* The sign-up token, signed over the flow's identity and challenge.
SignupToken(f, byMail) == [flow |-> f, who |-> flow[f].who, byMail |-> byMail]

\* unverifiedProviderAddress: refused, or answered by mail alone: a notice to
\* the account there is, or a sign-up link to the address.
UnverifiedProviderAddress(f) ==
  /\ flow' = [flow EXCEPT ![f].at = "done"]
  /\ signup' = IF VerificationRequired /\ RegistrationOpen /\ holder[flow[f].who.email] = NoOne
               THEN signup \cup {SignupToken(f, TRUE)} ELSE signup
  /\ UNCHANGED <<exchange, proved>>

\* resolveOAuthIdentity: by the link if there is one, else by the address.
ResolveOAuthIdentity(f) ==
  LET who == flow[f].who IN
  /\ flow[f].at = "resolve"
  /\ \/ /\ linked[who.ident] # NoOne
        /\ SignedInOutcome(f, linked[who.ident])
        /\ UNCHANGED <<signup, proved>>
     \/ linked[who.ident] = NoOne /\ ~who.vouched /\ UnverifiedProviderAddress(f)
     \/ /\ linked[who.ident] = NoOne /\ who.vouched /\ holder[who.email] # NoOne
        /\ flow' = [flow EXCEPT ![f].at = "link", ![f].user = holder[who.email]]
        /\ proved' = proved \cup {who.email}
        /\ UNCHANGED <<signup, exchange>>
     \/ /\ linked[who.ident] = NoOne /\ who.vouched /\ holder[who.email] = NoOne
        /\ flow' = [flow EXCEPT ![f].at = "done"]
        /\ signup' = IF RegistrationOpen
                     THEN signup \cup {SignupToken(f, FALSE)} ELSE signup
        /\ proved' = proved \cup {who.email}
        /\ UNCHANGED exchange
  /\ UNCHANGED <<holder, confirmed, linked, redeeming, signedIn>>

\* classifyLinkConflict: a conflict on this very link is no conflict.
ClassifyLinkConflict(i, u) == linked[i] = u

\* CreateOAuthIdentity, where both unique constraints allow it.
CreateOAuthIdentity(i, u) == [linked EXCEPT ![i] = u]

\* linkOAuthIdentity against both unique constraints, recordProviderVerifiedAddress,
\* then the outcome; a real conflict ends the flow.
LinkOAuthIdentity(f) ==
  LET i == flow[f].who.ident  u == flow[f].user
      free == linked[i] = NoOne /\ \A j \in Identities : linked[j] # u IN
  /\ flow[f].at = "link"
  /\ \/ /\ free \/ ClassifyLinkConflict(i, u)
        /\ linked' = IF free THEN CreateOAuthIdentity(i, u) ELSE linked
        /\ confirmed' = confirmed \cup {u}
        /\ SignedInOutcome(f, u)
     \/ /\ ~(free \/ ClassifyLinkConflict(i, u))
        /\ flow' = [flow EXCEPT ![f].at = "done", ![f].user = NoOne]
        /\ UNCHANGED <<linked, confirmed, exchange>>
  /\ UNCHANGED <<holder, signup, redeeming, signedIn, proved>>

-------------------------------------------------------------------------------
\* CompleteOAuthSignup's needsConfirmation.
NeedsConfirmation(t) == ~t.who.vouched /\ ~t.byMail /\ VerificationRequired

\* CreateOAuthUser: no password, and confirmed from the start where the address is proved.
CreateOAuthUser(t, u) ==
  /\ holder' = [holder EXCEPT ![t.who.email] = u]
  /\ confirmed' = IF NeedsConfirmation(t) THEN confirmed ELSE confirmed \cup {u}

\* CompleteOAuthSignup: CreateOAuthUser and CreateOAuthIdentity in one
\* transaction, so an address or identity taken meanwhile creates nothing (the
\* disabled case); then the device's page, the mailed page's plain answer, or a
\* code bound to the challenge the token carried through the username step.
CompleteOAuthSignup(t, u) ==
  /\ t \in signup /\ RegistrationOpen
  /\ u \notin Existing /\ holder[t.who.email] = NoOne /\ linked[t.who.ident] = NoOne
  /\ CreateOAuthUser(t, u)
  /\ linked' = CreateOAuthIdentity(t.who.ident, u)
  /\ proved' = IF t.byMail THEN proved \cup {t.who.email} ELSE proved
  /\ flow' = IF t.byMail THEN flow ELSE [flow EXCEPT ![t.flow].user = u]
  /\ exchange' = IF t.byMail \/ flow[t.flow].device THEN exchange
                 ELSE IssueOAuthExchangeCode(t.flow, u)
  /\ UNCHANGED <<signup, redeeming, signedIn>>

\* ExchangeOAuthCode by the client that began flow g: the code is consumed before
\* the verifier is compared, so a misredeemed code is spent.
ExchangeOAuthCode(f, g) ==
  /\ ~exchange[f].spent
  /\ exchange' = [exchange EXCEPT ![f].spent = TRUE]
  /\ redeeming' = IF f = g THEN redeeming \cup {f} ELSE redeeming
  /\ UNCHANGED <<holder, confirmed, linked, flow, signup, signedIn, proved>>

\* startSession, or the two-factor challenge that leads to it.
StartSession(f) ==
  /\ f \in redeeming
  /\ redeeming' = redeeming \ {f}
  /\ signedIn' = signedIn \cup {<<f, exchange[f].user>>}
  /\ UNCHANGED <<holder, confirmed, linked, flow, signup, exchange, proved>>

-------------------------------------------------------------------------------
\* revokeEverything for an account, as far as its exchange codes go.
RevokeOAuthExchangeCodesForUser(u) ==
  /\ \E f \in Flows : exchange[f].user = u /\ ~exchange[f].spent
  /\ exchange' = [f \in Flows |-> IF exchange[f].user = u
                                  THEN [exchange[f] EXCEPT !.spent = TRUE] ELSE exchange[f]]
  /\ UNCHANGED <<holder, confirmed, linked, flow, signup, redeeming, signedIn, proved>>

\* Somebody registers with a password meanwhile; the address is unconfirmed.
RegisterWithPassword(u, e) ==
  /\ u \notin Existing /\ holder[e] = NoOne
  /\ holder' = [holder EXCEPT ![e] = u]
  /\ UNCHANGED <<confirmed, linked, flow, signup, exchange, redeeming, signedIn, proved>>

OAuthStateExpires(f) ==
  /\ flow[f].at = "begun"
  /\ flow' = [flow EXCEPT ![f].at = "done"]
  /\ UNCHANGED <<holder, confirmed, linked, signup, exchange, redeeming, signedIn, proved>>

OAuthCodeExpires(f) ==
  /\ ~exchange[f].spent
  /\ exchange' = [exchange EXCEPT ![f].spent = TRUE]
  /\ UNCHANGED <<holder, confirmed, linked, flow, signup, redeeming, signedIn, proved>>

OAuthSignupExpires(t) ==
  /\ t \in signup
  /\ signup' = signup \ {t}
  /\ UNCHANGED <<holder, confirmed, linked, flow, exchange, redeeming, signedIn, proved>>

OAuthNext ==
  \/ \E f \in Flows : \/ StartOAuth(f) \/ CompleteOAuth(f) \/ ResolveOAuthIdentity(f)
                      \/ LinkOAuthIdentity(f) \/ StartSession(f)
                      \/ OAuthStateExpires(f) \/ OAuthCodeExpires(f)
                      \/ \E g \in Flows : ExchangeOAuthCode(f, g)
  \/ \E t \in signup : OAuthSignupExpires(t) \/ \E u \in Users : CompleteOAuthSignup(t, u)
  \/ \E u \in Users : \/ RevokeOAuthExchangeCodesForUser(u)
                      \/ \E e \in Emails : RegisterWithPassword(u, e)

OAuthSpec == OAuthInit /\ [][OAuthNext]_oauthVars

-------------------------------------------------------------------------------
\* A session goes to the client that began the flow, for the account the
\* provider's identity of that same flow is linked to: through a code shown on
\* a screen, a link raced by another flow's, or a sign-up finished after it.
SessionIsTheFlowsOwn ==
  \A s \in signedIn : /\ ~flow[s[1]].device /\ flow[s[1]].who # NoIdentity
                      /\ linked[flow[s[1]].who.ident] = s[2]

\* An address counts as confirmed only if the provider vouched for it or its
\* mail was read, whichever of the flow's three ways the account came by it.
ConfirmedIsProved ==
  \A u \in confirmed : \E e \in Emails : holder[e] = u /\ e \in proved
================================================================================
