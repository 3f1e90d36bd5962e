------------------------------ MODULE AccountLinks ------------------------------
(***************************************************************************)
(* One account's mailed links (password reset and email verification) and  *)
(* its API tokens.  Sources: auth/passwordreset.go, auth/verification.go,  *)
(* auth/apitokens.go, auth/middleware.go, auth/sweeper.go and the          *)
(* statements of db/password_reset_tokens.sql.go,                          *)
(* db/email_verification.sql.go and db/api_tokens.sql.go.                  *)
(*                                                                         *)
(* The two kinds of link are issued and spent alike.  Issuing one is a     *)
(* transaction of two statements; what the first does not see, another's   *)
(* uncommitted insert, it does not spend.  Spending one reads the row,     *)
(* hashes a password, and only then opens its transaction.                 *)
(***************************************************************************)
EXTENDS Naturals, FiniteSets

CONSTANTS Links,     \* ids of token rows, in no order
          Askers,    \* requests in flight at once
          LinkedTokens

VARIABLES
  link,       \* [Links -> [kind, state]]
  asking,     \* [Askers -> what the request is doing]
  verified,   \* the account's email_verified_at is set
  effects,    \* [Links -> how often the link took effect]
  linkedToken,   \* [LinkedTokens -> "unminted", "live" or "revoked"]
  touched     \* API tokens whose last_used_at is less than five minutes old

linkVars == <<link, asking, verified, effects, linkedToken, touched>>

Kinds   == {"reset", "verify"}
Unasked == [at |-> "none", kind |-> "reset", links |-> {}]

LinkTypeOK ==
  /\ link \in [Links -> [kind: Kinds, state: {"unissued", "live", "spent", "late"}]]
  /\ asking \in [Askers -> [at: {"none", "issuing", "spending"}, kind: Kinds, links: SUBSET Links]]
  /\ verified \in BOOLEAN
  /\ effects \in [Links -> 0..2]
  /\ linkedToken \in [LinkedTokens -> {"unminted", "live", "revoked"}]
  /\ touched \subseteq LinkedTokens

LinkInit ==
  /\ link = [l \in Links |-> [kind |-> "reset", state |-> "unissued"]]
  /\ asking = [a \in Askers |-> Unasked]
  /\ verified \in BOOLEAN
  /\ effects = [l \in Links |-> 0]
  /\ linkedToken = [t \in LinkedTokens |-> "unminted"]
  /\ touched = {}

-------------------------------------------------------------------------------
(* Issuing: RequestPasswordReset, RequestEmailVerification, remindToVerify. *)

\* An account that has confirmed its address is not asked to again.
MayIssue(kind) == kind = "reset" \/ ~verified

\* InvalidateOutstandingResetTokens / ...VerificationTokens: what is live now.
Outstanding(kind) == {l \in Links : link[l].kind = kind /\ link[l].state = "live"}

RequestLink(a, kind) ==
  /\ asking[a].at = "none" /\ MayIssue(kind)
  /\ asking' = [asking EXCEPT ![a] = [at |-> "issuing", kind |-> kind, links |-> Outstanding(kind)]]
  /\ UNCHANGED <<link, verified, effects, linkedToken, touched>>

\* CreatePasswordResetToken / CreateEmailVerificationToken.
InsertLink(new, kind, spent) ==
  /\ link[new].state = "unissued"
  /\ link' = [l \in Links |->
                IF l = new THEN [kind |-> kind, state |-> "live"]
                ELSE IF l \in spent THEN [link[l] EXCEPT !.state = "spent"] ELSE link[l]]

\* The insert, and the commit of both statements.
IssueLink(a) ==
  LET ask == asking[a] IN
  /\ ask.at = "issuing"
  /\ \E new \in Links : InsertLink(new, ask.kind, ask.links)
  /\ asking' = [asking EXCEPT ![a] = Unasked]
  /\ UNCHANGED <<verified, effects, linkedToken, touched>>

-------------------------------------------------------------------------------
(* Spending: ConfirmPasswordReset, ConfirmEmailVerification. *)

\* The link is looked up; whether it is spent is not asked yet.
OpenLink(a, l) ==
  /\ asking[a].at = "none" /\ link[l].state # "unissued"
  /\ asking' = [asking EXCEPT ![a] = [at |-> "spending", kind |-> link[l].kind, links |-> {l}]]
  /\ UNCHANGED <<link, verified, effects, linkedToken, touched>>

\* ConsumePasswordResetToken's and ConsumeEmailVerificationToken's WHERE.
ConsumableLink(l) == link[l].state = "live"

Bump(l) == [effects EXCEPT ![l] = IF @ < 2 THEN @ + 1 ELSE @]

\* SetUserPassword and revokeEverything, as far as the API tokens go.
RevokeAllAPITokensForUser ==
  linkedToken' = [t \in LinkedTokens |-> IF linkedToken[t] = "live" THEN "revoked" ELSE linkedToken[t]]

\* MarkEmailVerified.
MarkEmailVerified == verified' = TRUE /\ UNCHANGED linkedToken

\* The transaction: consume, then the new password and revokeEverything, or
\* MarkEmailVerified.  A link spent or expired meanwhile changes nothing.
SpendLink(a) ==
  /\ asking[a].at = "spending"
  /\ asking' = [asking EXCEPT ![a] = Unasked]
  /\ \E l \in asking[a].links :
       \/ /\ ConsumableLink(l)
          /\ link' = [link EXCEPT ![l].state = "spent"]
          /\ effects' = Bump(l)
          /\ \/ link[l].kind = "reset" /\ RevokeAllAPITokensForUser /\ UNCHANGED verified
             \/ link[l].kind = "verify" /\ MarkEmailVerified
       \/ ~ConsumableLink(l) /\ UNCHANGED <<link, effects, verified, linkedToken>>
  /\ UNCHANGED touched

\* The link's hour is over; the sweep deletes it, which reads the same.
LinkExpires(l) ==
  /\ link[l].state = "live"
  /\ link' = [link EXCEPT ![l].state = "late"]
  /\ UNCHANGED <<asking, verified, effects, linkedToken, touched>>

-------------------------------------------------------------------------------
(* API tokens. *)

MintLinked(t) ==
  /\ linkedToken[t] = "unminted"
  /\ linkedToken' = [linkedToken EXCEPT ![t] = "live"]
  /\ UNCHANGED <<link, asking, verified, effects, touched>>

RevokeLinked(t) ==
  /\ linkedToken[t] = "live"
  /\ linkedToken' = [linkedToken EXCEPT ![t] = "revoked"]
  /\ UNCHANGED <<link, asking, verified, effects, touched>>

\* AuthenticateAPIToken: GetActiveAPITokenByHash lets a live token in, and
\* TouchAPIToken stamps it when its last stamp is old.
UseLinked(t) ==
  /\ linkedToken[t] = "live" /\ t \notin touched
  /\ touched' = touched \cup {t}
  /\ UNCHANGED <<link, asking, verified, effects, linkedToken>>

TouchGrowsOld(t) ==
  /\ t \in touched
  /\ touched' = touched \ {t}
  /\ UNCHANGED <<link, asking, verified, effects, linkedToken>>

LinkNext ==
  \/ \E a \in Askers : \/ IssueLink(a) \/ SpendLink(a)
                       \/ \E kind \in Kinds : RequestLink(a, kind)
                       \/ \E l \in Links : OpenLink(a, l)
  \/ \E l \in Links : LinkExpires(l)
  \/ \E t \in LinkedTokens : \/ MintLinked(t) \/ RevokeLinked(t)
                          \/ UseLinked(t) \/ TouchGrowsOld(t)

LinkSpec == LinkInit /\ [][LinkNext]_linkVars

-------------------------------------------------------------------------------
\* A link takes effect once, though it may be opened in two places and each
\* looked it up before either spent it.
LinkWorksOnce == \A l \in Links : effects[l] <= 1

\* "the newest link is the only one that works" (passwordreset.go:100): at most
\* one link of a kind is live.
NewestLinkOnly == \A kind \in Kinds : Cardinality(Outstanding(kind)) <= 1
================================================================================
