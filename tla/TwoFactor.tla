------------------------------- MODULE TwoFactor -------------------------------
(***************************************************************************)
(* One account's second factor: the user_totp row, its recovery codes, and *)
(* the requests that enrol, confirm, prove, regenerate and disable it.     *)
(* Sources: auth/twofactor.go, auth/twofactorchallenge.go and the          *)
(* statements of db/two_factor.sql.go.                                     *)
(*                                                                         *)
(* Every request reads the row first and writes later, so `request' keeps  *)
(* what each one read.  A batch of ten recovery codes is one code here.    *)
(***************************************************************************)
EXTENDS Naturals, FiniteSets

CONSTANTS Requests, Batches,
          MaxSecrets,  \* bound: secrets minted
          Steps,       \* bound: time steps the model's clock may reach
          totpSkew     \* steps either side of now that a code is accepted for

VARIABLES
  totp,      \* the user_totp row; secret NoSecret: there is none
  recovery,  \* [Batches -> "unwritten", "live", "used" or "gone"]
  now,       \* the current time step
  request,   \* [Requests -> what it is doing, with what it read]
  minted,    \* secrets minted; the n-th one is n
  accepted   \* [codes -> how often one was accepted while its enrolment stood]

factorVars == <<totp, recovery, now, request, minted, accepted>>

Secrets  == 1..MaxSecrets
NoSecret == 0
NoRow    == [secret |-> NoSecret, confirmed |-> FALSE, last |-> 0]
TimeCode == Secrets \X (1..Steps)
NoCodeYet == <<NoSecret, 0>>
Ready    == [at |-> "ready", code |-> NoCodeYet, for |-> "login"]
Purposes == {"login", "disable", "regenerate"}

\* The clock has a step to be at, and a recovery code is no time code.
ASSUME TwoFactorAssumption ==
  /\ MaxSecrets \in Nat /\ Steps \in Nat \ {0} /\ totpSkew \in Nat
  /\ Batches \cap TimeCode = {}

FactorTypeOK ==
  /\ totp \in [secret: Secrets \cup {NoSecret}, confirmed: BOOLEAN, last: 0..Steps]
  /\ recovery \in [Batches -> {"unwritten", "live", "used", "gone"}]
  /\ now \in 1..Steps /\ minted \in 0..MaxSecrets
  /\ request \in [Requests -> [at: {"ready", "begin", "confirm", "prove", "proved"},
                               code: TimeCode \cup {NoCodeYet}, for: Purposes]]
  /\ accepted \in [TimeCode \cup Batches -> 0..2]

FactorInit ==
  /\ totp = NoRow
  /\ recovery = [b \in Batches |-> "unwritten"]
  /\ now = 1 /\ minted = 0
  /\ request = [r \in Requests |-> Ready]
  /\ accepted = [c \in TimeCode \cup Batches |-> 0]

-------------------------------------------------------------------------------
\* matchTOTPStep: the code of a step within the skew of now.
MatchTOTPStep(c) == c[2] + totpSkew >= now /\ c[2] <= now + totpSkew

\* factorSatisfied, hasConfirmedFactor.
HasConfirmedFactor == totp.secret # NoSecret /\ totp.confirmed

\* A MarkTOTPStepUsed that takes a step again.
StepTwice(step) == HasConfirmedFactor /\ totp.last <= step

\* MarkTOTPStepUsed's WHERE: confirmed, and a later step than any used before.
StepUnused(step) == HasConfirmedFactor /\ totp.last < step

Count(c) == [accepted EXCEPT ![c] = IF @ < 2 THEN @ + 1 ELSE @]

\* writeRecoveryCodes, with or without DeleteRecoveryCodesForUser before it.
Cleared == [b \in Batches |-> IF recovery[b] \in {"live", "used"} THEN "gone" ELSE recovery[b]]
WriteRecoveryCodes(codes) ==
  \E b \in Batches : codes[b] = "unwritten" /\ recovery' = [codes EXCEPT ![b] = "live"]

-------------------------------------------------------------------------------
(* Enrolling. *)

\* BeginTOTPEnrollment's check.
BeginTOTPEnrollment(r) ==
  /\ request[r].at = "ready" /\ ~HasConfirmedFactor
  /\ request' = [request EXCEPT ![r].at = "begin"]
  /\ UNCHANGED <<totp, recovery, now, minted, accepted>>

\* UpsertTOTPEnrollment: a new secret, unconfirmed; last_used_step is kept.
UpsertTOTPEnrollment(r) ==
  /\ request[r].at = "begin"
  /\ minted < MaxSecrets /\ minted' = minted + 1
  /\ totp' = [totp EXCEPT !.secret = minted', !.confirmed = FALSE]
  /\ request' = [request EXCEPT ![r] = Ready]
  /\ UNCHANGED <<recovery, now, accepted>>

\* ConfirmTOTPEnrollment's read: the code given matches the secret stored.
ConfirmTOTPEnrollment(r) ==
  /\ request[r].at = "ready" /\ totp.secret # NoSecret /\ ~totp.confirmed
  /\ \E c \in TimeCode :
       /\ c[1] = totp.secret /\ MatchTOTPStep(c)
       /\ request' = [request EXCEPT ![r].at = "confirm", ![r].code = c]
  /\ UNCHANGED <<totp, recovery, now, minted, accepted>>

\* Its transaction: ConfirmTOTP of the row there is, MarkTOTPStepUsed, and the
\* recovery codes; refused if somebody else confirmed or removed the row.
ConfirmTOTP(r) ==
  /\ request[r].at = "confirm"
  /\ request' = [request EXCEPT ![r] = Ready]
  /\ LET c == request[r].code IN
       \/ /\ totp.secret # NoSecret /\ ~totp.confirmed
          /\ totp' = [totp EXCEPT !.confirmed = TRUE, !.last = IF @ < c[2] THEN c[2] ELSE @]
          /\ WriteRecoveryCodes(recovery)
          /\ accepted' = IF totp.secret = c[1] THEN Count(c) ELSE accepted
       \/ /\ totp.secret = NoSecret \/ totp.confirmed
          /\ UNCHANGED <<totp, recovery, accepted>>
  /\ UNCHANGED <<now, minted>>

-------------------------------------------------------------------------------
(* Proving: CompleteTwoFactorLogin, DisableTwoFactor, RegenerateRecoveryCodes. *)

\* proveFactor's read of a confirmed row, and the code matched against it.
ProveFactor(r) ==
  /\ request[r].at = "ready" /\ HasConfirmedFactor
  /\ \E c \in TimeCode, p \in Purposes :
       /\ c[1] = totp.secret /\ MatchTOTPStep(c)
       /\ request' = [request EXCEPT ![r] = [at |-> "prove", code |-> c, for |-> p]]
  /\ UNCHANGED <<totp, recovery, now, minted, accepted>>

\* MarkTOTPStepUsed: on the row there is now; none matching is a refusal.
MarkTOTPStepUsed(r) ==
  LET c == request[r].code IN
  /\ request[r].at = "prove"
  /\ \/ /\ StepUnused(c[2])
        /\ totp' = [totp EXCEPT !.last = c[2]]
        /\ accepted' = IF totp.secret = c[1] THEN Count(c) ELSE accepted
        /\ request' = [request EXCEPT ![r].at = "proved"]
     \/ /\ ~StepUnused(c[2])
        /\ request' = [request EXCEPT ![r] = Ready]
        /\ UNCHANGED <<totp, accepted>>
  /\ UNCHANGED <<recovery, now, minted>>

\* proveRecoveryCode: ConsumeRecoveryCode, one UPDATE.
ProveRecoveryCode(r) ==
  /\ request[r].at = "ready" /\ HasConfirmedFactor
  /\ \E b \in Batches, p \in Purposes :
       /\ recovery[b] = "live"
       /\ recovery' = [recovery EXCEPT ![b] = "used"]
       /\ accepted' = Count(b)
       /\ request' = [request EXCEPT ![r] = [at |-> "proved", code |-> NoCodeYet, for |-> p]]
  /\ UNCHANGED <<totp, now, minted>>

\* CompleteTwoFactorLogin: the session of the challenge's device is started.
CompleteTwoFactorLogin(r) ==
  /\ request[r].at = "proved" /\ request[r].for = "login"
  /\ request' = [request EXCEPT ![r] = Ready]
  /\ UNCHANGED <<totp, recovery, now, minted, accepted>>

\* DisableTwoFactor's transaction: both tables, and revokeEverything.
DisableTwoFactor(r) ==
  /\ request[r].at = "proved" /\ request[r].for = "disable"
  /\ totp' = NoRow /\ recovery' = Cleared
  /\ request' = [request EXCEPT ![r] = Ready]
  /\ UNCHANGED <<now, minted, accepted>>

\* RegenerateRecoveryCodes' transaction.
RegenerateRecoveryCodes(r) ==
  /\ request[r].at = "proved" /\ request[r].for = "regenerate"
  /\ WriteRecoveryCodes(Cleared)
  /\ request' = [request EXCEPT ![r] = Ready]
  /\ UNCHANGED <<totp, now, minted, accepted>>

StepPasses ==
  /\ now < Steps /\ now' = now + 1
  /\ UNCHANGED <<totp, recovery, request, minted, accepted>>

FactorNext ==
  \/ StepPasses
  \/ \E r \in Requests : \/ BeginTOTPEnrollment(r) \/ UpsertTOTPEnrollment(r)
                         \/ ConfirmTOTPEnrollment(r) \/ ConfirmTOTP(r)
                         \/ ProveFactor(r) \/ MarkTOTPStepUsed(r) \/ ProveRecoveryCode(r)
                         \/ CompleteTwoFactorLogin(r) \/ DisableTwoFactor(r)
                         \/ RegenerateRecoveryCodes(r)

FactorSpec == FactorInit /\ [][FactorNext]_factorVars

-------------------------------------------------------------------------------
\* A code is accepted once: the confirming code, a code two requests present at
\* the same moment, an earlier step of the skew window after a later one, and
\* every recovery code.
CodeAcceptedOnce == \A c \in TimeCode \cup Batches : accepted[c] <= 1

\* An account that demands a factor was given recovery codes for it, however the
\* requests that write and clear them interleave: nobody is one lost phone away
\* from an account nobody can reach.
DemandedFactorHasCodes ==
  HasConfirmedFactor => \E b \in Batches : recovery[b] \in {"live", "used"}

\* "replacing a live factor ... goes through the disable path, which requires
\* proving the factor first" (twofactor.go:296): only DisableTwoFactor's
\* transaction ends a confirmed enrolment.
LiveFactorOnlyDisabled ==
  [][HasConfirmedFactor /\ ~HasConfirmedFactor'
       => \E r \in Requests : request[r].for = "disable" /\ request[r].at = "proved"
                                /\ request'[r].at = "ready"]_factorVars
================================================================================
