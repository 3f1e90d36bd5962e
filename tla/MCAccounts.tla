------------------------------ MODULE MCAccounts -------------------------------
(* The ways into an account, checked together: a behaviour takes the steps   *)
(* of one of the six modules, chosen at the start, the others staying at     *)
(* their initial states.  Each module's own fairness-free specification is   *)
(* what the behaviours of its part satisfy.                                  *)
EXTENDS DeviceGrant, OAuthSignIn, TwoFactor, Registration,
        AccountLinks, RequestPath

VARIABLE part   \* the component whose steps this behaviour takes

Parts == {"device", "oauth", "factor", "registration", "links", "path"}

Init ==
  /\ part \in Parts
  /\ DeviceInit
  /\ OAuthInit
  /\ FactorInit
  /\ RegistrationInit
  /\ LinkInit
  /\ PathInit
  /\ part # "device" => factor = {}
  /\ part # "links" => ~verified
  /\ part # "path" => serving /\ ~isAdmin

Next ==
  \/ /\ part = "device" /\ DeviceNext
     /\ UNCHANGED <<part, oauthVars, factorVars, registrationVars, linkVars,
                    pathVars>>
  \/ /\ part = "oauth" /\ OAuthNext
     /\ UNCHANGED <<part, deviceVars, factorVars, registrationVars,
                    linkVars, pathVars>>
  \/ /\ part = "factor" /\ FactorNext
     /\ UNCHANGED <<part, deviceVars, oauthVars, registrationVars, linkVars,
                    pathVars>>
  \/ /\ part = "registration" /\ RegistrationNext
     /\ UNCHANGED <<part, deviceVars, oauthVars, factorVars, linkVars,
                    pathVars>>
  \/ /\ part = "links" /\ LinkNext
     /\ UNCHANGED <<part, deviceVars, oauthVars, factorVars,
                    registrationVars, pathVars>>
  \/ /\ part = "path" /\ PathNext
     /\ UNCHANGED <<part, deviceVars, oauthVars, factorVars,
                    registrationVars, linkVars>>

vars == <<part, deviceVars, oauthVars, factorVars, registrationVars,
          linkVars, pathVars>>

Spec == Init /\ [][Next]_vars

--------------------------------------------------------------------------------
\* Every part is well typed: in particular no invite's count passes its limit and
\* no row of one flow is in a state its table does not have.
TypeOK ==
  /\ part \in Parts
  /\ DeviceTypeOK /\ OAuthTypeOK /\ FactorTypeOK
  /\ RegistrationTypeOK /\ LinkTypeOK /\ PathTypeOK

\* What may be used once is used once, however many requests looked at it before
\* one of them spent it: a device code, a time code and a recovery code, a mailed
\* link, a use of an invite and the instance's bootstrap.
SpentOnce ==
  /\ OneSessionPerCode /\ CodeAcceptedOnce /\ LinkWorksOnce
  /\ InviteCountsAccounts /\ OneBootstrapAdmin

\* Nobody comes into an account by a flow that is not theirs or was taken back,
\* and nobody is shut out of one: a provider sign-in serves the client that began
\* it, an address counts as confirmed when it was proved, a stopped device code
\* stays stopped, and a demanded factor has recovery codes.
WaysInAreSound ==
  SessionIsTheFlowsOwn /\ ConfirmedIsProved /\ DenialSticks /\ DemandedFactorHasCodes
================================================================================
