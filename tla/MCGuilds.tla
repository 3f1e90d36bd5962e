------------------------------- MODULE MCGuilds --------------------------------
(* Guilds, checked together: a behaviour takes the steps of one of the seven  *)
(* modules, chosen at the start, the others staying at an initial state.      *)
EXTENDS GuildAuthority, GuildLifecycle, ChannelMessages, Moderation,
        GuildChannels, GuildSettings, KeysetPages

VARIABLE part   \* the component whose steps this behaviour takes

Parts == {"authority", "lifecycle", "messages", "moderation", "channels", "settings", "pages"}

Init ==
  /\ part \in Parts
  /\ GuildInit
  /\ LifeInit
  /\ ChannelInit
  /\ ModerationInit
  /\ TreeInit
  /\ SettingsInit
  /\ PagesInit
  /\ part # "messages" => ~recording
  /\ part # "settings" => subject = "guild" /\ settingsOwner = Founder
  /\ part # "pages" => list = "messages" /\ There = {}

Next ==
  \/ /\ part = "authority" /\ GuildNext
     /\ UNCHANGED <<part, lifeVars, channelVars, moderationVars, treeVars,
                    settingsVars, pageVars>>
  \/ /\ part = "lifecycle" /\ LifeNext
     /\ UNCHANGED <<part, guildVars, channelVars, moderationVars, treeVars,
                    settingsVars, pageVars>>
  \/ /\ part = "messages" /\ ChannelNext
     /\ UNCHANGED <<part, guildVars, lifeVars, moderationVars, treeVars,
                    settingsVars, pageVars>>
  \/ /\ part = "moderation" /\ ModerationNext
     /\ UNCHANGED <<part, guildVars, lifeVars, channelVars, treeVars,
                    settingsVars, pageVars>>
  \/ /\ part = "channels" /\ TreeNext
     /\ UNCHANGED <<part, guildVars, lifeVars, channelVars, moderationVars,
                    settingsVars, pageVars>>
  \/ /\ part = "settings" /\ SettingsNext
     /\ UNCHANGED <<part, guildVars, lifeVars, channelVars, moderationVars,
                    treeVars, pageVars>>
  \/ /\ part = "pages" /\ PagesNext
     /\ UNCHANGED <<part, guildVars, lifeVars, channelVars, moderationVars,
                    treeVars, settingsVars>>

vars == <<part, guildVars, lifeVars, channelVars, moderationVars,
          treeVars, settingsVars, pageVars>>

Spec == Init /\ [][Next]_vars

--------------------------------------------------------------------------------
\* The permission sets a role may be given in the instance checked.
RoleMasks == {{"manage_roles"}, {"administrator"}}

\* Every part is well typed: positions, cursors and counts stay in their ranges, and
\* a resolved report has one resolver.
TypeOK ==
  /\ part \in Parts
  /\ GuildTypeOK /\ LifeTypeOK /\ ChannelTypeOK /\ ModerationTypeOK
  /\ TreeTypeOK /\ SettingsTypeOK /\ PagesTypeOK

\* The ceilings hold at every commit though each is a count made before the row
\* is written: guilds owned and joined by an account, and an invite's uses.
CountsHold == CeilingsHold /\ InviteAdmitsItsUses

\* What several rows say between them agrees after every commit, whichever
\* transactions ran at once: role positions are distinct, the owner is a member,
\* the channel names its newest message, an edit loses no text, a child's parent
\* is a category, the audit log is a chain of what it replaced, only the owner
\* turned recording on or off, and the tag removals said are the ones made.
TablesAgree ==
  /\ RolePositionsDistinct /\ OwnerIsMember /\ ParentIsCategory
  /\ LastMessageIsNewest /\ NoTextLost
  /\ AuditIsAChain /\ RecordingFlippedByOwner /\ TagRemovalsCounted

\* A reader that follows the cursors of a list to its end has seen every row that
\* was there throughout, once, and the text of every revision.
PagesAreWhole == PagedOnce /\ HistoryIsWhole
================================================================================
