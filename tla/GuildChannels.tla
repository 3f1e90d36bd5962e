----------------------------- MODULE GuildChannels -----------------------------
(***************************************************************************)
(* The channels of one guild and the categories they hang under.  Sources: *)
(* guilds/channel.go and the channel statements of db/guilds.sql.go.       *)
(*                                                                         *)
(* A creation reads its parent without a lock and inserts afterwards; the  *)
(* foreign key decides what a deletion in between means.  A channel's      *)
(* overwrites are one abstract value: inheritance copies it, once.         *)
(***************************************************************************)
EXTENDS Accounts, Naturals, FiniteSets

CONSTANTS Channels, Creators, OverwriteSets, maxChannelsPerGuild

ASSUME ChannelsAssumption == NoOne \notin Channels /\ OverwriteSets # {}

VARIABLES
  kind,      \* [Channels -> "none", "text", "voice", "category" or "deleted"]
  parent,    \* [Channels -> a category, or NoOne]
  rows,      \* [Channels -> OverwriteSets]
  creator    \* [Creators -> a creation that has passed its checks]

treeVars == <<kind, parent, rows, creator>>

NoCreation == [kind |-> "none", parent |-> NoOne]
LiveKinds  == {"text", "voice", "category"}
Open       == CHOOSE s \in OverwriteSets : TRUE     \* no overwrites at all

TreeTypeOK ==
  /\ kind \in [Channels -> LiveKinds \cup {"none", "deleted"}]
  /\ parent \in [Channels -> Channels \cup {NoOne}]
  /\ rows \in [Channels -> OverwriteSets]
  /\ creator \in [Creators -> [kind: LiveKinds \cup {"none"}, parent: Channels \cup {NoOne}]]

TreeInit ==
  /\ kind = [c \in Channels |-> "none"] /\ parent = [c \in Channels |-> NoOne]
  /\ rows = [c \in Channels |-> Open]
  /\ creator = [r \in Creators |-> NoCreation]

LiveChannels == {c \in Channels : kind[c] \in LiveKinds}

\* CreateChannel's checks: a free place, and a parent that is a category, for no category.
CheckChannel(r, k, p) ==
  /\ creator[r] = NoCreation
  /\ Cardinality(LiveChannels) < maxChannelsPerGuild
  /\ p # NoOne => kind[p] = "category" /\ k # "category"
  /\ creator' = [creator EXCEPT ![r] = [kind |-> k, parent |-> p]]
  /\ UNCHANGED <<kind, parent, rows>>

\* The foreign key on parent_id, which waits for the deletion that holds the row.
ParentStands(p) == p # NoOne => kind[p] = "category"

\* CopyChannelOverwrites: the parent's rows as they are by then, copied once.
Inherited(p) == IF p = NoOne THEN Open ELSE rows[p]

CreateChannel(r, c) ==
  LET new == creator[r] IN
  /\ new # NoCreation /\ kind[c] = "none" /\ ParentStands(new.parent)
  /\ kind' = [kind EXCEPT ![c] = new.kind]
  /\ parent' = [parent EXCEPT ![c] = new.parent]
  /\ rows' = [rows EXCEPT ![c] = Inherited(new.parent)]
  /\ creator' = [creator EXCEPT ![r] = NoCreation]

CreationFails(r) ==
  /\ creator[r] # NoCreation /\ creator' = [creator EXCEPT ![r] = NoCreation]
  /\ UNCHANGED <<kind, parent, rows>>

\* An overwrite set or deleted on the channel; its children keep their copies.
ChangeRows(c, s) ==
  /\ c \in LiveChannels /\ rows' = [rows EXCEPT ![c] = s]
  /\ UNCHANGED <<kind, parent, creator>>

\* DetachChildChannels, for a category: its children stay, at the top.
Detached(c) == [d \in Channels |-> IF d = c \/ (kind[c] = "category" /\ parent[d] = c)
                                   THEN NoOne ELSE parent[d]]

\* DeleteChannel under the row's lock: a category's children are detached first.
DeleteChannel(c) ==
  /\ c \in LiveChannels
  /\ kind' = [kind EXCEPT ![c] = "deleted"]
  /\ parent' = Detached(c)
  /\ UNCHANGED <<rows, creator>>

TreeNext ==
  \/ \E r \in Creators, k \in LiveKinds, p \in Channels \cup {NoOne} : CheckChannel(r, k, p)
  \/ \E r \in Creators : CreationFails(r) \/ \E c \in Channels : CreateChannel(r, c)
  \/ \E c \in Channels : DeleteChannel(c) \/ \E s \in OverwriteSets : ChangeRows(c, s)

TreeSpec == TreeInit /\ [][TreeNext]_treeVars

\* A channel's parent is a category that exists, and no category has one: a creation that
\* checked its parent before the category was deleted never lands under it.
ParentIsCategory ==
  \A c \in LiveChannels : parent[c] # NoOne => kind[parent[c]] = "category" /\ kind[c] # "category"
===============================================================================
