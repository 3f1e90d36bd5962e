----------------------------- MODULE GuildsProofs ------------------------------
(***************************************************************************)
(* What the guild services guarantee for any number of accounts, guilds,   *)
(* roles, channels, messages and requests at once.  Each part has an       *)
(* inductive invariant that its own steps keep; the theorems at the end    *)
(* put the parts together as MCGuilds does.                                *)
(***************************************************************************)
EXTENDS MCGuilds, FiniteSetTheorems, WellFoundedInduction, TLAPS

--------------------------------------------------------------------------------
(* Channels and categories.                                                *)

\* A creation under way has a kind, and hangs no category under another.
CreationsSound ==
  \A r \in Creators : creator[r] # NoCreation =>
    /\ creator[r].kind \in LiveKinds
    /\ creator[r].parent # NoOne => creator[r].kind # "category"

TreeInv == TreeTypeOK /\ CreationsSound /\ ParentIsCategory

\* No channel and no creation at first.
LEMMA TreeInitInv == TreeInit => TreeInv
BY ChannelsAssumption DEF TreeInit, TreeInv, TreeTypeOK, CreationsSound, ParentIsCategory,
                          LiveChannels, LiveKinds, NoCreation, Open

\* The parent is looked up again as the channel is inserted, and a category that goes lets go of its
\* children first.
LEMMA TreeStepInv == TreeInv /\ TreeNext => TreeInv'
<1> SUFFICES ASSUME TreeInv, TreeNext PROVE TreeInv'
  OBVIOUS
<1> USE DEF TreeInv, TreeTypeOK, CreationsSound, ParentIsCategory, LiveChannels, LiveKinds, NoCreation
<1>1. ASSUME NEW r \in Creators, NEW k \in LiveKinds, NEW p \in Channels \cup {NoOne}, CheckChannel(r, k, p)
      PROVE TreeInv'
  <2>1. creator' \in [Creators -> [kind: LiveKinds \cup {"none"}, parent: Channels \cup {NoOne}]]
    BY <1>1 DEF CheckChannel
  <2>2. CreationsSound'
    BY <1>1 DEF CheckChannel
  <2> QED BY <1>1, <2>1, <2>2 DEF CheckChannel
<1>2. ASSUME NEW r \in Creators, CreationFails(r) PROVE TreeInv'
  <2>1. creator' \in [Creators -> [kind: LiveKinds \cup {"none"}, parent: Channels \cup {NoOne}]]
    BY <1>2 DEF CreationFails
  <2>2. CreationsSound'
    BY <1>2 DEF CreationFails
  <2> QED BY <1>2, <2>1, <2>2 DEF CreationFails
<1>3. ASSUME NEW r \in Creators, NEW c \in Channels, CreateChannel(r, c) PROVE TreeInv'
  <2>1. /\ creator[r].kind \in LiveKinds /\ creator[r].parent \in Channels \cup {NoOne}
        /\ creator[r].parent # NoOne => creator[r].kind # "category" /\ kind[creator[r].parent] = "category"
    BY <1>3 DEF CreateChannel, ParentStands
  <2>2. creator' \in [Creators -> [kind: LiveKinds \cup {"none"}, parent: Channels \cup {NoOne}]]
    BY <1>3 DEF CreateChannel
  <2>3. CreationsSound'
    BY <1>3 DEF CreateChannel
  <2>4. kind' \in [Channels -> LiveKinds \cup {"none", "deleted"}]
    BY <1>3, <2>1 DEF CreateChannel
  <2>5. parent' \in [Channels -> Channels \cup {NoOne}]
    BY <1>3, <2>1 DEF CreateChannel
  <2>6. rows' \in [Channels -> OverwriteSets]
    <3>1. Inherited(creator[r].parent) \in OverwriteSets
      BY <2>1, ChannelsAssumption DEF Inherited, Open
    <3> QED BY <1>3, <3>1 DEF CreateChannel
  <2>7. ParentIsCategory'
    <3> SUFFICES ASSUME NEW d \in Channels, kind'[d] \in LiveKinds, parent'[d] # NoOne
                 PROVE  kind'[parent'[d]] = "category" /\ kind'[d] # "category"
      OBVIOUS
    <3>1. kind[c] = "none" /\ kind' = [kind EXCEPT ![c] = creator[r].kind]
          /\ parent' = [parent EXCEPT ![c] = creator[r].parent]
      BY <1>3 DEF CreateChannel
    <3>2. CASE d = c
      BY <2>1, <3>1, <3>2
    <3>3. CASE d # c
      <4>1. kind[d] \in LiveKinds /\ parent[d] # NoOne /\ kind'[d] = kind[d] /\ parent'[d] = parent[d]
        BY <3>1, <3>3
      <4>2. kind[parent[d]] = "category" /\ kind[d] # "category" /\ parent[d] \in Channels
        BY <4>1
      <4>3. parent[d] # c
        BY <4>2, <3>1
      <4> QED BY <3>1, <4>1, <4>2, <4>3
    <3> QED BY <3>2, <3>3
  <2> QED BY <2>2, <2>3, <2>4, <2>5, <2>6, <2>7
<1>4. ASSUME NEW c \in Channels, DeleteChannel(c) PROVE TreeInv'
  <2>1. kind' \in [Channels -> LiveKinds \cup {"none", "deleted"}]
    BY <1>4 DEF DeleteChannel
  <2>2. parent' \in [Channels -> Channels \cup {NoOne}]
    BY <1>4 DEF DeleteChannel, Detached
  <2>3. ParentIsCategory'
    BY <1>4 DEF DeleteChannel, Detached
  <2> QED BY <1>4, <2>1, <2>2, <2>3 DEF DeleteChannel
<1>5. ASSUME NEW c \in Channels, NEW s \in OverwriteSets, ChangeRows(c, s) PROVE TreeInv'
  BY <1>5 DEF ChangeRows
<1> QED BY <1>1, <1>2, <1>3, <1>4, <1>5 DEF TreeNext

--------------------------------------------------------------------------------
(* Tags and reports.                                                       *)

\* A tag nobody deletes has no count; a private tag is on messages by its maker alone; a tag that is
\* being deleted is on no more of other people's messages than were counted.
TagsSound ==
  \A g \in Tags :
    /\ tag[g].state # "shared" => tag[g].counting = NoOne
    /\ tag[g].state = "none" => \A m \in Targeted : applied[g][m] = NoOne
    /\ tag[g].state = "private" => \A m \in Targeted : applied[g][m] \in {tag[g].by, NoOne}
    /\ tag[g].counting # NoOne => OthersApplied(g, tag[g].counting) <= tag[g].counted

\* An open report has not been closed.
ReportsSound == \A r \in Reports : report[r].status \in {"none", "open"} => report[r].closings = 0

ModerationInv == ModerationTypeOK /\ TagsSound /\ ReportsSound /\ TagRemovalsCounted

\* Nothing is tagged or reported at first.
LEMMA ModerationInitInv == ModerationInit => ModerationInv
<1> SUFFICES ASSUME ModerationInit PROVE ModerationInv
  OBVIOUS
<1>1. Cardinality(Targeted) \in Nat
  BY ModerationAssumption, FS_CardinalityType
<1> QED BY <1>1 DEF ModerationInit, ModerationInv, ModerationTypeOK, TagsSound, ReportsSound, TagRemovalsCounted,
                    NoTag, NoReport

\* A subset of the messages is counted by a number no larger than theirs.
LEMMA CountedMessages ==
  ASSUME NEW S, S \subseteq Targeted PROVE Cardinality(S) \in 0..Cardinality(Targeted) /\ IsFiniteSet(S)
<1>1. IsFiniteSet(S) /\ Cardinality(S) <= Cardinality(Targeted)
  BY ModerationAssumption, FS_Subset
<1> QED BY <1>1, ModerationAssumption, FS_CardinalityType

\* Where nothing is applied but what was, no more of it is others'.
LEMMA OthersFewer ==
  ASSUME NEW g, NEW u, \A m \in Targeted : applied'[g][m] \in {applied[g][m], NoOne}
  PROVE  OthersApplied(g, u)' <= OthersApplied(g, u)
<1> DEFINE S == {m \in Targeted : applied[g][m] \notin {u, NoOne}}
           T == {m \in Targeted : applied'[g][m] \notin {u, NoOne}}
<1>1. T \subseteq S /\ S \subseteq Targeted
  OBVIOUS
<1>2. IsFiniteSet(S)
  BY <1>1, CountedMessages
<1>3. Cardinality(T) <= Cardinality(S)
  BY <1>1, <1>2, FS_Subset
<1> QED BY <1>3 DEF OthersApplied

\* No application commits between the count and the deletion, and only a maker's own go with a private
\* tag.
LEMMA ModerationStepInv == ModerationInv /\ ModerationNext => ModerationInv'
<1> SUFFICES ASSUME ModerationInv, ModerationNext PROVE ModerationInv'
  OBVIOUS
<1> USE DEF ModerationInv, ModerationTypeOK
<1> DEFINE TagRow == [state: {"none", "private", "shared"}, by: Users \cup {NoOne},
                      counting: Users \cup {NoOne}, counted: 0..Cardinality(Targeted)]
<1>0. Cardinality(Targeted) \in Nat
  BY ModerationAssumption, FS_CardinalityType
<1>1. ASSUME NEW m \in Targeted, SoftDelete(m) PROVE ModerationInv'
  BY <1>1 DEF SoftDelete, tagVars, TagsSound, ReportsSound, TagRemovalsCounted, OthersApplied
<1>2. ASSUME NEW g \in Tags, NEW u \in Users, NEW shared \in BOOLEAN, CreateTag(g, u, shared)
      PROVE ModerationInv'
  <2>1. tag' \in [Tags -> TagRow]
    <3>1. PICK k \in {"private", "shared"} : tag' = [tag EXCEPT ![g].state = k, ![g].by = u]
      BY <1>2 DEF CreateTag
    <3>2. [tag[g] EXCEPT !.state = k, !.by = u] \in TagRow
      OBVIOUS
    <3>3. tag' = [tag EXCEPT ![g] = [tag[g] EXCEPT !.state = k, !.by = u]]
      BY <3>1
    <3> HIDE DEF TagRow
    <3> QED BY <3>2, <3>3 DEF TagRow
  <2>2. TagsSound'
    BY <1>2 DEF CreateTag, TagsSound, OthersApplied
  <2> QED BY <1>2, <2>1, <2>2 DEF CreateTag, ReportsSound, TagRemovalsCounted
<1>3. ASSUME NEW g \in Tags, NEW u \in Users, CountForDelete(g, u) PROVE ModerationInv'
  <2>1. OthersApplied(g, u) \in 0..Cardinality(Targeted)
    BY CountedMessages DEF OthersApplied
  <2>2. tag' \in [Tags -> TagRow]
    <3>1. PICK n \in 0..Cardinality(Targeted) : n = OthersApplied(g, u)
      BY <2>1
    <3>2. tag' = [tag EXCEPT ![g] = [tag[g] EXCEPT !.counting = u, !.counted = n]]
      BY <1>3, <3>1 DEF CountForDelete
    <3>3. [tag[g] EXCEPT !.counting = u, !.counted = n] \in TagRow
      OBVIOUS
    <3> HIDE DEF TagRow
    <3> QED BY <3>2, <3>3 DEF TagRow
  <2>3. TagsSound'
    <3>1. \A h \in Tags : \A v : OthersApplied(h, v)' = OthersApplied(h, v)
      BY <1>3 DEF CountForDelete, OthersApplied
    <3> QED BY <1>3, <2>1, <3>1 DEF CountForDelete, TagsSound
  <2> QED BY <1>3, <2>2, <2>3 DEF CountForDelete, ReportsSound, TagRemovalsCounted
<1>4. ASSUME NEW g \in Tags, NEW u \in Users, NEW m \in Targeted, ApplyTag(g, m, u) PROVE ModerationInv'
  <2>1. applied' \in [Tags -> [Targeted -> Users \cup {NoOne}]]
    BY <1>4 DEF ApplyTag, InsertApplication
  <2>2. \A h \in Tags \ {g} : applied'[h] = applied[h]
    BY <1>4 DEF ApplyTag, InsertApplication
  <2>3. \A h \in Tags \ {g} : \A v : OthersApplied(h, v)' = OthersApplied(h, v)
    BY <2>2 DEF OthersApplied
  <2>4. TagsSound'
    <3> SUFFICES ASSUME NEW h \in Tags PROVE
           (/\ tag[h].state # "shared" => tag[h].counting = NoOne
            /\ tag[h].state = "none" => \A n \in Targeted : applied[h][n] = NoOne
            /\ tag[h].state = "private" => \A n \in Targeted : applied[h][n] \in {tag[h].by, NoOne}
            /\ tag[h].counting # NoOne => OthersApplied(h, tag[h].counting) <= tag[h].counted)'
      BY DEF TagsSound
    <3>1. CASE h = g
      <4>1. tag' = tag /\ tag[g].counting = NoOne
        BY <1>4 DEF ApplyTag, TagFree
      <4>2. tag[g].state = "shared" \/ (tag[g].state = "private" /\ tag[g].by = u)
        BY <1>4 DEF ApplyTag, TagVisibleTo
      <4>3. \A n \in Targeted : applied'[g][n] \in {applied[g][n], u}
        BY <1>4 DEF ApplyTag, InsertApplication
      <4> QED BY <3>1, <4>1, <4>2, <4>3 DEF TagsSound
    <3>2. CASE h # g
      BY <1>4, <2>2, <2>3, <3>2 DEF ApplyTag, TagsSound
    <3> QED BY <3>1, <3>2
  <2> QED BY <1>4, <2>1, <2>4 DEF ApplyTag, ReportsSound, TagRemovalsCounted
<1>5. ASSUME NEW g \in Tags, NEW m \in Targeted, UnapplyTag(g, m) PROVE ModerationInv'
  <2>1. applied' \in [Tags -> [Targeted -> Users \cup {NoOne}]]
    BY <1>5 DEF UnapplyTag
  <2>2. \A h \in Tags : \A n \in Targeted : applied'[h][n] \in {applied[h][n], NoOne}
    BY <1>5 DEF UnapplyTag
  <2>3. ASSUME NEW h \in Tags PROVE OthersApplied(h, tag[h].counting)' <= OthersApplied(h, tag[h].counting)
    <3>1. PICK v : v = tag[h].counting
      OBVIOUS
    <3>2. OthersApplied(h, v)' <= OthersApplied(h, v)
      BY <2>2, OthersFewer
    <3>3. tag' = tag
      BY <1>5 DEF UnapplyTag
    <3> QED BY <3>1, <3>2, <3>3 DEF OthersApplied
  <2>4. \A h \in Tags : /\ OthersApplied(h, tag[h].counting) \in Nat
                        /\ OthersApplied(h, tag[h].counting)' \in Nat
    BY CountedMessages, <1>0 DEF OthersApplied
  <2>5. TagsSound'
    BY <1>5, <2>2, <2>3, <2>4 DEF UnapplyTag, TagsSound
  <2> QED BY <1>5, <2>1, <2>5 DEF UnapplyTag, ReportsSound, TagRemovalsCounted
<1>6. ASSUME NEW g \in Tags, DeleteTag(g) PROVE ModerationInv'
  <2>1. tag' \in [Tags -> TagRow]
    BY <1>0, <1>6 DEF DeleteTag, NoTag
  <2>2. applied' \in [Tags -> [Targeted -> Users \cup {NoOne}]]
    BY <1>6 DEF DeleteTag
  <2>3. \A h \in Tags \ {g} : applied'[h] = applied[h] /\ tag'[h] = tag[h]
    BY <1>6 DEF DeleteTag
  <2>4. \A h \in Tags \ {g} : \A v : OthersApplied(h, v)' = OthersApplied(h, v)
    BY <2>3 DEF OthersApplied
  <2>5. TagsSound'
    <3>1. tag'[g] = NoTag /\ \A n \in Targeted : applied'[g][n] = NoOne
      BY <1>6 DEF DeleteTag
    <3> QED BY <2>3, <2>4, <3>1 DEF TagsSound, NoTag
  <2>6. uncounted' = 0
    <3> DEFINE u == IF tag[g].state = "private" THEN tag[g].by ELSE tag[g].counting
    <3>1. OthersApplied(g, u) \in Nat /\ tag[g].counted \in Nat
      BY CountedMessages, <1>0 DEF OthersApplied
    <3>2. OthersApplied(g, u) <= tag[g].counted
      <4>1. CASE tag[g].state = "private"
        <5>1. {m \in Targeted : applied[g][m] \notin {u, NoOne}} = {}
          BY <4>1 DEF TagsSound
        <5>2. OthersApplied(g, u) = 0
          BY <5>1, FS_EmptySet DEF OthersApplied
        <5> QED BY <3>1, <5>2
      <4>2. CASE tag[g].state # "private"
        BY <1>6, <4>2 DEF DeleteTag, TagsSound
      <4> QED BY <4>1, <4>2
    <3>3. uncounted = 0
      BY DEF TagRemovalsCounted
    <3>4. uncounted' = uncounted + (IF OthersApplied(g, u) > tag[g].counted
                                    THEN OthersApplied(g, u) - tag[g].counted ELSE 0)
      BY <1>6 DEF DeleteTag
    <3> HIDE DEF u
    <3> QED BY <3>1, <3>2, <3>3, <3>4
  <2> QED BY <1>6, <2>1, <2>2, <2>5, <2>6 DEF DeleteTag, ReportsSound, TagRemovalsCounted
<1>7. ASSUME NEW r \in Reports, NEW u \in Users, NEW m \in Targeted, FileReport(r, u, m)
      PROVE ModerationInv'
  BY <1>7 DEF FileReport, tagVars, TagsSound, ReportsSound, TagRemovalsCounted, OthersApplied
<1>8. ASSUME NEW r \in Reports, NEW outcome \in {"resolved", "dismissed"}, ResolveReport(r, outcome)
      PROVE ModerationInv'
  <2>1. report' \in [Reports -> [by: Users \cup {NoOne}, message: Targeted \cup {NoOne},
                                 status: {"none", "open", "resolved", "dismissed"}, closings: 0..1]]
    BY <1>8 DEF ResolveReport, ReportsSound
  <2> QED BY <1>8, <2>1 DEF ResolveReport, tagVars, TagsSound, ReportsSound, TagRemovalsCounted, OthersApplied
<1> QED BY <1>1, <1>2, <1>3, <1>4, <1>5, <1>6, <1>7, <1>8 DEF ModerationNext

--------------------------------------------------------------------------------
(* Messages and their history.                                             *)

RecordedEntries == [action: {"create", "edit", "delete"}, text: 0..MaxTexts]

\* The types, with the functions' domains.
MessageTypes ==
  /\ channel \in {"live", "deleted"} /\ lastMessage \in 0..MaxMessages /\ minted \in 0..MaxMessages
  /\ message \in [Ids -> {"none", "live", "deleted"}]
  /\ content \in [Ids -> 0..MaxTexts] /\ written \in [Ids -> 0..MaxTexts]
  /\ history \in [Ids -> Seq(0..MaxTexts)]
  /\ editor \in [Editors -> [message: 0..MaxMessages, text: 0..MaxTexts]]
  /\ recording \in BOOLEAN /\ recorded \in [Ids -> Seq(RecordedEntries)]

\* A message that was sent holds the newest of its texts, and its history the others in order; one that
\* was not has none.
TextsInOrder ==
  \A m \in Ids :
    /\ message[m] = "none" => history[m] = <<>>
    /\ message[m] # "none" =>
         /\ written[m] >= 1 /\ content[m] = written[m] /\ Len(history[m]) = written[m] - 1
         /\ \A k \in 1..Len(history[m]) : history[m][k] = k

\* An edit holds the row of a message that stands, and has read the text it holds; no two edits hold
\* one row.
EditsHold ==
  \A e \in Editors : editor[e] # NoEdit =>
    /\ editor[e].message \in Ids /\ message[editor[e].message] = "live"
    /\ editor[e].text = content[editor[e].message]
    /\ \A f \in Editors : f # e => editor[f].message # editor[e].message

\* The pointer is at a message, and none is beyond it.
PointerHolds ==
  /\ lastMessage # 0 => message[lastMessage] # "none"
  /\ \A m \in Ids : message[m] # "none" => m <= lastMessage

MessagesInv == MessageTypes /\ TextsInOrder /\ EditsHold /\ PointerHolds

\* Nothing was sent at first.
LEMMA MessagesInitInv == ChannelInit => MessagesInv
BY ChannelAssumption DEF ChannelInit, MessagesInv, MessageTypes, TextsInOrder, EditsHold,
                         PointerHolds, NoEdit, Ids

\* The recording of a step is typed whether it is on or off.
LEMMA RecordTyped ==
  ASSUME NEW m \in Ids, NEW a \in {"create", "edit", "delete"}, NEW text \in 0..MaxTexts,
         MessageTypes, Record(m, a, text)
  PROVE  recorded' \in [Ids -> Seq(RecordedEntries)]
<1>1. [action |-> a, text |-> text] \in RecordedEntries
  BY DEF RecordedEntries
<1>2. Append(recorded[m], [action |-> a, text |-> text]) \in Seq(RecordedEntries)
  <2> HIDE DEF RecordedEntries
  <2> QED BY <1>1 DEF MessageTypes
<1> HIDE DEF RecordedEntries
<1> QED BY <1>2 DEF Record, MessageTypes

\* An edit keeps the text its message held, which nothing has changed since it was read.
LEMMA MessagesStepInv == MessagesInv /\ ChannelNext => MessagesInv'
<1> SUFFICES ASSUME MessagesInv, ChannelNext PROVE MessagesInv'
  OBVIOUS
<1> USE DEF MessagesInv
<1>0. /\ MaxTexts \in Nat /\ MaxTexts >= 1 /\ MaxMessages \in Nat /\ Ids \subseteq Nat
      /\ 0 \notin Ids /\ Ids \subseteq 0..MaxMessages /\ 0..MaxMessages \subseteq Ids \cup {0}
  BY ChannelAssumption DEF Ids
<1>1. CASE MintMessage
  <2>1. minted' \in 0..MaxMessages
    BY <1>0, <1>1 DEF MintMessage, MessageTypes
  <2> QED BY <1>1, <2>1 DEF MintMessage, MessageTypes, TextsInOrder, EditsHold, PointerHolds
<1>2. CASE SetMessageAudit
  BY <1>2 DEF SetMessageAudit, MessageTypes, TextsInOrder, EditsHold, PointerHolds
<1>3. CASE DeleteMessageChannel
  <2>1. MessageTypes'
    BY <1>0, <1>3 DEF DeleteMessageChannel, MessageTypes
  <2>2. EditsHold'
    BY <1>0, <1>3 DEF DeleteMessageChannel, MessageRowFree, EditsHold
  <2> QED BY <1>3, <2>1, <2>2 DEF DeleteMessageChannel, TextsInOrder, PointerHolds
<1>4. ASSUME NEW m \in Ids, Send(m) PROVE MessagesInv'
  <2>1. recorded' \in [Ids -> Seq(RecordedEntries)]
    BY <1>0, <1>4, RecordTyped, 1 \in 0..MaxTexts, "create" \in {"create", "edit", "delete"} DEF Send
  <2>2. message' = [message EXCEPT ![m] = "live"] /\ message[m] = "none"
        /\ content' = [content EXCEPT ![m] = 1] /\ written' = [written EXCEPT ![m] = 1]
        /\ history' = history /\ editor' = editor
    BY <1>4 DEF Send, CreateMessage, SetContent
  <2>3. lastMessage' \in 0..MaxMessages /\ lastMessage' >= lastMessage /\ lastMessage' >= m
        /\ lastMessage' \in {m, lastMessage}
    BY <1>0, <1>4 DEF Send, NewestOf, MessageTypes
  <2>4. MessageTypes'
    <3>1. message' \in [Ids -> {"none", "live", "deleted"}]
      BY <2>2 DEF MessageTypes
    <3>2. content' \in [Ids -> 0..MaxTexts] /\ written' \in [Ids -> 0..MaxTexts]
      BY <1>0, <2>2 DEF MessageTypes
    <3>3. channel' = channel /\ minted' = minted /\ recording' = recording
      BY <1>4 DEF Send
    <3> QED BY <2>1, <2>2, <2>3, <3>1, <3>2, <3>3 DEF MessageTypes
  <2>5. TextsInOrder'
    <3>1. history[m] = <<>> /\ Len(history'[m]) = 0 /\ written'[m] = 1 /\ content'[m] = 1 /\ message'[m] = "live"
      BY <2>2 DEF TextsInOrder, MessageTypes
    <3>2. \A n \in Ids \ {m} : /\ history'[n] = history[n] /\ written'[n] = written[n]
                               /\ content'[n] = content[n] /\ message'[n] = message[n]
      BY <2>2 DEF MessageTypes
    <3> QED BY <3>1, <3>2 DEF TextsInOrder
  <2>6. EditsHold'
    BY <2>2 DEF EditsHold, MessageTypes
  <2>7. PointerHolds'
    BY <1>0, <2>2, <2>3 DEF PointerHolds, MessageTypes
  <2> QED BY <2>4, <2>5, <2>6, <2>7
<1>5. ASSUME NEW m \in Ids, DeleteMessage(m) PROVE MessagesInv'
  <2>1. recorded' \in [Ids -> Seq(RecordedEntries)]
    BY <1>5, RecordTyped DEF DeleteMessage, MessageTypes
  <2>2. MessageTypes'
    BY <1>5, <2>1 DEF DeleteMessage, MessageTypes
  <2>3. /\ \A n \in Ids : (message'[n] = "none" <=> message[n] = "none")
        /\ UNCHANGED <<lastMessage, history, content, written>>
    BY <1>5 DEF DeleteMessage, MessageTypes
  <2>5. TextsInOrder'
    BY <2>3 DEF TextsInOrder
  <2>6. PointerHolds'
    BY <1>0, <2>3 DEF PointerHolds, MessageTypes
  <2>4. EditsHold'
    BY <1>5 DEF DeleteMessage, MessageRowFree, EditsHold, MessageTypes
  <2> QED BY <2>2, <2>4, <2>5, <2>6
<1>6. ASSUME NEW m \in Ids, NEW e \in Editors, LoadForEdit(e, m) PROVE MessagesInv'
  <2>1. MessageTypes'
    <3>1. [message |-> m, text |-> content[m]] \in [message: 0..MaxMessages, text: 0..MaxTexts]
      BY <1>0 DEF MessageTypes
    <3>2. editor' \in [Editors -> [message: 0..MaxMessages, text: 0..MaxTexts]]
      BY <1>6, <3>1 DEF LoadForEdit, MessageTypes
    <3> QED BY <1>6, <3>2 DEF LoadForEdit, MessageTypes
  <2>2. EditsHold'
    BY <1>0, <1>6 DEF LoadForEdit, MessageRowFree, EditsHold, MessageTypes, NoEdit
  <2> QED BY <1>6, <2>1, <2>2 DEF LoadForEdit, TextsInOrder, PointerHolds
<1>7. ASSUME NEW e \in Editors, UpdateMessage(e) PROVE MessagesInv'
  <2>1. PICK m \in Ids : m = editor[e].message
    BY <1>7 DEF UpdateMessage, EditsHold
  <2>2. PICK text \in 1..MaxTexts : text = written[m] + 1
    BY <1>0, <1>7, <2>1 DEF UpdateMessage, MessageTypes
  <2>3. /\ editor[e].text = content[m] /\ message[m] = "live" /\ editor[e] # NoEdit
        /\ history' = [history EXCEPT ![m] = Append(@, editor[e].text)]
        /\ content' = [content EXCEPT ![m] = text] /\ written' = [written EXCEPT ![m] = text]
        /\ editor' = [editor EXCEPT ![e] = NoEdit]
        /\ UNCHANGED <<channel, lastMessage, minted, message, recording>>
    BY <1>7, <2>1, <2>2 DEF UpdateMessage, SetContent, EditsHold
  <2>4. recorded' \in [Ids -> Seq(RecordedEntries)]
    BY <1>7, <2>1, <2>2, RecordTyped DEF UpdateMessage
  <2>5. MessageTypes'
    <3>1. history' \in [Ids -> Seq(0..MaxTexts)]
      BY <2>3 DEF MessageTypes
    <3>2. editor' \in [Editors -> [message: 0..MaxMessages, text: 0..MaxTexts]]
      BY <1>0, <2>3 DEF MessageTypes, NoEdit
    <3>3. text \in 0..MaxTexts
      BY <1>0, <2>2
    <3>4. content' \in [Ids -> 0..MaxTexts] /\ written' \in [Ids -> 0..MaxTexts]
      BY <2>3, <3>3 DEF MessageTypes
    <3> QED BY <2>3, <2>4, <3>1, <3>2, <3>4 DEF MessageTypes
  <2>6. TextsInOrder'
    <3> SUFFICES ASSUME NEW n \in Ids
                 PROVE (/\ message[n] = "none" => history[n] = <<>>
                        /\ message[n] # "none" =>
                             /\ written[n] >= 1 /\ content[n] = written[n]
                             /\ Len(history[n]) = written[n] - 1
                             /\ \A k \in 1..Len(history[n]) : history[n][k] = k)'
      BY DEF TextsInOrder
    <3>1. CASE n # m
      BY <2>3, <3>1 DEF TextsInOrder, MessageTypes
    <3>2. CASE n = m
      <4>1. /\ content[m] = written[m] /\ Len(history[m]) = written[m] - 1 /\ written[m] \in Nat
            /\ \A k \in 1..Len(history[m]) : history[m][k] = k /\ history[m] \in Seq(0..MaxTexts)
            /\ content[m] \in 0..MaxTexts
        BY <2>3 DEF TextsInOrder, MessageTypes
      <4>2. history[m] \in Seq(0..MaxTexts)
        BY DEF MessageTypes
      <4>3. history'[m] = Append(history[m], written[m]) /\ written'[m] = text /\ content'[m] = text
        BY <2>3, <4>1 DEF MessageTypes
      <4>4. Len(history'[m]) = text - 1
        BY <2>2, <4>1, <4>2, <4>3
      <4>5. \A k \in 1..Len(history'[m]) : history'[m][k] = k
        BY <2>2, <4>1, <4>2, <4>3, <4>4
      <4> QED BY <2>3, <3>2, <4>3, <4>4, <4>5
    <3> QED BY <3>1, <3>2
  <2>7. EditsHold'
    BY <1>0, <2>1, <2>3 DEF EditsHold, MessageTypes, NoEdit
  <2> QED BY <2>3, <2>5, <2>6, <2>7 DEF PointerHolds
<1>8. ASSUME NEW e \in Editors, EditFails(e) PROVE MessagesInv'
  <2>1. MessageTypes'
    BY <1>0, <1>8 DEF EditFails, MessageTypes, NoEdit
  <2>2. EditsHold'
    BY <1>0, <1>8 DEF EditFails, EditsHold, MessageTypes, NoEdit
  <2> QED BY <1>8, <2>1, <2>2 DEF EditFails, TextsInOrder, PointerHolds
<1> QED BY <1>1, <1>2, <1>3, <1>4, <1>5, <1>6, <1>7, <1>8 DEF ChannelNext

\* The invariant says what the properties do.
LEMMA MessagesAgree == MessagesInv => ChannelTypeOK /\ LastMessageIsNewest /\ NoTextLost
<1> SUFFICES ASSUME MessagesInv PROVE ChannelTypeOK /\ LastMessageIsNewest /\ NoTextLost
  OBVIOUS
<1>0. ChannelTypeOK
  BY DEF MessagesInv, MessageTypes, ChannelTypeOK, RecordedEntries
<1>1. LastMessageIsNewest
  BY ChannelAssumption DEF MessagesInv, MessageTypes, PointerHolds, LastMessageIsNewest, Ids
<1>2. ASSUME NEW m \in Ids, message[m] # "none"
      PROVE Append(history[m], content[m]) = [n \in 1..written[m] |-> n]
  <2>1. history[m] \in Seq(0..MaxTexts) /\ content[m] \in 0..MaxTexts /\ written[m] \in Nat
    BY ChannelAssumption DEF MessagesInv, MessageTypes
  <2>2. /\ content[m] = written[m] /\ Len(history[m]) = written[m] - 1
        /\ \A k \in 1..Len(history[m]) : history[m][k] = k
    BY <1>2 DEF MessagesInv, TextsInOrder
  <2> DEFINE s == Append(history[m], content[m])
  <2>3. s \in Seq(0..MaxTexts) /\ Len(s) = written[m]
    BY <2>1, <2>2
  <2>4. \A k \in 1..written[m] : s[k] = k
    BY <2>1, <2>2
  <2>5. s = [k \in 1..written[m] |-> s[k]]
    BY <2>3
  <2> HIDE DEF s
  <2> QED BY <2>4, <2>5 DEF s
<1> QED BY <1>0, <1>1, <1>2 DEF NoTextLost

--------------------------------------------------------------------------------
(* Guilds, invites and ownership.                                          *)

Steps == {"idle", "create", "redeem", "join", "transfer", "handover", "owned", "delete"}

\* The types, with what each transaction carries.
LifeTypes ==
  /\ guild \in [Guilds -> [state: {"none", "live", "gone"}, owner: Users \cup {NoOne}]]
  /\ joined \in [Users -> SUBSET Guilds]
  /\ guildInvite \in [GuildInvites -> [guild: Guilds \cup {NoOne}, uses: 0..MaxInviteUses,
                                       state: {"none", "live", "expired", "deleted"}]]
  /\ admitted \in [GuildInvites -> Nat]
  /\ tx \in [Txs -> [at: Steps, user: Users \cup {NoOne}, guild: Guilds \cup {NoOne},
                     to: Users \cup {NoOne}, invite: GuildInvites \cup {NoOne}]]

\* An invite that was made is into a guild, and a transaction under way has what its step needs.
TxsComplete ==
  /\ \A i \in GuildInvites : IF guildInvite[i].state = "none" THEN guildInvite[i].uses = 0
                             ELSE guildInvite[i].guild \in Guilds
  /\ \A t \in Txs :
       /\ tx[t].at \in {"create", "redeem", "join"} => tx[t].user \in Users
       /\ tx[t].at \in {"redeem", "join"} => tx[t].invite \in GuildInvites
       /\ tx[t].at \in {"transfer", "handover", "owned"} => tx[t].to \in Users
       /\ tx[t].at \in Steps \ {"idle", "create"} => tx[t].guild \in Guilds

\* t holds the account lock of u.
HoldsAccount(t, u) ==
  \/ tx[t].at \in {"create", "redeem", "join"} /\ tx[t].user = u
  \/ tx[t].at = "owned" /\ tx[t].to = u

\* No two transactions hold one account.
AccountsHeldOnce ==
  \A s, t \in Txs, u \in Users : HoldsAccount(s, u) /\ HoldsAccount(t, u) => s = t

\* What a transaction counted under the account lock is still so.
CountsStand ==
  \A t \in Txs :
    /\ tx[t].at = "create" => /\ OwnedBy(tx[t].user) < maxGuildsPerAccount
                              /\ JoinedBy(tx[t].user) < maxJoinedGuildsPerAccount
    /\ tx[t].at = "join" => JoinedBy(tx[t].user) < maxJoinedGuildsPerAccount
    /\ tx[t].at = "owned" => OwnedBy(tx[t].to) < maxGuildsPerAccount

LifeInv ==
  LifeTypes /\ TxsComplete /\ AccountsHeldOnce /\ CountsStand /\ CeilingsHold /\ InviteAdmitsItsUses

OwnedSet(u) == {g \in Guilds : Live(g) /\ guild[g].owner = u}

\* Nobody owns or has joined anything at first.
LEMMA LifeInitInv == LifeInit => LifeInv
<1> SUFFICES ASSUME LifeInit PROVE LifeInv
  OBVIOUS
<1>1. LifeTypes
  BY LifecycleOfGuilds DEF LifeInit, LifeTypes, Unmade, NoInvite, IdleTx, Steps
<1>2. TxsComplete /\ AccountsHeldOnce /\ CountsStand
  BY DEF LifeInit, TxsComplete, AccountsHeldOnce, HoldsAccount, CountsStand, IdleTx, NoInvite, Steps
<1>3. \A u \in Users : OwnedSet(u) = {} /\ joined[u] = {}
  BY DEF LifeInit, OwnedSet, Live, Unmade
<1>4. CeilingsHold
  <2>1. \A u \in Users : OwnedBy(u) = 0 /\ JoinedBy(u) = 0
    BY <1>3, FS_EmptySet DEF OwnedBy, JoinedBy, OwnedSet
  <2>2. 0 <= maxGuildsPerAccount /\ 0 <= maxJoinedGuildsPerAccount
    BY LifecycleOfGuilds
  <2> QED BY <2>1, <2>2 DEF CeilingsHold
<1>5. InviteAdmitsItsUses
  BY LifecycleOfGuilds DEF LifeInit, InviteAdmitsItsUses, NoInvite
<1> QED BY <1>1, <1>2, <1>4, <1>5 DEF LifeInv

\* The counts are of finite sets.
LEMMA CountsAreNumbers ==
  ASSUME LifeTypes, NEW u \in Users
  PROVE  /\ OwnedBy(u) \in Nat /\ JoinedBy(u) \in Nat
         /\ IsFiniteSet(OwnedSet(u)) /\ IsFiniteSet(joined[u])
<1>1. joined[u] \subseteq Guilds /\ OwnedSet(u) \subseteq Guilds
  BY DEF LifeTypes, OwnedSet
<1>2. IsFiniteSet(OwnedSet(u)) /\ IsFiniteSet(joined[u])
  BY <1>1, LifecycleOfGuilds, FS_Subset
<1> QED BY <1>2, FS_CardinalityType DEF OwnedBy, JoinedBy, OwnedSet

\* A count grows by no more than the one guild that is new.
LEMMA CountOne ==
  ASSUME NEW S, NEW T, NEW g, IsFiniteSet(S), T \subseteq S \cup {g}
  PROVE  Cardinality(T) \in Nat /\ Cardinality(S) \in Nat /\ Cardinality(T) <= Cardinality(S) + 1
<1>1. IsFiniteSet(S \cup {g}) /\ Cardinality(S) \in Nat
      /\ Cardinality(S \cup {g}) <= Cardinality(S) + 1 /\ Cardinality(S \cup {g}) \in Nat
  BY FS_AddElement, FS_CardinalityType
<1>2. IsFiniteSet(T) /\ Cardinality(T) <= Cardinality(S \cup {g})
  BY <1>1, FS_Subset
<1> QED BY <1>1, <1>2, FS_CardinalityType

\* And by none where no guild is.
LEMMA CountFewer ==
  ASSUME NEW S, NEW T, IsFiniteSet(S), T \subseteq S
  PROVE  Cardinality(T) \in Nat /\ Cardinality(S) \in Nat /\ Cardinality(T) <= Cardinality(S)
BY FS_Subset, FS_CardinalityType

\* A step of t that ends it and adds at most a guild to what the account it holds owns and has joined
\* keeps the counts, where t had counted what it adds to.
LEMMA GrowthIsCounted ==
  ASSUME LifeInv, LifeTypes', NEW t \in Txs, Ended(t), NEW u \in Users, HoldsAccount(t, u), NEW g,
         \A v \in Users : /\ OwnedSet(v)' \subseteq OwnedSet(v) \cup (IF v = u THEN {g} ELSE {})
                          /\ joined'[v] \subseteq joined[v] \cup (IF v = u THEN {g} ELSE {}),
         (OwnedSet(u)' \subseteq OwnedSet(u)) \/ OwnedBy(u) < maxGuildsPerAccount,
         (joined'[u] \subseteq joined[u]) \/ JoinedBy(u) < maxJoinedGuildsPerAccount
  PROVE  CountsStand' /\ CeilingsHold'
<1>0. {maxGuildsPerAccount, maxJoinedGuildsPerAccount} \subseteq Nat
  BY LifecycleOfGuilds
<1>1. \A v \in Users : /\ OwnedBy(v) \in Nat /\ JoinedBy(v) \in Nat
                       /\ IsFiniteSet(OwnedSet(v)) /\ IsFiniteSet(joined[v])
  BY CountsAreNumbers DEF LifeInv
<1>2. ASSUME NEW v \in Users, v # u
      PROVE  /\ OwnedBy(v)' \in Nat /\ OwnedBy(v)' <= OwnedBy(v)
             /\ JoinedBy(v)' \in Nat /\ JoinedBy(v)' <= JoinedBy(v)
  <2>1. OwnedSet(v)' \subseteq OwnedSet(v) /\ joined'[v] \subseteq joined[v]
    BY <1>2
  <2> QED BY <1>1, <2>1, CountFewer DEF OwnedBy, JoinedBy, OwnedSet
<1>3. OwnedBy(u)' \in Nat /\ OwnedBy(u)' <= maxGuildsPerAccount
  <2>1. OwnedBy(u) = Cardinality(OwnedSet(u)) /\ OwnedBy(u)' = Cardinality(OwnedSet(u)')
    BY DEF OwnedBy, OwnedSet
  <2>2. OwnedBy(u) <= maxGuildsPerAccount /\ OwnedBy(u) \in Nat /\ IsFiniteSet(OwnedSet(u))
    BY <1>1 DEF LifeInv, CeilingsHold
  <2>3. CASE OwnedSet(u)' \subseteq OwnedSet(u)
    BY <1>0, <2>1, <2>2, <2>3, CountFewer
  <2>4. CASE OwnedBy(u) < maxGuildsPerAccount
    <3>1. OwnedSet(u)' \subseteq OwnedSet(u) \cup {g}
      OBVIOUS
    <3>2. Cardinality(OwnedSet(u)') \in Nat /\ Cardinality(OwnedSet(u)') <= Cardinality(OwnedSet(u)) + 1
      BY <2>2, <3>1, CountOne
    <3> QED BY <1>0, <2>1, <2>2, <2>4, <3>2
  <2> QED BY <2>3, <2>4
<1>4. JoinedBy(u)' \in Nat /\ JoinedBy(u)' <= maxJoinedGuildsPerAccount
  <2>1. JoinedBy(u) = Cardinality(joined[u]) /\ JoinedBy(u)' = Cardinality(joined'[u])
    BY DEF JoinedBy
  <2>2. JoinedBy(u) <= maxJoinedGuildsPerAccount /\ JoinedBy(u) \in Nat /\ IsFiniteSet(joined[u])
    BY <1>1 DEF LifeInv, CeilingsHold
  <2>3. CASE joined'[u] \subseteq joined[u]
    BY <1>0, <2>1, <2>2, <2>3, CountFewer
  <2>4. CASE JoinedBy(u) < maxJoinedGuildsPerAccount
    <3>1. joined'[u] \subseteq joined[u] \cup {g}
      OBVIOUS
    <3>2. Cardinality(joined'[u]) \in Nat /\ Cardinality(joined'[u]) <= Cardinality(joined[u]) + 1
      BY <2>2, <3>1, CountOne
    <3> QED BY <1>0, <2>1, <2>2, <2>4, <3>2
  <2> QED BY <2>3, <2>4
<1>5. CeilingsHold'
  <2>1. ASSUME NEW v \in Users, v # u
        PROVE OwnedBy(v)' <= maxGuildsPerAccount /\ JoinedBy(v)' <= maxJoinedGuildsPerAccount
    BY <1>0, <1>1, <1>2, <2>1 DEF LifeInv, CeilingsHold
  <2> QED BY <1>3, <1>4, <2>1 DEF CeilingsHold
<1>6. CountsStand'
  <2> SUFFICES ASSUME NEW s \in Txs
               PROVE (/\ tx[s].at = "create" => /\ OwnedBy(tx[s].user) < maxGuildsPerAccount
                                                /\ JoinedBy(tx[s].user) < maxJoinedGuildsPerAccount
                      /\ tx[s].at = "join" => JoinedBy(tx[s].user) < maxJoinedGuildsPerAccount
                      /\ tx[s].at = "owned" => OwnedBy(tx[s].to) < maxGuildsPerAccount)'
    BY DEF CountsStand
  <2>1. CASE s = t
    <3>1. tx'[s].at = "idle"
      BY <2>1 DEF Ended, IdleTx, LifeInv, LifeTypes
    <3> QED BY <3>1
  <2>2. CASE s # t
    <3>1. tx'[s] = tx[s]
      BY <2>2 DEF Ended, LifeInv, LifeTypes
    <3>2. ~HoldsAccount(s, u)
      BY <2>2 DEF LifeInv, AccountsHeldOnce
    <3>3. tx[s].at \in {"create", "join"} => tx[s].user \in Users \ {u}
      BY <3>2 DEF HoldsAccount, LifeInv, TxsComplete
    <3>4. tx[s].at = "owned" => tx[s].to \in Users \ {u}
      BY <3>2 DEF HoldsAccount, LifeInv, TxsComplete
    <3>6. CASE tx[s].at = "create"
      <4>1. PICK v \in Users \ {u} : v = tx[s].user /\ v = tx'[s].user
        BY <3>1, <3>3, <3>6
      <4>2. OwnedBy(v) < maxGuildsPerAccount /\ JoinedBy(v) < maxJoinedGuildsPerAccount
        BY <3>6, <4>1 DEF LifeInv, CountsStand
      <4>3. OwnedBy(v)' < maxGuildsPerAccount /\ JoinedBy(v)' < maxJoinedGuildsPerAccount
        BY <1>0, <1>1, <1>2, <4>2
      <4> QED BY <3>1, <3>6, <4>1, <4>3 DEF OwnedBy, JoinedBy
    <3>7. CASE tx[s].at = "join"
      <4>1. PICK v \in Users \ {u} : v = tx[s].user /\ v = tx'[s].user
        BY <3>1, <3>3, <3>7
      <4>2. JoinedBy(v) < maxJoinedGuildsPerAccount
        BY <3>7, <4>1 DEF LifeInv, CountsStand
      <4>3. JoinedBy(v)' < maxJoinedGuildsPerAccount
        BY <1>0, <1>1, <1>2, <4>2
      <4> QED BY <3>1, <3>7, <4>1, <4>3 DEF OwnedBy, JoinedBy
    <3>8. CASE tx[s].at = "owned"
      <4>1. PICK v \in Users \ {u} : v = tx[s].to /\ v = tx'[s].to
        BY <3>1, <3>4, <3>8
      <4>2. OwnedBy(v) < maxGuildsPerAccount
        BY <3>8, <4>1 DEF LifeInv, CountsStand
      <4>3. OwnedBy(v)' < maxGuildsPerAccount
        BY <1>0, <1>1, <1>2, <4>2
      <4> QED BY <3>1, <3>8, <4>1, <4>3 DEF OwnedBy, JoinedBy
    <3> QED BY <3>1, <3>6, <3>7, <3>8
  <2> QED BY <2>1, <2>2
<1> QED BY <1>5, <1>6

\* A step after which nobody owns or has joined more, and no transaction counts anew, keeps the counts.
LEMMA NothingGrows ==
  ASSUME LifeInv,
         \A v \in Users : OwnedSet(v)' \subseteq OwnedSet(v) /\ joined'[v] \subseteq joined[v],
         \A s \in Txs : tx'[s] = tx[s] \/ tx'[s].at \notin {"create", "join", "owned"}
  PROVE  CountsStand' /\ CeilingsHold'
<1>0. {maxGuildsPerAccount, maxJoinedGuildsPerAccount} \subseteq Nat
  BY LifecycleOfGuilds
<1>1. \A v \in Users : /\ OwnedBy(v) \in Nat /\ JoinedBy(v) \in Nat
                       /\ IsFiniteSet(OwnedSet(v)) /\ IsFiniteSet(joined[v])
  BY CountsAreNumbers DEF LifeInv
<1>2. \A v \in Users : /\ OwnedBy(v)' \in Nat /\ OwnedBy(v)' <= OwnedBy(v)
                       /\ JoinedBy(v)' \in Nat /\ JoinedBy(v)' <= JoinedBy(v)
  BY <1>1, CountFewer DEF OwnedBy, JoinedBy, OwnedSet
<1>3. CeilingsHold'
  BY <1>0, <1>1, <1>2 DEF LifeInv, CeilingsHold
<1>4. CountsStand'
  <2> SUFFICES ASSUME NEW s \in Txs, tx'[s] = tx[s]
               PROVE (/\ tx[s].at = "create" => /\ OwnedBy(tx[s].user) < maxGuildsPerAccount
                                                /\ JoinedBy(tx[s].user) < maxJoinedGuildsPerAccount
                      /\ tx[s].at = "join" => JoinedBy(tx[s].user) < maxJoinedGuildsPerAccount
                      /\ tx[s].at = "owned" => OwnedBy(tx[s].to) < maxGuildsPerAccount)'
    BY DEF CountsStand
  <2>1. CASE tx[s].at \in {"create", "join"}
    <3>1. PICK v \in Users : v = tx[s].user /\ v = tx'[s].user
      BY <2>1 DEF LifeInv, TxsComplete
    <3>2. /\ tx[s].at = "create" => OwnedBy(v)' < maxGuildsPerAccount
          /\ JoinedBy(v)' < maxJoinedGuildsPerAccount
      BY <1>0, <1>1, <1>2, <2>1, <3>1 DEF LifeInv, CountsStand
    <3> QED BY <2>1, <3>1, <3>2 DEF OwnedBy, JoinedBy
  <2>2. CASE tx[s].at = "owned"
    <3>1. PICK v \in Users : v = tx[s].to /\ v = tx'[s].to
      BY <2>2 DEF LifeInv, TxsComplete
    <3>2. OwnedBy(v)' < maxGuildsPerAccount
      BY <1>0, <1>1, <1>2, <2>2, <3>1 DEF LifeInv, CountsStand
    <3> QED BY <2>2, <3>1, <3>2 DEF OwnedBy, JoinedBy
  <2> QED BY <2>1, <2>2
<1> QED BY <1>3, <1>4

\* A transaction that ends, or goes on without taking an account, keeps the locks apart.
LEMMA LocksStayApart ==
  ASSUME LifeInv, \A s \in Txs, u \in Users : HoldsAccount(s, u)' => HoldsAccount(s, u)
  PROVE  AccountsHeldOnce'
BY DEF LifeInv, AccountsHeldOnce

\* One that takes an account nobody holds does too.
LEMMA FreeAccountTaken ==
  ASSUME LifeInv, NEW t \in Txs, NEW u \in Users, AccountFree(u),
         \A s \in Txs, v \in Users : HoldsAccount(s, v)' => HoldsAccount(s, v) \/ (s = t /\ v = u)
  PROVE  AccountsHeldOnce'
<1>1. \A s \in Txs : ~HoldsAccount(s, u)
  BY DEF AccountFree, AccountHeld, HoldsAccount
<1> HIDE DEF HoldsAccount
<1> QED BY <1>1 DEF LifeInv, AccountsHeldOnce

TxRows == [at: Steps, user: Users \cup {NoOne}, guild: Guilds \cup {NoOne},
           to: Users \cup {NoOne}, invite: GuildInvites \cup {NoOne}]

\* What a row carries is enough for its step.
Complete(r) ==
  /\ r.at \in {"create", "redeem", "join"} => r.user \in Users
  /\ r.at \in {"redeem", "join"} => r.invite \in GuildInvites
  /\ r.at \in {"transfer", "handover", "owned"} => r.to \in Users
  /\ r.at \in Steps \ {"idle", "create"} => r.guild \in Guilds

\* A step that only moves one transaction on leaves the tables' part of the invariant alone.
LEMMA OneTxMoves ==
  ASSUME LifeInv, NEW t \in Txs, NEW r \in TxRows, Complete(r), tx' = [tx EXCEPT ![t] = r],
         UNCHANGED <<guild, joined, guildInvite, admitted>>
  PROVE  /\ LifeTypes' /\ TxsComplete' /\ InviteAdmitsItsUses' /\ CeilingsHold'
         /\ tx'[t] = r /\ \A s \in Txs \ {t} : tx'[s] = tx[s]
         /\ \A s \in Txs \ {t}, u \in Users : HoldsAccount(s, u)' <=> HoldsAccount(s, u)
         /\ \A u : OwnedBy(u)' = OwnedBy(u) /\ JoinedBy(u)' = JoinedBy(u) /\ OwnedSet(u)' = OwnedSet(u)
<1>1. tx' \in [Txs -> TxRows] /\ tx'[t] = r /\ \A s \in Txs \ {t} : tx'[s] = tx[s]
  <2>1. tx \in [Txs -> TxRows]
    BY DEF LifeInv, LifeTypes, TxRows
  <2> HIDE DEF TxRows
  <2> QED BY <2>1
<1>2. LifeTypes'
  BY <1>1 DEF LifeInv, LifeTypes, TxRows
<1>3. TxsComplete'
  BY <1>1 DEF LifeInv, TxsComplete, Complete
<1>4. \A u : OwnedBy(u)' = OwnedBy(u) /\ JoinedBy(u)' = JoinedBy(u) /\ OwnedSet(u)' = OwnedSet(u)
  BY DEF OwnedBy, JoinedBy, OwnedSet, Live
<1>5. CeilingsHold'
  BY <1>4 DEF LifeInv, CeilingsHold
<1>6. \A s \in Txs \ {t}, u \in Users : HoldsAccount(s, u)' <=> HoldsAccount(s, u)
  BY <1>1 DEF HoldsAccount
<1> QED BY <1>1, <1>2, <1>3, <1>4, <1>5, <1>6 DEF LifeInv, InviteAdmitsItsUses

\* If the one that moves has counted what its step needs, all have.
LEMMA OneTxCounts ==
  ASSUME LifeInv, NEW t \in Txs, NEW r, tx'[t] = r, \A s \in Txs \ {t} : tx'[s] = tx[s],
         UNCHANGED <<guild, joined>>,
         r.at = "create" => /\ OwnedBy(r.user) < maxGuildsPerAccount
                            /\ JoinedBy(r.user) < maxJoinedGuildsPerAccount,
         r.at = "join" => JoinedBy(r.user) < maxJoinedGuildsPerAccount,
         r.at = "owned" => OwnedBy(r.to) < maxGuildsPerAccount
  PROVE  CountsStand'
<1>1. \A u : OwnedBy(u)' = OwnedBy(u) /\ JoinedBy(u)' = JoinedBy(u)
  BY DEF OwnedBy, JoinedBy, Live
<1> SUFFICES ASSUME NEW s \in Txs
             PROVE (/\ tx[s].at = "create" => /\ OwnedBy(tx[s].user) < maxGuildsPerAccount
                                              /\ JoinedBy(tx[s].user) < maxJoinedGuildsPerAccount
                    /\ tx[s].at = "join" => JoinedBy(tx[s].user) < maxJoinedGuildsPerAccount
                    /\ tx[s].at = "owned" => OwnedBy(tx[s].to) < maxGuildsPerAccount)'
  BY DEF CountsStand
<1>2. PICK q : q = tx'[s]
  OBVIOUS
<1>3. /\ q.at = "create" => /\ OwnedBy(q.user) < maxGuildsPerAccount
                            /\ JoinedBy(q.user) < maxJoinedGuildsPerAccount
      /\ q.at = "join" => JoinedBy(q.user) < maxJoinedGuildsPerAccount
      /\ q.at = "owned" => OwnedBy(q.to) < maxGuildsPerAccount
  <2>1. CASE s = t
    BY <1>2, <2>1
  <2>2. CASE s # t
    BY <1>2, <2>2 DEF LifeInv, CountsStand
  <2> QED BY <2>1, <2>2
<1>4. /\ q.at = "create" => /\ OwnedBy(q.user)' < maxGuildsPerAccount
                            /\ JoinedBy(q.user)' < maxJoinedGuildsPerAccount
      /\ q.at = "join" => JoinedBy(q.user)' < maxJoinedGuildsPerAccount
      /\ q.at = "owned" => OwnedBy(q.to)' < maxGuildsPerAccount
  BY <1>1, <1>3
<1> QED BY <1>2, <1>4 DEF OwnedBy, JoinedBy

\* A transaction that ends leaves the others as they are.
LEMMA OneTxEnds ==
  ASSUME LifeInv, NEW t \in Txs, Ended(t)
  PROVE  /\ tx' \in [Txs -> TxRows] /\ tx'[t] = IdleTx /\ \A s \in Txs \ {t} : tx'[s] = tx[s]
         /\ AccountsHeldOnce'
<1>1. tx' \in [Txs -> TxRows] /\ tx'[t] = IdleTx /\ \A s \in Txs \ {t} : tx'[s] = tx[s]
  <2>1. tx \in [Txs -> TxRows] /\ IdleTx \in TxRows
    BY DEF LifeInv, LifeTypes, TxRows, IdleTx, Steps
  <2> HIDE DEF TxRows, IdleTx
  <2> QED BY <2>1 DEF Ended
<1>2. \A s \in Txs, u \in Users : HoldsAccount(s, u)' => HoldsAccount(s, u)
  BY <1>1 DEF HoldsAccount, IdleTx
<1> QED BY <1>1, <1>2, LocksStayApart

\* Whoever adds to what an account owns or has joined holds the account's lock, and has counted under it.
LEMMA LifeStepInv == LifeInv /\ LifeNext => LifeInv'
<1> SUFFICES ASSUME LifeInv, LifeNext PROVE LifeInv'
  OBVIOUS
<1>0. LifeTypes /\ TxsComplete /\ tx \in [Txs -> TxRows]
  BY DEF LifeInv, LifeTypes, TxRows
<1>1. ASSUME NEW t \in Txs, NEW r \in TxRows, Complete(r), tx' = [tx EXCEPT ![t] = r],
             r.at \notin {"create", "join", "owned"},
             \A u \in Users : HoldsAccount(t, u)' => HoldsAccount(t, u),
             UNCHANGED <<guild, joined, guildInvite, admitted>>
      PROVE  LifeInv'
  <2>1. CountsStand'
    BY <1>1, OneTxMoves, NothingGrows
  <2>2. AccountsHeldOnce'
    BY <1>1, OneTxMoves, LocksStayApart
  <2> QED BY <1>1, <2>1, <2>2, OneTxMoves DEF LifeInv
<1>2. ASSUME NEW t \in Txs, Abort(t) PROVE LifeInv'
  <2>1. IdleTx \in TxRows /\ Complete(IdleTx) /\ IdleTx.at \notin {"create", "join", "owned"}
    BY DEF IdleTx, TxRows, Complete, Steps
  <2>2. tx' = [tx EXCEPT ![t] = IdleTx] /\ UNCHANGED <<guild, joined, guildInvite, admitted>>
    BY <1>2 DEF Abort, Ended
  <2>3. tx'[t].at = "idle"
    BY <1>0, <2>2 DEF IdleTx
  <2>4. \A u \in Users : HoldsAccount(t, u)' => HoldsAccount(t, u)
    BY <2>3 DEF HoldsAccount
  <2> HIDE DEF IdleTx
  <2> QED BY <1>1, <2>1, <2>2, <2>4
<1>3. ASSUME NEW t \in Txs, LockGuildForShare(t) PROVE LifeInv'
  <2> DEFINE r == [tx[t] EXCEPT !.at = "join"]
  <2>1. tx[t].at = "redeem" /\ JoinedBy(tx[t].user) < maxJoinedGuildsPerAccount
        /\ UNCHANGED <<guild, joined, guildInvite, admitted>> /\ tx' = [tx EXCEPT ![t] = r]
    BY <1>0, <1>3 DEF LockGuildForShare
  <2>2. r \in TxRows /\ r.at = "join" /\ r.user = tx[t].user /\ r.guild = tx[t].guild /\ r.invite = tx[t].invite
    BY <1>0 DEF TxRows, Steps
  <2>3. Complete(r)
    BY <1>0, <2>1, <2>2 DEF Complete, TxsComplete, Steps
  <2> HIDE DEF r
  <2>4. /\ LifeTypes' /\ TxsComplete' /\ InviteAdmitsItsUses' /\ CeilingsHold'
        /\ tx'[t] = r /\ \A s \in Txs \ {t} : tx'[s] = tx[s]
        /\ \A s \in Txs \ {t}, u \in Users : HoldsAccount(s, u)' <=> HoldsAccount(s, u)
        /\ \A u : OwnedBy(u)' = OwnedBy(u) /\ JoinedBy(u)' = JoinedBy(u)
    BY <2>1, <2>2, <2>3, OneTxMoves
  <2>5. \A u \in Users : HoldsAccount(t, u)' => HoldsAccount(t, u)
    BY <2>1, <2>2, <2>4 DEF HoldsAccount
  <2>6. AccountsHeldOnce'
    BY <2>4, <2>5, LocksStayApart
  <2>7. CountsStand'
    BY <2>1, <2>2, <2>4, OneTxCounts
  <2> QED BY <2>4, <2>6, <2>7 DEF LifeInv
<1>4. ASSUME NEW t \in Txs, LockForTransfer(t) PROVE LifeInv'
  <2> DEFINE r == [tx[t] EXCEPT !.at = "handover"]
  <2>1. tx[t].at = "transfer" /\ UNCHANGED <<guild, joined, guildInvite, admitted>>
        /\ tx' = [tx EXCEPT ![t] = r]
    BY <1>0, <1>4 DEF LockForTransfer
  <2>2. r \in TxRows /\ r.at = "handover" /\ r.to = tx[t].to /\ r.guild = tx[t].guild
    BY <1>0 DEF TxRows, Steps
  <2>3. Complete(r)
    BY <1>0, <2>1, <2>2 DEF Complete, TxsComplete, Steps
  <2>4. tx'[t].at = "handover"
    BY <1>0, <2>1
  <2>5. \A u \in Users : HoldsAccount(t, u)' => HoldsAccount(t, u)
    BY <2>4 DEF HoldsAccount
  <2> HIDE DEF r
  <2> QED BY <1>1, <2>1, <2>2, <2>3, <2>5
<1>5. ASSUME NEW t \in Txs, CountRecipient(t) PROVE LifeInv'
  <2> DEFINE r == [tx[t] EXCEPT !.at = "owned"]
  <2>1. tx[t].at = "handover" /\ OwnedBy(tx[t].to) < maxGuildsPerAccount /\ AccountFree(tx[t].to)
        /\ UNCHANGED <<guild, joined, guildInvite, admitted>> /\ tx' = [tx EXCEPT ![t] = r]
    BY <1>0, <1>5 DEF CountRecipient
  <2>2. r \in TxRows /\ r.at = "owned" /\ r.to = tx[t].to /\ r.guild = tx[t].guild /\ tx[t].to \in Users
    BY <1>0, <2>1 DEF TxRows, Steps, TxsComplete
  <2>3. Complete(r)
    BY <1>0, <2>1, <2>2 DEF Complete, TxsComplete, Steps
  <2> HIDE DEF r
  <2>4. /\ LifeTypes' /\ TxsComplete' /\ InviteAdmitsItsUses' /\ CeilingsHold'
        /\ tx'[t] = r /\ \A s \in Txs \ {t} : tx'[s] = tx[s]
        /\ \A s \in Txs \ {t}, u \in Users : HoldsAccount(s, u)' <=> HoldsAccount(s, u)
        /\ \A u : OwnedBy(u)' = OwnedBy(u) /\ JoinedBy(u)' = JoinedBy(u)
    BY <2>1, <2>2, <2>3, OneTxMoves
  <2>5. \A v \in Users : HoldsAccount(t, v)' => v = tx[t].to
    BY <2>2, <2>4 DEF HoldsAccount
  <2>6. AccountsHeldOnce'
    <3>1. PICK u \in Users : u = tx[t].to
      BY <2>2
    <3>2. \A s \in Txs, v \in Users : HoldsAccount(s, v)' => HoldsAccount(s, v) \/ (s = t /\ v = u)
      BY <2>4, <2>5, <3>1
    <3> QED BY <2>1, <3>1, <3>2, FreeAccountTaken
  <2>7. CountsStand'
    BY <2>1, <2>2, <2>4, OneTxCounts
  <2> QED BY <2>4, <2>6, <2>7 DEF LifeInv
<1>6. ASSUME NEW t \in Txs, NEW u \in Users, LockForCreate(t, u) PROVE LifeInv'
  <2> DEFINE r == [IdleTx EXCEPT !.at = "create", !.user = u]
  <2>1. tx[t].at = "idle" /\ AccountFree(u) /\ OwnedBy(u) < maxGuildsPerAccount
        /\ JoinedBy(u) < maxJoinedGuildsPerAccount
        /\ UNCHANGED <<guild, joined, guildInvite, admitted>> /\ tx' = [tx EXCEPT ![t] = r]
    BY <1>6 DEF LockForCreate, Go
  <2>2. r \in TxRows /\ r.at = "create" /\ r.user = u /\ Complete(r)
    BY DEF TxRows, Steps, IdleTx, Complete
  <2> HIDE DEF r
  <2>4. /\ LifeTypes' /\ TxsComplete' /\ InviteAdmitsItsUses' /\ CeilingsHold'
        /\ tx'[t] = r /\ \A s \in Txs \ {t} : tx'[s] = tx[s]
        /\ \A s \in Txs \ {t}, v \in Users : HoldsAccount(s, v)' <=> HoldsAccount(s, v)
        /\ \A v : OwnedBy(v)' = OwnedBy(v) /\ JoinedBy(v)' = JoinedBy(v)
    BY <2>1, <2>2, OneTxMoves
  <2>5. \A v \in Users : HoldsAccount(t, v)' => v = u
    BY <2>2, <2>4 DEF HoldsAccount
  <2>6. AccountsHeldOnce'
    BY <2>1, <2>4, <2>5, FreeAccountTaken
  <2>7. CountsStand'
    BY <2>1, <2>2, <2>4, OneTxCounts
  <2> QED BY <2>4, <2>6, <2>7 DEF LifeInv
<1>7. ASSUME NEW t \in Txs, NEW u \in Users, NEW i \in GuildInvites, LockForRedeem(t, u, i) PROVE LifeInv'
  <2> DEFINE r == [IdleTx EXCEPT !.at = "redeem", !.user = u, !.invite = i, !.guild = guildInvite[i].guild]
  <2>1. tx[t].at = "idle" /\ AccountFree(u) /\ UNCHANGED <<guild, joined, guildInvite, admitted>>
        /\ tx' = [tx EXCEPT ![t] = r]
    BY <1>7 DEF LockForRedeem, Go
  <2>2. guildInvite[i].guild \in Guilds
    BY <1>0, <1>7 DEF LockForRedeem, RedeemableInvite, TxsComplete
  <2>3. r \in TxRows /\ r.at = "redeem" /\ r.user = u /\ Complete(r)
    BY <2>2 DEF TxRows, Steps, IdleTx, Complete
  <2> HIDE DEF r
  <2>4. /\ LifeTypes' /\ TxsComplete' /\ InviteAdmitsItsUses' /\ CeilingsHold'
        /\ tx'[t] = r /\ \A s \in Txs \ {t} : tx'[s] = tx[s]
        /\ \A s \in Txs \ {t}, v \in Users : HoldsAccount(s, v)' <=> HoldsAccount(s, v)
        /\ \A v : OwnedBy(v)' = OwnedBy(v) /\ JoinedBy(v)' = JoinedBy(v)
    BY <2>1, <2>3, OneTxMoves
  <2>5. \A v \in Users : HoldsAccount(t, v)' => v = u
    BY <2>3, <2>4 DEF HoldsAccount
  <2>6. AccountsHeldOnce'
    BY <2>1, <2>4, <2>5, FreeAccountTaken
  <2>7. CountsStand'
    BY <2>1, <2>3, <2>4, OneTxCounts
  <2> QED BY <2>4, <2>6, <2>7 DEF LifeInv
<1>8. ASSUME NEW t \in Txs, NEW u \in Users, NEW g \in Guilds, NEW to \in Users, BeginTransfer(t, u, g, to)
      PROVE LifeInv'
  <2> DEFINE r == [IdleTx EXCEPT !.at = "transfer", !.user = u, !.guild = g, !.to = to]
  <2>1. UNCHANGED <<guild, joined, guildInvite, admitted>> /\ tx' = [tx EXCEPT ![t] = r]
    BY <1>8 DEF BeginTransfer, Go
  <2>2. r \in TxRows /\ r.at = "transfer" /\ Complete(r)
    BY DEF TxRows, Steps, IdleTx, Complete
  <2> HIDE DEF r
  <2>3. \A v \in Users : HoldsAccount(t, v)' => HoldsAccount(t, v)
    BY <1>0, <2>1, <2>2 DEF HoldsAccount
  <2> QED BY <1>1, <2>1, <2>2, <2>3
<1>9. ASSUME NEW t \in Txs, NEW u \in Users, NEW g \in Guilds, BeginDelete(t, u, g) PROVE LifeInv'
  <2> DEFINE r == [IdleTx EXCEPT !.at = "delete", !.user = u, !.guild = g]
  <2>1. UNCHANGED <<guild, joined, guildInvite, admitted>> /\ tx' = [tx EXCEPT ![t] = r]
    BY <1>9 DEF BeginDelete, Go
  <2>2. r \in TxRows /\ r.at = "delete" /\ Complete(r)
    BY DEF TxRows, Steps, IdleTx, Complete
  <2> HIDE DEF r
  <2>3. \A v \in Users : HoldsAccount(t, v)' => HoldsAccount(t, v)
    BY <1>0, <2>1, <2>2 DEF HoldsAccount
  <2> QED BY <1>1, <2>1, <2>2, <2>3
<1>10. ASSUME NEW t \in Txs, NEW g \in Guilds, CreateGuild(t, g) PROVE LifeInv'
  <2>1. PICK u \in Users : u = tx[t].user
    BY <1>0, <1>10 DEF CreateGuild, TxsComplete
  <2>2. /\ tx[t].at = "create" /\ guild[g].state = "none" /\ Ended(t) /\ UNCHANGED <<guildInvite, admitted>>
        /\ guild' = [guild EXCEPT ![g] = [state |-> "live", owner |-> u]]
        /\ joined' = [joined EXCEPT ![u] = @ \cup {g}]
    BY <1>10, <2>1 DEF CreateGuild
  <2>3. tx' \in [Txs -> TxRows] /\ tx'[t] = IdleTx /\ (\A s \in Txs \ {t} : tx'[s] = tx[s]) /\ AccountsHeldOnce'
    BY <2>2, OneTxEnds
  <2>4. LifeTypes'
    <3>1. guild' \in [Guilds -> [state: {"none", "live", "gone"}, owner: Users \cup {NoOne}]]
      BY <1>0, <2>2 DEF LifeTypes
    <3>2. joined' \in [Users -> SUBSET Guilds]
      BY <1>0, <2>2 DEF LifeTypes
    <3> QED BY <1>0, <2>2, <2>3, <3>1, <3>2 DEF LifeTypes, TxRows
  <2>5. TxsComplete'
    BY <1>0, <2>2, <2>3 DEF TxsComplete, IdleTx
  <2>6. CountsStand' /\ CeilingsHold'
    <3>1. HoldsAccount(t, u) /\ OwnedBy(u) < maxGuildsPerAccount /\ JoinedBy(u) < maxJoinedGuildsPerAccount
      BY <2>1, <2>2 DEF HoldsAccount, LifeInv, CountsStand
    <3>2. \A v \in Users : /\ OwnedSet(v)' \subseteq OwnedSet(v) \cup (IF v = u THEN {g} ELSE {})
                           /\ joined'[v] \subseteq joined[v] \cup (IF v = u THEN {g} ELSE {})
      BY <1>0, <2>2 DEF OwnedSet, Live, LifeTypes
    <3> QED BY <2>2, <2>4, <3>1, <3>2, GrowthIsCounted
  <2> QED BY <2>2, <2>3, <2>4, <2>5, <2>6 DEF LifeInv, InviteAdmitsItsUses
<1>11. ASSUME NEW t \in Txs, RedeemInvite(t) PROVE LifeInv'
  <2>1. tx[t].at = "join" /\ tx[t].user \in Users /\ tx[t].invite \in GuildInvites /\ tx[t].guild \in Guilds
    BY <1>0, <1>11 DEF RedeemInvite, TxsComplete, Steps
  <2>2. PICK u \in Users, i \in GuildInvites, g \in Guilds :
          u = tx[t].user /\ i = tx[t].invite /\ g = tx[t].guild
    BY <2>1
  <2>3. PICK n \in 1..MaxInviteUses : n = guildInvite[i].uses + 1
    <3>1. guildInvite[i].uses \in 0..MaxInviteUses /\ guildInvite[i].uses < MaxInviteUses /\ MaxInviteUses \in Nat
      BY <1>0, <1>11, <2>2, LifecycleOfGuilds DEF RedeemInvite, RedeemableInvite, LifeTypes
    <3> QED BY <3>1
  <2>4. PICK st \in {"live", "deleted"} :
          /\ guildInvite' = [guildInvite EXCEPT ![i].uses = n, ![i].state = st]
          /\ admitted' = [admitted EXCEPT ![i] = @ + 1]
          /\ joined' = [joined EXCEPT ![u] = @ \cup {g}]
          /\ Ended(t) /\ UNCHANGED guild
    <3>1. /\ guildInvite[i].state = "live" /\ ~(n > MaxInviteUses)
          /\ guildInvite' = [guildInvite EXCEPT ![i].uses = IF n > MaxInviteUses THEN @ ELSE n,
                                                ![i].state = IF n = MaxInviteUses THEN "deleted" ELSE @]
          /\ admitted' = [admitted EXCEPT ![i] = @ + 1]
          /\ joined' = [joined EXCEPT ![u] = @ \cup {g}]
          /\ Ended(t) /\ UNCHANGED guild
      <4>1. ~(n > MaxInviteUses)
        BY <2>3, LifecycleOfGuilds
      <4> QED BY <1>11, <2>2, <2>3, <4>1 DEF RedeemInvite, RedeemableInvite
    <3>2. CASE n = MaxInviteUses
      BY <1>0, <3>1, <3>2 DEF LifeTypes
    <3>3. CASE n # MaxInviteUses
      BY <1>0, <3>1, <3>3 DEF LifeTypes
    <3> QED BY <3>2, <3>3
  <2>5. tx' \in [Txs -> TxRows] /\ tx'[t] = IdleTx /\ (\A s \in Txs \ {t} : tx'[s] = tx[s]) /\ AccountsHeldOnce'
    BY <2>4, OneTxEnds
  <2>6. LifeTypes'
    <3> DEFINE InviteRow == [guild: Guilds \cup {NoOne}, uses: 0..MaxInviteUses,
                             state: {"none", "live", "expired", "deleted"}]
    <3>1. guildInvite' \in [GuildInvites -> InviteRow]
      <4>1. [guildInvite[i] EXCEPT !.uses = n, !.state = st] \in InviteRow
        <5>1. n \in 0..MaxInviteUses
          BY <2>3, LifecycleOfGuilds
        <5>2. guildInvite[i] \in InviteRow
          BY <1>0 DEF LifeTypes
        <5> QED BY <5>1, <5>2
      <4>2. guildInvite \in [GuildInvites -> InviteRow]
        BY <1>0 DEF LifeTypes
      <4>3. guildInvite' = [guildInvite EXCEPT ![i] = [guildInvite[i] EXCEPT !.uses = n, !.state = st]]
        BY <2>4, <4>2
      <4> HIDE DEF InviteRow
      <4> QED BY <4>1, <4>2, <4>3
    <3>2. joined' \in [Users -> SUBSET Guilds]
      BY <1>0, <2>4 DEF LifeTypes
    <3>3. admitted' \in [GuildInvites -> Nat]
      BY <1>0, <2>4 DEF LifeTypes
    <3> QED BY <1>0, <2>4, <2>5, <3>1, <3>2, <3>3 DEF LifeTypes, TxRows
  <2>7. /\ guildInvite'[i].uses = n /\ guildInvite'[i].guild = guildInvite[i].guild
        /\ \A j \in GuildInvites \ {i} : guildInvite'[j] = guildInvite[j]
        /\ guildInvite[i].state = "live"
    BY <1>0, <1>11, <2>2, <2>4 DEF LifeTypes, RedeemInvite, RedeemableInvite
  <2>8. TxsComplete'
    <3>1. guildInvite'[i].state = st
      BY <1>0, <2>4 DEF LifeTypes
    <3> QED BY <1>0, <2>5, <2>7, <3>1 DEF TxsComplete, IdleTx
  <2>9. CountsStand' /\ CeilingsHold'
    <3>1. HoldsAccount(t, u) /\ JoinedBy(u) < maxJoinedGuildsPerAccount
      BY <2>1, <2>2 DEF HoldsAccount, LifeInv, CountsStand
    <3>2. \A v \in Users : /\ OwnedSet(v)' = OwnedSet(v)
                           /\ joined'[v] \subseteq joined[v] \cup (IF v = u THEN {g} ELSE {})
      BY <1>0, <2>4 DEF OwnedSet, Live, LifeTypes
    <3> QED BY <2>4, <2>6, <3>1, <3>2, GrowthIsCounted
  <2>10. InviteAdmitsItsUses'
    <3>1. admitted'[i] = admitted[i] + 1 /\ \A j \in GuildInvites \ {i} : admitted'[j] = admitted[j]
      BY <1>0, <2>4 DEF LifeTypes
    <3>2. admitted[i] = guildInvite[i].uses
      BY DEF LifeInv, InviteAdmitsItsUses
    <3>3. n <= MaxInviteUses
      BY <2>3, LifecycleOfGuilds
    <3> QED BY <2>3, <2>7, <3>1, <3>2, <3>3 DEF LifeInv, InviteAdmitsItsUses
  <2> QED BY <2>5, <2>6, <2>8, <2>9, <2>10 DEF LifeInv
<1>12. ASSUME NEW t \in Txs, HandOver(t) PROVE LifeInv'
  <2>1. PICK u \in Users, g \in Guilds : u = tx[t].to /\ g = tx[t].guild
    BY <1>0, <1>12 DEF HandOver, TxsComplete, Steps
  <2>2. /\ tx[t].at = "owned" /\ guild' = [guild EXCEPT ![g].owner = u] /\ Ended(t)
        /\ UNCHANGED <<joined, guildInvite, admitted>>
    BY <1>12, <2>1 DEF HandOver
  <2>3. tx' \in [Txs -> TxRows] /\ tx'[t] = IdleTx /\ (\A s \in Txs \ {t} : tx'[s] = tx[s]) /\ AccountsHeldOnce'
    BY <2>2, OneTxEnds
  <2>4. LifeTypes'
    <3>1. guild' \in [Guilds -> [state: {"none", "live", "gone"}, owner: Users \cup {NoOne}]]
      BY <1>0, <2>2 DEF LifeTypes
    <3> QED BY <1>0, <2>2, <2>3, <3>1 DEF LifeTypes, TxRows
  <2>5. TxsComplete'
    BY <1>0, <2>2, <2>3 DEF TxsComplete, IdleTx
  <2>6. CountsStand' /\ CeilingsHold'
    <3>1. HoldsAccount(t, u) /\ OwnedBy(u) < maxGuildsPerAccount
      BY <2>1, <2>2 DEF HoldsAccount, LifeInv, CountsStand
    <3>2. \A v \in Users : /\ OwnedSet(v)' \subseteq OwnedSet(v) \cup (IF v = u THEN {g} ELSE {})
                           /\ joined'[v] = joined[v]
      BY <1>0, <2>2 DEF OwnedSet, Live, LifeTypes
    <3> QED BY <2>2, <2>4, <3>1, <3>2, GrowthIsCounted
  <2> QED BY <2>2, <2>3, <2>4, <2>5, <2>6 DEF LifeInv, InviteAdmitsItsUses
<1>13. ASSUME NEW t \in Txs, DeleteGuild(t) PROVE LifeInv'
  <2>1. PICK g \in Guilds : g = tx[t].guild
    BY <1>0, <1>13 DEF DeleteGuild, TxsComplete, Steps
  <2>2. /\ guild' = [guild EXCEPT ![g] = [Unmade EXCEPT !.state = "gone"]]
        /\ joined' = [u \in Users |-> joined[u] \ {g}]
        /\ guildInvite' = [i \in GuildInvites |->
                             IF guildInvite[i].guild = g THEN [guildInvite[i] EXCEPT !.state = "deleted"]
                             ELSE guildInvite[i]]
        /\ Ended(t) /\ UNCHANGED admitted
    BY <1>13, <2>1 DEF DeleteGuild
  <2>3. tx' \in [Txs -> TxRows] /\ tx'[t] = IdleTx /\ (\A s \in Txs \ {t} : tx'[s] = tx[s]) /\ AccountsHeldOnce'
    BY <2>2, OneTxEnds
  <2>4. LifeTypes'
    <3>1. guild' \in [Guilds -> [state: {"none", "live", "gone"}, owner: Users \cup {NoOne}]]
      BY <1>0, <2>2 DEF LifeTypes, Unmade
    <3>2. joined' \in [Users -> SUBSET Guilds]
      BY <1>0, <2>2 DEF LifeTypes
    <3>3. guildInvite' \in [GuildInvites -> [guild: Guilds \cup {NoOne}, uses: 0..MaxInviteUses,
                                             state: {"none", "live", "expired", "deleted"}]]
      BY <1>0, <2>2 DEF LifeTypes
    <3> QED BY <1>0, <2>2, <2>3, <3>1, <3>2, <3>3 DEF LifeTypes, TxRows
  <2>5. \A i \in GuildInvites : /\ guildInvite'[i].guild = guildInvite[i].guild
                                /\ guildInvite'[i].uses = guildInvite[i].uses
                                /\ guildInvite'[i] = guildInvite[i]
                                     \/ (guildInvite[i].guild = g /\ guildInvite'[i].state = "deleted")
    BY <1>0, <2>2 DEF LifeTypes
  <2>6. TxsComplete'
    BY <1>0, <2>3, <2>5 DEF TxsComplete, IdleTx
  <2>7. CountsStand' /\ CeilingsHold'
    <3>1. \A v \in Users : OwnedSet(v)' \subseteq OwnedSet(v) /\ joined'[v] \subseteq joined[v]
      BY <1>0, <2>2 DEF OwnedSet, Live, LifeTypes, Unmade
    <3>2. \A s \in Txs : tx'[s] = tx[s] \/ tx'[s].at \notin {"create", "join", "owned"}
      BY <2>3 DEF IdleTx
    <3> QED BY <3>1, <3>2, NothingGrows
  <2> QED BY <2>2, <2>3, <2>4, <2>5, <2>6, <2>7 DEF LifeInv, InviteAdmitsItsUses
<1>14. ASSUME NEW u \in Users, NEW g \in Guilds, DepartGuild(u, g) PROVE LifeInv'
  <2>1. joined' = [joined EXCEPT ![u] = @ \ {g}] /\ UNCHANGED <<guild, guildInvite, admitted, tx>>
    BY <1>14 DEF DepartGuild
  <2>2. joined' \in [Users -> SUBSET Guilds]
    BY <1>0, <2>1 DEF LifeTypes
  <2>3. CountsStand' /\ CeilingsHold'
    <3>1. \A v \in Users : OwnedSet(v)' \subseteq OwnedSet(v) /\ joined'[v] \subseteq joined[v]
      BY <1>0, <2>1 DEF OwnedSet, Live, LifeTypes
    <3> QED BY <2>1, <3>1, NothingGrows
  <2> QED BY <2>1, <2>2, <2>3 DEF LifeInv, LifeTypes, TxsComplete, AccountsHeldOnce, HoldsAccount,
                                  InviteAdmitsItsUses
<1>15. ASSUME NEW i \in GuildInvites, UNCHANGED <<guild, joined, admitted, tx>>,
              NEW new \in [guild: Guilds, uses: 0..MaxInviteUses, state: {"live", "expired", "deleted"}],
              new.uses = guildInvite[i].uses, guildInvite' = [guildInvite EXCEPT ![i] = new]
       PROVE  LifeInv'
  <2>1. guildInvite' \in [GuildInvites -> [guild: Guilds \cup {NoOne}, uses: 0..MaxInviteUses,
                                           state: {"none", "live", "expired", "deleted"}]]
    BY <1>0, <1>15 DEF LifeTypes
  <2>2. \A v \in Users : OwnedSet(v)' \subseteq OwnedSet(v) /\ joined'[v] \subseteq joined[v]
    BY <1>15 DEF OwnedSet, Live
  <2>3. CountsStand' /\ CeilingsHold'
    BY <1>15, <2>2, NothingGrows
  <2>4. guildInvite'[i] = new /\ \A j \in GuildInvites \ {i} : guildInvite'[j] = guildInvite[j]
    BY <1>0, <1>15 DEF LifeTypes
  <2>5. TxsComplete' /\ InviteAdmitsItsUses'
    BY <1>0, <1>15, <2>4 DEF LifeInv, TxsComplete, InviteAdmitsItsUses
  <2> QED BY <1>0, <1>15, <2>1, <2>3, <2>5 DEF LifeInv, LifeTypes, AccountsHeldOnce, HoldsAccount
<1>16. ASSUME NEW u \in Users, NEW i \in GuildInvites, NEW g \in Guilds, CreateInvite(u, i, g) PROVE LifeInv'
  <2>1. guildInvite[i].uses = 0
    BY <1>0, <1>16 DEF CreateInvite, TxsComplete
  <2> DEFINE new == [guild |-> g, uses |-> 0, state |-> "live"]
  <2>2. new \in [guild: Guilds, uses: 0..MaxInviteUses, state: {"live", "expired", "deleted"}] /\ new.uses = 0
    BY LifecycleOfGuilds
  <2>3. guildInvite' = [guildInvite EXCEPT ![i] = new] /\ UNCHANGED <<guild, joined, admitted, tx>>
    BY <1>16 DEF CreateInvite
  <2> HIDE DEF new
  <2> QED BY <1>15, <2>1, <2>2, <2>3
<1>17. ASSUME NEW i \in GuildInvites, InviteExpires(i) PROVE LifeInv'
  <2> DEFINE new == [guildInvite[i] EXCEPT !.state = "expired"]
  <2>1. guildInvite' = [guildInvite EXCEPT ![i] = new] /\ UNCHANGED <<guild, joined, admitted, tx>>
    BY <1>17 DEF InviteExpires
  <2>2. guildInvite[i].guild \in Guilds
    BY <1>0, <1>17 DEF InviteExpires, TxsComplete
  <2>3. new \in [guild: Guilds, uses: 0..MaxInviteUses, state: {"live", "expired", "deleted"}]
        /\ new.uses = guildInvite[i].uses
    BY <1>0, <2>2 DEF LifeTypes
  <2> HIDE DEF new
  <2> QED BY <1>15, <2>1, <2>3
<1>18. ASSUME NEW i \in GuildInvites, DeleteInvite(i) PROVE LifeInv'
  <2> DEFINE new == [guildInvite[i] EXCEPT !.state = "deleted"]
  <2>1. guildInvite' = [guildInvite EXCEPT ![i] = new] /\ UNCHANGED <<guild, joined, admitted, tx>>
    BY <1>18 DEF DeleteInvite
  <2>2. guildInvite[i].guild \in Guilds
    BY <1>0, <1>18 DEF DeleteInvite, TxsComplete
  <2>3. new \in [guild: Guilds, uses: 0..MaxInviteUses, state: {"live", "expired", "deleted"}]
        /\ new.uses = guildInvite[i].uses
    BY <1>0, <2>2 DEF LifeTypes
  <2> HIDE DEF new
  <2> QED BY <1>15, <2>1, <2>3
<1> QED BY <1>2, <1>3, <1>4, <1>5, <1>6, <1>7, <1>8, <1>9, <1>10, <1>11, <1>12, <1>13, <1>14, <1>16,
           <1>17, <1>18 DEF LifeNext

--------------------------------------------------------------------------------
(* Authority: roles, overwrites and the owner.                             *)

OverwriteRows == [allow: SUBSET Perms, deny: SUBSET Perms, set: BOOLEAN]

\* The types of the tables.
AuthorityTypes ==
  /\ owner \in GuildUsers /\ members \subseteq GuildUsers
  /\ lastRole \in 0..RoleCount /\ roles \subseteq 1..lastRole
  /\ position \in [RoleIds -> 0..(maxRolesPerGuild + RoleCount)]
  /\ permissions \in [RoleIds \cup {Everyone} -> SUBSET Perms]
  /\ holds \in [GuildUsers -> SUBSET RoleIds] /\ \A u \in GuildUsers \ members : holds[u] = {}
  /\ overwrite \in [Targets -> OverwriteRows]
  /\ request = [q \in Requests |-> request[q]]
  /\ begun \in 0..MaxBegun /\ conferred \subseteq Perms

\* What the permissions conferred amount to.
Reach == IF "administrator" \in conferred THEN Perms ELSE conferred

\* What a decision lets through is the owner's or an admin's doing, or within reach.
MayDo(d, ps) == d.admin \/ Owns(d) \/ ps \subseteq Reach

\* A request's row has its fields.
Formed(r) == DOMAIN r = {"at", "d", "target", "want", "plan"}

\* A request acts on a decision that was in reach when it was made, and what it is about to write passed it.
RequestSound(r) ==
  /\ r.at \in Phases
  /\ MayDo(r.d, r.d.permissions)
  /\ r.at \in {"create", "set"} => r.want \in OverwriteRows /\ MayDo(r.d, r.want.allow)
  /\ r.at = "set" => r.target \in Targets
  /\ r.at = "reorder" => \A x \in DOMAIN r.plan : r.plan[x] \in 1..maxRolesPerGuild

RequestsSound == \A q \in Requests : Formed(request[q]) /\ RequestSound(request[q])

\* Where a role will be once a plan is carried out.
Planned(plan, r) == IF r \in DOMAIN plan THEN plan[r] ELSE position[r]

PlanApart(plan) == \A r, s \in roles : r # s => Planned(plan, r) # Planned(plan, s)

\* At most one request reorders, and its plan still leaves no two roles in one place.
PlansApart ==
  /\ \A p, q \in Requests : request[p].at = "reorder" /\ request[q].at = "reorder" => p = q
  /\ \A q \in Requests : request[q].at = "reorder" => PlanApart(request[q].plan)

AuthorityInv ==
  /\ AuthorityTypes /\ RequestsSound /\ PlansApart
  /\ NothingUnconferred /\ RolePositionsDistinct /\ OwnerIsMember

\* Within reach are exactly the guild's permissions and overwrites.
LEMMA ReachIsAll ==
  NothingUnconferred <=> /\ \A r \in RoleIds \cup {Everyone} : permissions[r] \subseteq Reach
                         /\ \A t \in Targets : overwrite[t].allow \subseteq Reach
BY DEF NothingUnconferred, Reach

\* The founder's guild has two roles, one of them the manager's, and no request.
LEMMA AuthorityInitInv == GuildInit => AuthorityInv
<1> SUFFICES ASSUME GuildInit PROVE AuthorityInv
  OBVIOUS
<1>1. AuthorityTypes
  <2>1. position \in [RoleIds -> 0..(maxRolesPerGuild + RoleCount)]
    BY GuildAssumption DEF GuildInit, RoleIds
  <2>2. permissions \in [RoleIds \cup {Everyone} -> SUBSET Perms]
    BY GuildAssumption DEF GuildInit, RoleIds, Everyone, Perms
  <2>3. holds \in [GuildUsers -> SUBSET RoleIds] /\ \A u \in GuildUsers \ members : holds[u] = {}
    BY GuildAssumption DEF GuildInit, RoleIds
  <2>4. overwrite \in [Targets -> OverwriteRows]
    BY DEF GuildInit, OverwriteRows, NoRow
  <2>5. owner \in GuildUsers /\ members \subseteq GuildUsers /\ lastRole \in 0..RoleCount /\ roles \subseteq 1..lastRole
    BY GuildAssumption DEF GuildInit
  <2>6. conferred \subseteq Perms /\ begun \in 0..MaxBegun
    BY GuildAssumption DEF GuildInit, Perms
  <2>7. request = [q \in Requests |-> request[q]]
    BY DEF GuildInit
  <2> QED BY <2>1, <2>2, <2>3, <2>4, <2>5, <2>6, <2>7 DEF AuthorityTypes
<1>2. RequestsSound
  BY DEF GuildInit, RequestsSound, Formed, RequestSound, NoRequest, NoDecision, MayDo, Owns, Phases
<1>3. PlansApart
  BY DEF GuildInit, PlansApart, NoRequest
<1>4. NothingUnconferred
  <2>1. \A r \in RoleIds \cup {Everyone} : permissions[r] \subseteq conferred
    BY DEF GuildInit, Everyone
  <2>2. \A t \in Targets : overwrite[t].allow = {}
    BY DEF GuildInit, NoRow
  <2>3. conferred \subseteq Reach
    BY DEF GuildInit, Reach, Perms
  <2> QED BY <2>1, <2>2, <2>3, ReachIsAll
<1>5. RolePositionsDistinct /\ OwnerIsMember
  BY GuildAssumption DEF GuildInit, RolePositionsDistinct, OwnerIsMember, RoleIds
<1> QED BY <1>1, <1>2, <1>3, <1>4, <1>5 DEF AuthorityInv

\* What was within reach stays so.
LEMMA ReachGrows ==
  ASSUME conferred \subseteq conferred', conferred' \subseteq Perms PROVE Reach \subseteq Reach'
BY DEF Reach

\* A sound request stays so as more is conferred.
LEMMA SoundStays ==
  ASSUME conferred \subseteq conferred', conferred' \subseteq Perms, NEW r, RequestSound(r)
  PROVE  RequestSound(r)'
<1>1. Reach \subseteq Reach'
  BY ReachGrows
<1> QED BY <1>1 DEF RequestSound, MayDo

\* One request moves on and the tables stay.
LEMMA RequestMoves ==
  ASSUME AuthorityInv, NEW q \in Requests, NEW r, Formed(r), RequestSound(r),
         r.at = "reorder" => PositionsFree(q) /\ PlanApart(r.plan),
         request' = [request EXCEPT ![q] = r], begun' \in 0..MaxBegun,
         UNCHANGED <<owner, members, lastRole, roles, position, permissions, holds, overwrite, conferred>>
  PROVE  AuthorityInv'
<1>1. request' = [p \in Requests |-> request'[p]] /\ request'[q] = r /\ \A p \in Requests \ {q} : request'[p] = request[p]
  BY DEF AuthorityInv, AuthorityTypes
<1>2. AuthorityTypes'
  BY <1>1 DEF AuthorityInv, AuthorityTypes
<1>3. \A p \in Requests : RequestSound(request'[p])
  BY <1>1 DEF AuthorityInv, RequestsSound
<1>4. RequestsSound'
  BY <1>1, <1>3 DEF AuthorityInv, RequestsSound, RequestSound, MayDo, Reach, Formed
<1>5. \A p \in Requests : request'[p].at = "reorder" => PlanApart(request'[p].plan)
  BY <1>1 DEF AuthorityInv, PlansApart
<1>6. \A p, s \in Requests : request'[p].at = "reorder" /\ request'[s].at = "reorder" => p = s
  BY <1>1 DEF AuthorityInv, PlansApart, PositionsFree
<1>7. PlansApart'
  BY <1>5, <1>6 DEF PlansApart, PlanApart, Planned
<1> QED BY <1>2, <1>4, <1>7 DEF AuthorityInv, NothingUnconferred, RolePositionsDistinct, OwnerIsMember

\* One request ends, and the places of the roles that stay are the same, or no other request plans any.
LEMMA RequestEnds ==
  ASSUME AuthorityInv, NEW q \in Requests, Done(q),
         conferred \subseteq conferred', conferred' \subseteq Perms,
         (roles' \subseteq roles /\ \A r \in roles' : position'[r] = position[r]) \/ PositionsFree(q)
  PROVE  RequestsSound' /\ PlansApart' /\ request' = [p \in Requests |-> request'[p]]
<1>1. request' = [p \in Requests |-> request'[p]] /\ request'[q] = NoRequest /\ \A p \in Requests \ {q} : request'[p] = request[p]
  BY DEF AuthorityInv, AuthorityTypes, Done
<1>2. Formed(NoRequest) /\ RequestSound(NoRequest)
  BY DEF Formed, RequestSound, NoRequest, NoDecision, MayDo, Owns, Phases
<1>3. \A p \in Requests : Formed(request'[p]) /\ RequestSound(request'[p])
  BY <1>1, <1>2 DEF AuthorityInv, RequestsSound
<1>4. ASSUME NEW p \in Requests PROVE RequestSound(request[p])'
  <2>1. PICK r : r = request'[p]
    OBVIOUS
  <2>2. RequestSound(r)'
    BY <1>3, <2>1, SoundStays
  <2> QED BY <2>1, <2>2 DEF RequestSound, MayDo
<1>5. RequestsSound'
  BY <1>3, <1>4 DEF RequestsSound, Formed
<1>6. \A p \in Requests : request'[p].at = "reorder" =>
         p # q /\ request[p].at = "reorder" /\ request'[p] = request[p]
  BY <1>1 DEF NoRequest
<1>7. PlansApart'
  <2>1. \A p, s \in Requests : request'[p].at = "reorder" /\ request'[s].at = "reorder" => p = s
    BY <1>6 DEF AuthorityInv, PlansApart
  <2>2. ASSUME NEW p \in Requests, request'[p].at = "reorder" PROVE PlanApart(request[p].plan)'
    <3>1. p # q /\ request[p].at = "reorder" /\ request'[p] = request[p]
      BY <1>6, <2>2
    <3>2. roles' \subseteq roles /\ \A r \in roles' : position'[r] = position[r]
      BY <3>1 DEF PositionsFree
    <3>3. PlanApart(request[p].plan)
      BY <3>1 DEF AuthorityInv, PlansApart
    <3> QED BY <3>1, <3>2, <3>3 DEF PlanApart, Planned
  <2> QED BY <2>1, <2>2 DEF PlansApart
<1> QED BY <1>1, <1>5, <1>7

\* Overwrites within reach let no more through than that.
LEMMA OverwritesInReach ==
  ASSUME AuthorityInv, NEW u \in GuildUsers, NEW base, base \subseteq Reach,
         NEW held, held \subseteq RoleIds \cup {Everyone}
  PROVE  ApplyOverwrites(base, held, u) \subseteq Reach
<1>1. \A t \in Targets : overwrite[t].allow \subseteq Reach
  BY ReachIsAll DEF AuthorityInv
<1>2. u \in Targets /\ Everyone \in Targets /\ held \subseteq Targets
  BY DEF Targets
<1> DEFINE Allowed == UNION {overwrite[t].allow : t \in held \ {Everyone}}
<1>3. Allowed \subseteq Reach
  BY <1>1, <1>2
<1>4. ApplyOverwrites(base, held, u) \subseteq base \cup overwrite[Everyone].allow \cup Allowed \cup overwrite[u].allow
  BY DEF ApplyOverwrites, Union
<1> QED BY <1>1, <1>2, <1>3, <1>4

\* A decision allows what is within reach, unless it is the owner's or an admin's.
LEMMA DecisionInReach ==
  ASSUME AuthorityInv, NEW u \in GuildUsers, NEW inChannel
  PROVE  MayDo(Resolve(u, inChannel), Resolve(u, inChannel).permissions)
<1> DEFINE base == UNION {permissions[r] : r \in Held(u)}
           d == Resolve(u, inChannel)
<1>1. Held(u) \subseteq RoleIds \cup {Everyone}
  BY DEF AuthorityInv, AuthorityTypes, Held
<1>2. base \subseteq Reach
  BY <1>1, ReachIsAll DEF AuthorityInv
<1>3. ApplyOverwrites(base, Held(u), u) \subseteq Reach
  BY <1>1, <1>2, OverwritesInReach
<1>4. "administrator" \in base => Reach = Perms
  BY <1>2 DEF Reach
<1>5. /\ d.actor = u /\ d.owner = owner
      /\ d.permissions = IF u = owner \/ "administrator" \in base THEN Perms
                         ELSE IF inChannel THEN ApplyOverwrites(base, Held(u), u) ELSE base
  BY DEF Resolve
<1> HIDE DEF base, d
<1> QED BY <1>2, <1>3, <1>4, <1>5 DEF MayDo, Owns, d

\* A request that begins has a sound decision.
LEMMA BeginKeeps ==
  ASSUME AuthorityInv, NEW q \in Requests, NEW u \in GuildUsers, NEW inChannel, NEW need,
         NEW at \in Phases \ {"create", "set", "reorder"}, Begin(q, at, u, inChannel, need)
  PROVE  AuthorityInv'
<1> DEFINE d == Resolve(u, inChannel)
           r == [NoRequest EXCEPT !.at = at, !.d = d]
<1>1. MayDo(d, d.permissions)
  BY DecisionInReach
<1>2. /\ request' = [request EXCEPT ![q] = r] /\ begun < MaxBegun /\ begun' = begun + 1
      /\ UNCHANGED <<owner, members, lastRole, roles, position, permissions, holds, overwrite, conferred>>
  BY DEF Begin
<1>3. begun' \in 0..MaxBegun
  BY <1>2, GuildAssumption DEF AuthorityInv, AuthorityTypes
<1> HIDE DEF d
<1>4. Formed(r) /\ r.at = at /\ r.d = d
  BY DEF Formed, NoRequest
<1> HIDE DEF r
<1>5. RequestSound(r)
  BY <1>1, <1>4 DEF RequestSound
<1> QED BY <1>2, <1>3, <1>4, <1>5, RequestMoves

\* What a decision may grant is the owner's or an admin's to grant, or within reach.
LEMMA GrantsInReach ==
  ASSUME AuthorityInv, NEW q \in Requests, NEW ps, MayGrant(request[q].d, ps)
  PROVE  MayDo(request[q].d, ps)
BY DEF AuthorityInv, RequestsSound, RequestSound, MayGrant, Allows, MayDo

\* And what is written on such a grant is within reach once it is.
LEMMA WrittenInReach ==
  ASSUME AuthorityInv, NEW d, NEW ps, ps \subseteq Perms, MayDo(d, ps), conferred' = Confers(d, ps)
  PROVE  ps \subseteq Reach' /\ Reach \subseteq Reach' /\ conferred \subseteq conferred' /\ conferred' \subseteq Perms
<1>1. conferred \subseteq conferred' /\ conferred' \subseteq Perms
  BY DEF Confers, AuthorityInv, AuthorityTypes
<1>2. Reach \subseteq Reach'
  BY <1>1, ReachGrows
<1>3. ps \subseteq Reach'
  BY <1>2 DEF MayDo, Confers, Reach
<1> QED BY <1>1, <1>2, <1>3

\* The set of roles placed before one, in the order the shift renumbers them in.
Below(r) == {s \in roles : position[s] < position[r] \/ (position[s] = position[r] /\ s < r)}

\* Renumbering gives distinct roles distinct places, from 2.
LEMMA RenumberedApart ==
  ASSUME AuthorityInv, lastRole < RoleCount
  PROVE  /\ \A r \in roles : Renumbered(r) \in 2..RoleCount
         /\ \A r, s \in roles : r # s => Renumbered(r) # Renumbered(s)
<1>1. /\ roles \subseteq 1..lastRole /\ lastRole \in Nat /\ RoleCount \in Nat /\ roles \subseteq RoleIds
      /\ \A r \in RoleIds : position[r] \in Nat
  BY GuildAssumption DEF AuthorityInv, AuthorityTypes, RoleIds
<1>2. IsFiniteSet(1..lastRole) /\ Cardinality(1..lastRole) = lastRole
  BY <1>1, FS_Interval
<1>3. ASSUME NEW S, S \subseteq roles PROVE IsFiniteSet(S) /\ Cardinality(S) \in Nat
  <2>1. S \in SUBSET (1..lastRole)
    BY <1>1, <1>3
  <2> QED BY <1>2, <2>1, FS_Subset, FS_CardinalityType
<1>4. ASSUME NEW r \in roles PROVE Cardinality(Below(r)) \in Nat /\ Cardinality(Below(r)) <= lastRole - 1
  <2>1. r \notin Below(r) /\ Below(r) \subseteq roles /\ r \in 1..lastRole
    BY <1>1 DEF Below
  <2>2. Below(r) \in SUBSET ((1..lastRole) \ {r})
    BY <1>1, <2>1
  <2>3. IsFiniteSet((1..lastRole) \ {r}) /\ Cardinality((1..lastRole) \ {r}) = lastRole - 1
    BY <1>2, <2>1, FS_RemoveElement
  <2>4. Cardinality(Below(r)) <= lastRole - 1
    BY <2>2, <2>3, FS_Subset
  <2> QED BY <1>3, <2>1, <2>4
<1>5. ASSUME NEW r \in roles, NEW s \in roles, position[r] < position[s]
      PROVE  Cardinality(Below(r)) < Cardinality(Below(s))
  <2>0. ASSUME NEW x \in Below(r) PROVE x \in Below(s)
    <3>1. x \in roles /\ position[x] \in Nat /\ position[r] \in Nat /\ position[s] \in Nat
      BY <1>1, <2>0 DEF Below
    <3>2. position[x] <= position[r]
      BY <2>0, <3>1 DEF Below
    <3> QED BY <1>5, <3>1, <3>2 DEF Below
  <2>1. Below(r) \in SUBSET Below(s) /\ Below(s) \subseteq roles
    BY <2>0 DEF Below
  <2>2. r \in Below(s) /\ r \notin Below(r)
    BY <1>1, <1>5 DEF Below
  <2>3. IsFiniteSet(Below(s)) /\ Cardinality(Below(s)) \in Nat
    BY <1>3, <2>1
  <2>4. Cardinality(Below(r)) <= Cardinality(Below(s)) /\ Cardinality(Below(r)) # Cardinality(Below(s))
    BY <2>1, <2>2, <2>3, FS_Subset
  <2> QED BY <1>4, <2>3, <2>4
<1>6. \A r \in roles : Renumbered(r) = 2 + Cardinality(Below(r))
  BY DEF Renumbered, Below
<1>7. ASSUME NEW r \in roles PROVE Renumbered(r) \in 2..RoleCount
  BY <1>1, <1>4, <1>6
<1>8. ASSUME NEW r \in roles, NEW s \in roles, r # s PROVE Renumbered(r) # Renumbered(s)
  <2>1. position[r] # position[s] /\ position[r] \in Nat /\ position[s] \in Nat
    BY <1>1, <1>8 DEF AuthorityInv, RolePositionsDistinct
  <2>2. position[r] < position[s] \/ position[s] < position[r]
    BY <2>1
  <2> QED BY <1>4, <1>5, <1>6, <2>2
<1> QED BY <1>7, <1>8

\* A step that ends a request keeps the invariant if what it wrote is typed, distinct and within reach, and
\* left the owner a member.
LEMMA WriteKeeps ==
  ASSUME AuthorityInv, NEW q \in Requests, Done(q),
         owner' \in members', members' \subseteq GuildUsers,
         lastRole' \in 0..RoleCount, roles' \subseteq 1..lastRole',
         position' \in [RoleIds -> 0..(maxRolesPerGuild + RoleCount)],
         permissions' \in [RoleIds \cup {Everyone} -> SUBSET Perms],
         holds' \in [GuildUsers -> SUBSET RoleIds], \A u \in GuildUsers \ members' : holds'[u] = {},
         overwrite' \in [Targets -> OverwriteRows],
         begun' = begun, conferred \subseteq conferred', conferred' \subseteq Perms,
         (roles' \subseteq roles /\ \A r \in roles' : position'[r] = position[r])
           \/ (PositionsFree(q) /\ RolePositionsDistinct'),
         \A r \in RoleIds \cup {Everyone} : permissions'[r] \subseteq Reach',
         \A t \in Targets : overwrite'[t].allow \subseteq Reach'
  PROVE  AuthorityInv'
<1>1. RequestsSound' /\ PlansApart' /\ request' = [p \in Requests |-> request'[p]]
  BY RequestEnds
<1>2. begun' \in 0..MaxBegun
  BY DEF AuthorityInv, AuthorityTypes
<1>3. AuthorityTypes'
  BY <1>1, <1>2 DEF AuthorityTypes
<1>4. NothingUnconferred'
  BY ReachIsAll DEF NothingUnconferred, Reach
<1>5. RolePositionsDistinct'
  BY DEF AuthorityInv, RolePositionsDistinct
<1> QED BY <1>1, <1>3, <1>4, <1>5 DEF AuthorityInv, OwnerIsMember

\* No member acting on a decision, however stale, brings in what nobody conferred; the position lock keeps
\* places apart; and whoever leaves is not the owner by then.
LEMMA AuthorityStepInv == AuthorityInv /\ GuildNext => AuthorityInv'
<1> SUFFICES ASSUME AuthorityInv, GuildNext PROVE AuthorityInv'
  OBVIOUS
<1>0. /\ AuthorityTypes /\ OwnerIsMember /\ 0 \in Nat
      /\ \A q \in Requests : Formed(request[q]) /\ RequestSound(request[q])
      /\ \A r \in RoleIds \cup {Everyone} : permissions[r] \subseteq Reach
      /\ \A t \in Targets : overwrite[t].allow \subseteq Reach
  BY ReachIsAll DEF AuthorityInv, RequestsSound
<1>a. /\ owner \in members /\ members \subseteq GuildUsers /\ lastRole \in 0..RoleCount /\ roles \subseteq 1..lastRole
      /\ position \in [RoleIds -> 0..(maxRolesPerGuild + RoleCount)]
      /\ permissions \in [RoleIds \cup {Everyone} -> SUBSET Perms]
      /\ holds \in [GuildUsers -> SUBSET RoleIds] /\ \A u \in GuildUsers \ members : holds[u] = {}
      /\ overwrite \in [Targets -> OverwriteRows] /\ conferred \subseteq Perms
      /\ request = [q \in Requests |-> request[q]] /\ begun \in 0..MaxBegun
  BY <1>0 DEF AuthorityTypes, OwnerIsMember
<1>b. /\ RoleCount \in Nat /\ maxRolesPerGuild \in Nat /\ roles \subseteq RoleIds
      /\ RoleIds \subseteq Targets /\ GuildUsers \subseteq Targets /\ Everyone \in Targets
      /\ Masks \subseteq SUBSET Perms
  BY <1>a, GuildAssumption DEF RoleIds, Targets
<1>c. NoRow \in OverwriteRows /\ NoRow.allow = {}
  BY DEF NoRow, OverwriteRows
<1>1. ASSUME NEW q \in Requests, NEW u \in GuildUsers,
             AuthorizeRoles(q, u) \/ AuthorizeChannel(q, u) \/ AuthorizeTransfer(q, u)
               \/ AuthorizeLeave(q, u) \/ AuthorizeKick(q, u)
      PROVE  AuthorityInv'
  <2>1. {"roles", "overwrite", "transfer", "leave", "kick"} \subseteq Phases \ {"create", "set", "reorder"}
    BY DEF Phases
  <2>2. CASE AuthorizeRoles(q, u)
    BY <2>1, <2>2, BeginKeeps DEF AuthorizeRoles
  <2>3. CASE AuthorizeChannel(q, u)
    BY <2>1, <2>3, BeginKeeps DEF AuthorizeChannel
  <2>4. CASE AuthorizeTransfer(q, u)
    BY <2>1, <2>4, BeginKeeps DEF AuthorizeTransfer
  <2>5. CASE AuthorizeLeave(q, u)
    BY <2>1, <2>5, BeginKeeps DEF AuthorizeLeave
  <2>6. CASE AuthorizeKick(q, u)
    BY <2>1, <2>6, BeginKeeps DEF AuthorizeKick
  <2> QED BY <1>1, <2>2, <2>3, <2>4, <2>5, <2>6
<1>2. ASSUME NEW q \in Requests, NEW u \in GuildUsers, CheckKick(q, u) PROVE AuthorityInv'
  <2> DEFINE r == [request[q] EXCEPT !.at = "remove", !.target = u]
  <2>1. request' = [request EXCEPT ![q] = r]
    BY <1>2 DEF CheckKick
  <2>2. Formed(r) /\ r.at = "remove" /\ r.d = request[q].d
    BY <1>0 DEF Formed
  <2> HIDE DEF r
  <2>3. RequestSound(r)
    BY <1>0, <2>2 DEF RequestSound, Phases
  <2> QED BY <1>2, <1>a, <2>1, <2>2, <2>3, RequestMoves DEF CheckKick
<1>3. ASSUME NEW q \in Requests, Refused(q) PROVE AuthorityInv'
  <2>1. Formed(NoRequest) /\ RequestSound(NoRequest) /\ NoRequest.at = "idle"
    BY DEF Formed, RequestSound, NoRequest, NoDecision, MayDo, Owns, Phases
  <2> HIDE DEF NoRequest
  <2> QED BY <1>3, <1>a, <2>1, RequestMoves DEF Refused, Done
<1>4. ASSUME NEW q \in Requests, NEW ps \in Masks, CountRoles(q, ps) PROVE AuthorityInv'
  <2> DEFINE r == [request[q] EXCEPT !.at = "create", !.want = Row(ps, {})]
  <2>1. request' = [request EXCEPT ![q] = r]
    BY <1>4 DEF CountRoles
  <2>2. Formed(r) /\ r.at = "create" /\ r.d = request[q].d /\ r.want = Row(ps, {})
    BY <1>0 DEF Formed
  <2> HIDE DEF r
  <2>3. Row(ps, {}) \in OverwriteRows /\ Row(ps, {}).allow = ps
    BY <1>b DEF Row, OverwriteRows
  <2>4. MayDo(r.d, ps)
    BY <1>4, <2>2, GrantsInReach DEF CountRoles
  <2>5. RequestSound(r)
    BY <1>0, <2>2, <2>3, <2>4 DEF RequestSound, Phases
  <2> QED BY <1>4, <1>a, <2>1, <2>2, <2>5, RequestMoves DEF CountRoles
<1>5. ASSUME NEW q \in Requests, NEW S \in SUBSET roles, NEW plan \in [S -> 1..maxRolesPerGuild],
             PlanReorder(q, S, plan)
      PROVE  AuthorityInv'
  <2> DEFINE moved == [x \in S |-> plan[x]]
             r == [request[q] EXCEPT !.at = "reorder", !.plan = moved]
  <2>1. request' = [request EXCEPT ![q] = r]
    BY <1>5 DEF PlanReorder
  <2>2. Formed(r) /\ r.at = "reorder" /\ r.d = request[q].d /\ r.plan = moved
    BY <1>0 DEF Formed
  <2>3. DOMAIN moved = S /\ \A x \in S : moved[x] = plan[x] /\ moved[x] \in 1..maxRolesPerGuild
    OBVIOUS
  <2>4. PlanApart(moved)
    <3> SUFFICES ASSUME NEW x \in roles, NEW y \in roles, x # y PROVE Planned(moved, x) # Planned(moved, y)
      BY DEF PlanApart
    <3> DEFINE final == [z \in roles |-> IF z \in S THEN plan[z] ELSE position[z]]
    <3>1. final[x] # final[y]
      BY <1>5 DEF PlanReorder
    <3> QED BY <2>3, <3>1 DEF Planned
  <2> HIDE DEF r, moved
  <2>5. RequestSound(r)
    BY <1>0, <2>2, <2>3 DEF RequestSound, Phases
  <2> QED BY <1>5, <1>a, <2>1, <2>2, <2>4, <2>5, RequestMoves DEF PlanReorder
<1>6. ASSUME NEW q \in Requests, NEW t \in Targets, NEW row \in OverwriteRows, CheckOverwrite(q, t, row)
      PROVE  AuthorityInv'
  <2>1. PICK p : p = IF overwrite[t].set THEN <<t>> ELSE <<>>
    OBVIOUS
  <2> DEFINE r == [request[q] EXCEPT !.at = "set", !.target = t, !.want = row, !.plan = p]
  <2>2. request' = [request EXCEPT ![q] = r]
    BY <1>6, <2>1 DEF CheckOverwrite
  <2>3. Formed(r) /\ r.at = "set" /\ r.d = request[q].d /\ r.want = row /\ r.target = t
    BY <1>0 DEF Formed
  <2> HIDE DEF r
  <2>4. MayDo(r.d, row.allow)
    <3>1. MayGrant(request[q].d, row.allow)
      BY <1>6 DEF CheckOverwrite, MayGrant, Allows
    <3> QED BY <2>3, <3>1, GrantsInReach
  <2>5. RequestSound(r)
    BY <1>0, <2>3, <2>4 DEF RequestSound, Phases
  <2> QED BY <1>6, <1>a, <2>2, <2>3, <2>5, RequestMoves DEF CheckOverwrite
<1>7. ASSUME NEW q \in Requests, CreateRole(q) PROVE AuthorityInv'
  <2> DEFINE r == lastRole + 1
             ps == request[q].want.allow
             d == request[q].d
  <2>1. /\ PositionsFree(q) /\ r \in RoleIds /\ InsertRole(r, ps) /\ conferred' = Confers(d, ps) /\ Done(q)
        /\ UNCHANGED <<owner, members, holds, overwrite, begun>>
    BY <1>7 DEF CreateRole
  <2>2. ps \subseteq Perms /\ MayDo(d, ps)
    BY <1>0, <1>7 DEF CreateRole, RequestSound, OverwriteRows
  <2> HIDE DEF ps, d
  <2>3. ps \subseteq Reach' /\ Reach \subseteq Reach' /\ conferred \subseteq conferred' /\ conferred' \subseteq Perms
    BY <2>1, <2>2, WrittenInReach
  <2>4. lastRole \in Nat /\ r \in 1..RoleCount /\ r \notin roles /\ lastRole < RoleCount
    BY <1>a, <1>b, <2>1 DEF RoleIds
  <2>5. lastRole' \in 0..RoleCount /\ roles' = roles \cup {r} /\ roles' \subseteq 1..lastRole'
    BY <1>a, <1>b, <2>1, <2>4 DEF InsertRole
  <2>6. /\ \A x \in roles : Renumbered(x) \in 2..RoleCount
        /\ \A x, y \in roles : x # y => Renumbered(x) # Renumbered(y)
    BY <2>4, RenumberedApart
  <2>7. /\ position' = [s \in RoleIds |-> IF s = r THEN 1 ELSE IF s \in roles THEN Renumbered(s) ELSE 0]
        /\ permissions' = [permissions EXCEPT ![r] = ps]
    BY <2>1 DEF InsertRole
  <2>8. position' \in [RoleIds -> 0..(maxRolesPerGuild + RoleCount)]
    <3>1. {0, 1} \subseteq 0..(maxRolesPerGuild + RoleCount)
          /\ \A x \in roles : Renumbered(x) \in 0..(maxRolesPerGuild + RoleCount)
      BY <1>b, <2>4, <2>6
    <3> HIDE DEF r
    <3> QED BY <2>7, <3>1
  <2>9. RolePositionsDistinct'
    <3> SUFFICES ASSUME NEW x \in roles', NEW y \in roles', x # y PROVE position'[x] # position'[y]
      BY DEF RolePositionsDistinct
    <3>1. x \in RoleIds /\ y \in RoleIds /\ x \in roles \cup {r} /\ y \in roles \cup {r}
      BY <1>b, <2>1, <2>5
    <3>2. position'[x] = (IF x = r THEN 1 ELSE Renumbered(x)) /\ position'[y] = (IF y = r THEN 1 ELSE Renumbered(y))
      BY <2>7, <3>1
    <3> HIDE DEF r
    <3> QED BY <2>6, <3>1, <3>2
  <2>10. /\ permissions' \in [RoleIds \cup {Everyone} -> SUBSET Perms]
         /\ \A x \in RoleIds \cup {Everyone} : permissions'[x] \subseteq Reach'
    <3> HIDE DEF r
    <3> QED BY <1>0, <1>a, <2>1, <2>2, <2>3, <2>7
  <2>11. \A t \in Targets : overwrite'[t].allow \subseteq Reach'
    BY <1>0, <2>1, <2>3
  <2> QED BY <1>a, <2>1, <2>3, <2>5, <2>8, <2>9, <2>10, <2>11, WriteKeeps
<1>8. ASSUME NEW q \in Requests, NEW ps \in Masks, NEW r \in RoleIds \cup {Everyone}, UpdateRole(q, r, ps)
      PROVE  AuthorityInv'
  <2>1. /\ MayDo(request[q].d, ps) /\ ps \subseteq Perms /\ conferred' = Confers(request[q].d, ps) /\ Done(q)
        /\ permissions' = [permissions EXCEPT ![r] = ps]
        /\ UNCHANGED <<owner, members, lastRole, roles, position, holds, overwrite, begun>>
    BY <1>8, <1>b, GrantsInReach DEF UpdateRole
  <2>2. ps \subseteq Reach' /\ Reach \subseteq Reach' /\ conferred \subseteq conferred' /\ conferred' \subseteq Perms
    BY <2>1, WrittenInReach
  <2>3. /\ permissions' \in [RoleIds \cup {Everyone} -> SUBSET Perms]
        /\ \A x \in RoleIds \cup {Everyone} : permissions'[x] \subseteq Reach'
    BY <1>0, <1>a, <2>1, <2>2
  <2>4. \A t \in Targets : overwrite'[t].allow \subseteq Reach'
    BY <1>0, <2>1, <2>2
  <2> QED BY <1>a, <2>1, <2>2, <2>3, <2>4, WriteKeeps
<1>9. ASSUME NEW q \in Requests, NEW r \in RoleIds, DeleteRole(q, r) PROVE AuthorityInv'
  <2>1. /\ DropRole(r) /\ overwrite' = [overwrite EXCEPT ![r] = NoRow] /\ Done(q)
        /\ UNCHANGED <<owner, members, lastRole, begun, conferred>>
    BY <1>9 DEF DeleteRole
  <2>2. /\ roles' = roles \ {r} /\ position' = [position EXCEPT ![r] = 0]
        /\ permissions' = [permissions EXCEPT ![r] = {}] /\ holds' = [u \in GuildUsers |-> holds[u] \ {r}]
    BY <2>1 DEF DropRole
  <2>3. Reach' = Reach
    BY <2>1 DEF Reach
  <2>4. position' \in [RoleIds -> 0..(maxRolesPerGuild + RoleCount)]
        /\ roles' \subseteq roles /\ \A x \in roles' : position'[x] = position[x]
    BY <1>a, <1>b, <2>2
  <2>5. /\ permissions' \in [RoleIds \cup {Everyone} -> SUBSET Perms]
        /\ \A x \in RoleIds \cup {Everyone} : permissions'[x] \subseteq Reach'
    BY <1>0, <1>a, <2>2, <2>3
  <2>6. /\ overwrite' \in [Targets -> OverwriteRows] /\ \A t \in Targets : overwrite'[t].allow \subseteq Reach'
    <3> HIDE DEF NoRow, OverwriteRows
    <3> QED BY <1>0, <1>a, <1>b, <1>c, <2>1, <2>3
  <2>7. holds' \in [GuildUsers -> SUBSET RoleIds] /\ \A u \in GuildUsers \ members' : holds'[u] = {}
    BY <1>a, <2>1, <2>2
  <2> QED BY <1>a, <2>1, <2>4, <2>5, <2>6, <2>7, WriteKeeps
<1>10. ASSUME NEW q \in Requests, ReorderRoles(q) PROVE AuthorityInv'
  <2> DEFINE plan == request[q].plan
  <2>1. /\ request[q].at = "reorder" /\ SetRolePosition(plan) /\ Done(q)
        /\ UNCHANGED <<owner, members, lastRole, roles, permissions, holds, overwrite, begun, conferred>>
    BY <1>10 DEF ReorderRoles
  <2>2. PositionsFree(q) /\ PlanApart(plan)
    BY <2>1 DEF AuthorityInv, PlansApart, PositionsFree
  <2>3. DOMAIN plan \subseteq roles /\ \A x \in DOMAIN plan : plan[x] \in 1..maxRolesPerGuild
    BY <1>0, <2>1 DEF RequestSound, SetRolePosition
  <2>4. position' = [r \in RoleIds |-> IF r \in DOMAIN plan THEN plan[r] ELSE position[r]]
    BY <2>1 DEF SetRolePosition
  <2>5. position' \in [RoleIds -> 0..(maxRolesPerGuild + RoleCount)]
    BY <1>a, <1>b, <2>3, <2>4
  <2>6. RolePositionsDistinct'
    BY <1>b, <2>1, <2>2, <2>4 DEF RolePositionsDistinct, PlanApart, Planned
  <2>7. Reach' = Reach
    BY <2>1 DEF Reach
  <2> QED BY <1>0, <1>a, <2>1, <2>2, <2>5, <2>6, <2>7, WriteKeeps
<1>11. ASSUME NEW q \in Requests, NEW u \in GuildUsers, NEW r \in RoleIds,
              AssignRole(q, u, r) \/ UnassignRole(q, u, r)
       PROVE  AuthorityInv'
  <2>1. PICK held \in SUBSET RoleIds : ChangeMemberRole(q, u, held) /\ u \in members
    BY <1>11, <1>a DEF AssignRole, UnassignRole, MayChangeMemberRole, Assigned, Unassigned
  <2>2. /\ holds' = [holds EXCEPT ![u] = held] /\ Done(q)
        /\ UNCHANGED <<owner, members, lastRole, roles, position, permissions, overwrite, begun, conferred>>
    BY <2>1 DEF ChangeMemberRole
  <2>3. holds' \in [GuildUsers -> SUBSET RoleIds] /\ \A v \in GuildUsers \ members' : holds'[v] = {}
    BY <1>a, <2>1, <2>2
  <2>4. Reach' = Reach
    BY <2>2 DEF Reach
  <2> QED BY <1>0, <1>a, <2>2, <2>3, <2>4, WriteKeeps
<1>12. ASSUME NEW q \in Requests, SetOverwrite(q) PROVE AuthorityInv'
  <2> DEFINE d == request[q].d
             t == request[q].target
             row == request[q].want
  <2>1. /\ overwrite' = [overwrite EXCEPT ![t] = row] /\ conferred' = Confers(d, row.allow) /\ Done(q)
        /\ UNCHANGED <<owner, members, lastRole, roles, position, permissions, holds, begun>>
    BY <1>12 DEF SetOverwrite
  <2>2. t \in Targets /\ row \in OverwriteRows /\ MayDo(d, row.allow) /\ row.allow \subseteq Perms
    BY <1>0, <1>12 DEF SetOverwrite, RequestSound, OverwriteRows
  <2> HIDE DEF d, t, row
  <2>3. row.allow \subseteq Reach' /\ Reach \subseteq Reach' /\ conferred \subseteq conferred' /\ conferred' \subseteq Perms
    BY <2>1, <2>2, WrittenInReach
  <2>4. overwrite' \in [Targets -> OverwriteRows] /\ \A x \in Targets : overwrite'[x].allow \subseteq Reach'
    <3> HIDE DEF OverwriteRows
    <3> QED BY <1>0, <1>a, <2>1, <2>2, <2>3
  <2>5. \A x \in RoleIds \cup {Everyone} : permissions'[x] \subseteq Reach'
    BY <1>0, <2>1, <2>3
  <2> QED BY <1>a, <2>1, <2>3, <2>4, <2>5, WriteKeeps
<1>13. ASSUME NEW q \in Requests, NEW t \in Targets, DeleteOverwrite(q, t) PROVE AuthorityInv'
  <2>1. /\ overwrite' = [overwrite EXCEPT ![t] = NoRow] /\ Done(q)
        /\ UNCHANGED <<owner, members, lastRole, roles, position, permissions, holds, begun, conferred>>
    BY <1>13 DEF DeleteOverwrite
  <2>2. Reach' = Reach
    BY <2>1 DEF Reach
  <2>3. overwrite' \in [Targets -> OverwriteRows] /\ \A x \in Targets : overwrite'[x].allow \subseteq Reach'
    <3> HIDE DEF NoRow, OverwriteRows
    <3> QED BY <1>0, <1>a, <1>c, <2>1, <2>2
  <2> QED BY <1>0, <1>a, <2>1, <2>2, <2>3, WriteKeeps
<1>14. ASSUME NEW q \in Requests, RemoveMember(q) \/ Leave(q) PROVE AuthorityInv'
  <2>1. PICK u \in members : Remove(q, u)
    BY <1>14 DEF RemoveMember, Leave, Remove
  <2>2. /\ u # owner /\ members' = members \ {u} /\ holds' = [holds EXCEPT ![u] = {}]
        /\ overwrite' = [overwrite EXCEPT ![u] = NoRow] /\ Done(q)
        /\ UNCHANGED <<owner, lastRole, roles, position, permissions, begun, conferred>>
    BY <2>1 DEF Remove
  <2>3. Reach' = Reach
    BY <2>2 DEF Reach
  <2>4. overwrite' \in [Targets -> OverwriteRows] /\ \A x \in Targets : overwrite'[x].allow \subseteq Reach'
    <3> HIDE DEF NoRow, OverwriteRows
    <3> QED BY <1>0, <1>a, <1>b, <1>c, <2>1, <2>2, <2>3
  <2>5. holds' \in [GuildUsers -> SUBSET RoleIds] /\ \A v \in GuildUsers \ members' : holds'[v] = {}
    BY <1>a, <2>2
  <2>6. owner' \in members' /\ members' \subseteq GuildUsers
    BY <1>a, <2>2
  <2> QED BY <1>0, <1>a, <2>2, <2>3, <2>4, <2>5, <2>6, WriteKeeps
<1>15. ASSUME NEW q \in Requests, NEW to \in GuildUsers, TransferOwnership(q, to) PROVE AuthorityInv'
  <2>1. /\ owner' = to /\ to \in members /\ Done(q)
        /\ UNCHANGED <<members, lastRole, roles, position, permissions, holds, overwrite, begun, conferred>>
    BY <1>15 DEF TransferOwnership
  <2>2. Reach' = Reach
    BY <2>1 DEF Reach
  <2> QED BY <1>0, <1>a, <2>1, <2>2, WriteKeeps
<1>16. ASSUME NEW u \in GuildUsers, Join(u) PROVE AuthorityInv'
  BY <1>16, <1>a DEF Join, AuthorityInv, AuthorityTypes, RequestsSound, Formed, RequestSound, MayDo, Reach,
                     PlansApart, PlanApart, Planned, NothingUnconferred, RolePositionsDistinct, OwnerIsMember
<1>17. ASSUME NEW q \in Requests, NEW t \in Targets, NEW ps \in Masks,
              CheckOverwrite(q, t, Row(ps, {})) \/ CheckOverwrite(q, t, Row({}, ps))
       PROVE  AuthorityInv'
  <2>1. Row(ps, {}) \in OverwriteRows /\ Row({}, ps) \in OverwriteRows
    BY <1>b DEF Row, OverwriteRows
  <2> QED BY <1>6, <1>17, <2>1
<1>18. ASSUME NEW q \in Requests, NEW S \in SUBSET roles \ {{}}, NEW plan \in [S -> 1..maxRolesPerGuild],
              PlanReorder(q, S, plan)
       PROVE  AuthorityInv'
  BY <1>5, <1>18
<1> QED BY <1>1, <1>2, <1>3, <1>4, <1>7, <1>8, <1>9, <1>10, <1>11, <1>12, <1>13, <1>14, <1>15, <1>16,
           <1>17, <1>18 DEF GuildNext

--------------------------------------------------------------------------------
(* Settings and their audit log.                                           *)

\* A set of naturals that is not empty has a least member.
LEMMA LeastNat ==
  ASSUME NEW T, T \subseteq Nat, T # {} PROVE \E n \in T : \A m \in T : n <= m
<1> DEFINE R == {p \in Nat \X Nat : p[1] < p[2]}
<1>1. IsWellFoundedOn(R, Nat)
  BY NatLessThanWellFounded, Zenon DEF OpToRel
<1>2. PICK n \in T : \A m \in T : ~(<<m, n>> \in R)
  <2> HIDE DEF R
  <2> QED BY <1>1, WFMin
<1>3. ASSUME NEW m \in T PROVE n <= m
  <2>1. m \in Nat /\ n \in Nat /\ <<m, n>> \notin R
    BY <1>2
  <2>2. ~(m < n)
    BY <2>1
  <2> HIDE DEF R
  <2> QED BY <2>1, <2>2
<1> QED BY <1>3

\* One that is bounded has a greatest.
LEMMA GreatestNat ==
  ASSUME NEW n \in Nat, NEW T, T \subseteq 0..n, T # {} PROVE \E j \in T : \A k \in T : k <= j
<1> DEFINE S == {n - j : j \in T}
<1>1. S \subseteq Nat /\ S # {}
  <2>1. \A j \in T : n - j \in Nat
    OBVIOUS
  <2>2. PICK j \in T : TRUE
    OBVIOUS
  <2>3. n - j \in S
    BY <2>2
  <2> QED BY <2>1, <2>3
<1>2. PICK s \in S : \A m \in S : s <= m
  BY <1>1, LeastNat
<1>3. PICK j \in T : s = n - j
  BY <1>2
<1>4. ASSUME NEW k \in T PROVE k <= j
  <2>1. n - k \in S
    OBVIOUS
  <2>2. n - j <= n - k
    BY <1>2, <1>3, <2>1
  <2> QED BY <2>2
<1> QED BY <1>4

\* The entries of a log before the i-th that tell of a field, and what it was then.
Telling(log, i, f) == {j \in 1..(i - 1) : log[j].gone \/ log[j][f] # <<>>}
LastTelling(log, i, f) == CHOOSE j \in Telling(log, i, f) : \A k \in Telling(log, i, f) : k <= j
ToldBefore(log, i, f) ==
  IF Telling(log, i, f) = {} \/ log[LastTelling(log, i, f)].gone THEN Blank[f]
  ELSE log[LastTelling(log, i, f)][f][2]

\* A log that leads to these fields: what AuditIsAChain says of the log and the row.
Chain(log, row) ==
  \A f \in {"text", "flag"} :
    /\ \A i \in 1..Len(log) : log[i][f] # <<>> => log[i][f][1] = ToldBefore(log, i, f)
    /\ row[f] = ToldBefore(log, Len(log) + 1, f)

\* It is what AuditIsAChain says.
LEMMA ChainIsIt == AuditIsAChain <=> Chain(auditLog, setting)
BY DEF AuditIsAChain, Chain, Before, ToldBefore, Telling, LastTelling

\* The last that tells is one that tells.
LEMMA LastTells ==
  ASSUME NEW log, NEW i \in Nat, NEW f, Telling(log, i, f) # {}
  PROVE  LastTelling(log, i, f) \in Telling(log, i, f)
<1>1. Telling(log, i, f) \subseteq 0..i
  BY DEF Telling
<1>2. \E j \in Telling(log, i, f) : \A k \in Telling(log, i, f) : k <= j
  BY <1>1, GreatestNat
<1> QED BY <1>2 DEF LastTelling

\* An entry at the end changes nothing of what was told before it.
LEMMA ToldStays ==
  ASSUME NEW log \in Seq(AuditEntries), NEW x \in AuditEntries, NEW f, NEW i \in 1..(Len(log) + 1)
  PROVE  ToldBefore(Append(log, x), i, f) = ToldBefore(log, i, f)
<1> DEFINE new == Append(log, x)
<1>1. \A j \in 1..(i - 1) : new[j] = log[j]
  BY DEF AuditEntries
<1> HIDE DEF new
<1>2. Telling(new, i, f) = Telling(log, i, f)
  BY <1>1 DEF Telling
<1>3. LastTelling(new, i, f) = LastTelling(log, i, f)
  BY <1>2 DEF LastTelling
<1>4. CASE Telling(log, i, f) = {}
  BY <1>2, <1>4 DEF ToldBefore, new
<1>5. CASE Telling(log, i, f) # {}
  <2>1. LastTelling(log, i, f) \in 1..(i - 1)
    <3>1. i \in Nat
      OBVIOUS
    <3>2. LastTelling(log, i, f) \in Telling(log, i, f)
      BY <1>5, <3>1, LastTells
    <3> QED BY <3>2 DEF Telling
  <2>2. new[LastTelling(log, i, f)] = log[LastTelling(log, i, f)]
    BY <1>1, <2>1
  <2> QED BY <1>2, <1>3, <2>2 DEF ToldBefore, new
<1> QED BY <1>4, <1>5

\* After it, what it tells, or what was told before.
LEMMA ToldByLast ==
  ASSUME NEW log \in Seq(AuditEntries), NEW x \in AuditEntries, NEW f
  PROVE  ToldBefore(Append(log, x), Len(log) + 2, f) =
           IF x.gone THEN Blank[f] ELSE IF x[f] # <<>> THEN x[f][2] ELSE ToldBefore(log, Len(log) + 1, f)
<1> DEFINE new == Append(log, x)
           n == Len(log) + 1
           old == Telling(log, n, f)
           now == Telling(new, n + 1, f)
<1>1. n \in Nat /\ new[n] = x /\ \A j \in 1..(n - 1) : new[j] = log[j]
  BY DEF AuditEntries
<1>2. 1..((n + 1) - 1) = (1..(n - 1)) \cup {n} /\ n + 1 = Len(log) + 2
  BY <1>1
<1> HIDE DEF new, n
<1>3. now = old \cup (IF x.gone \/ x[f] # <<>> THEN {n} ELSE {})
  BY <1>1, <1>2 DEF Telling
<1>4. CASE x.gone \/ x[f] # <<>>
  <2>1. n \in now /\ \A k \in now : k <= n
    BY <1>1, <1>3, <1>4 DEF Telling
  <2>2. now \subseteq Nat
    BY <1>1 DEF Telling
  <2>3. LastTelling(new, n + 1, f) = n
    BY <1>1, <2>1, <2>2 DEF LastTelling
  <2> QED BY <1>1, <1>2, <1>4, <2>1, <2>3 DEF ToldBefore, new
<1>5. CASE ~(x.gone \/ x[f] # <<>>)
  <2>1. now = old
    BY <1>3, <1>5
  <2>2. LastTelling(new, n + 1, f) = LastTelling(log, n, f)
    BY <2>1 DEF LastTelling
  <2>3. CASE old = {}
    BY <1>2, <1>5, <2>1, <2>3 DEF ToldBefore, new, n
  <2>4. CASE old # {}
    <3>1. LastTelling(log, n, f) \in 1..(n - 1)
      <4>1. LastTelling(log, n, f) \in Telling(log, n, f)
        BY <1>1, <2>4, LastTells
      <4> QED BY <4>1 DEF Telling
    <3>2. new[LastTelling(log, n, f)] = log[LastTelling(log, n, f)]
      BY <1>1, <3>1
    <3> QED BY <1>2, <1>5, <2>1, <2>2, <3>2 DEF ToldBefore, new, n
  <2> QED BY <2>3, <2>4
<1> QED BY <1>4, <1>5

\* An entry whose from is the row's value, and whose to is the row's next, goes on with the chain.
LEMMA ChainGrows ==
  ASSUME NEW log \in Seq(AuditEntries), NEW x \in AuditEntries, NEW row, NEW next, Chain(log, row),
         \A f \in {"text", "flag"} :
           /\ x[f] # <<>> => x[f][1] = row[f]
           /\ next[f] = IF x.gone THEN Blank[f] ELSE IF x[f] # <<>> THEN x[f][2] ELSE row[f]
  PROVE  Chain(Append(log, x), next)
<1> DEFINE new == Append(log, x)
<1>1. Len(new) = Len(log) + 1 /\ new[Len(log) + 1] = x /\ \A i \in 1..Len(log) : new[i] = log[i]
  BY DEF AuditEntries
<1>2. Len(log) \in Nat
  OBVIOUS
<1> SUFFICES ASSUME NEW f \in {"text", "flag"}
             PROVE  /\ \A i \in 1..Len(new) : new[i][f] # <<>> => new[i][f][1] = ToldBefore(new, i, f)
                    /\ next[f] = ToldBefore(new, Len(new) + 1, f)
  BY DEF Chain
<1>3. row[f] = ToldBefore(log, Len(log) + 1, f)
      /\ \A i \in 1..Len(log) : log[i][f] # <<>> => log[i][f][1] = ToldBefore(log, i, f)
  BY DEF Chain
<1>4. \A i \in 1..(Len(log) + 1) : ToldBefore(new, i, f) = ToldBefore(log, i, f)
  BY ToldStays
<1>5. ToldBefore(new, Len(log) + 2, f) =
        IF x.gone THEN Blank[f] ELSE IF x[f] # <<>> THEN x[f][2] ELSE ToldBefore(log, Len(log) + 1, f)
  BY ToldByLast
<1>6. Len(new) + 1 = Len(log) + 2
  BY <1>1, <1>2
<1> HIDE DEF new
<1>7. ASSUME NEW i \in 1..Len(new), new[i][f] # <<>> PROVE new[i][f][1] = ToldBefore(new, i, f)
  <2>1. CASE i = Len(log) + 1
    BY <1>1, <1>2, <1>3, <1>4, <1>7, <2>1
  <2>2. CASE i # Len(log) + 1
    <3>1. i \in 1..Len(log)
      BY <1>1, <1>2, <2>2
    <3> QED BY <1>1, <1>2, <1>3, <1>4, <1>7, <3>1
  <2> QED BY <2>1, <2>2
<1> QED BY <1>3, <1>5, <1>6, <1>7

EditRows == [at: {"idle", "authorized", "locked"}, by: Users \cup {NoOne}, in: Inputs,
             existing: Fields, owner: Users \cup {NoOne}]

Texts == SettingTexts \cup {NullText}
Diffs == [text: Seq(Texts), flag: Seq(BOOLEAN)]

SettingsTypes ==
  /\ subject \in SettingRows /\ setting \in Fields /\ settingsOwner \in Users /\ mayEdit \subseteq Users
  /\ auditLog \in Seq(AuditEntries) /\ editing \in [SettingsTxs -> EditRows]
  /\ \A e \in SettingsTxs : editing[e].at # "idle" => editing[e].by \in Users

Busy == {e \in SettingsTxs : editing[e].at # "idle"}

\* There is room for the two entries each request under way may write.
RoomLeft == Len(auditLog) + 2 * Cardinality(Busy) <= MaxEntries

\* One request holds the row, and what it has read of the row, and of the guild's owner, is still so.
LockedRowStands ==
  \A e \in SettingsTxs : editing[e].at = "locked" =>
    /\ editing[e].existing = setting
    /\ subject = "guild" => editing[e].owner = settingsOwner
    /\ \A f \in SettingsTxs : editing[f].at = "locked" => f = e

SettingsInv == SettingsTypes /\ RoomLeft /\ LockedRowStands /\ AuditIsAChain /\ RecordingFlippedByOwner

\* A request not under way has its fields.
LEMMA NoEditingTyped == NoEditing \in EditRows /\ NoEditing.at = "idle"
BY DEF NoEditing, EditRows, Inputs, Fields, Blank, Keep

\* The row is blank and the log empty at first.
LEMMA SettingsInitInv == SettingsInit => SettingsInv
<1> SUFFICES ASSUME SettingsInit PROVE SettingsInv
  OBVIOUS
<1>1. SettingsTypes
  <2>1. editing \in [SettingsTxs -> EditRows] /\ \A e \in SettingsTxs : editing[e].at = "idle"
    <3> HIDE DEF EditRows, NoEditing
    <3> QED BY NoEditingTyped DEF SettingsInit
  <2>2. Blank \in Fields
    BY DEF Blank, Fields
  <2> QED BY <2>1, <2>2 DEF SettingsInit, SettingsTypes
<1>2. \A e \in SettingsTxs : editing[e].at = "idle"
  BY NoEditingTyped DEF SettingsInit
<1>3. RoomLeft
  <2>1. Busy = {}
    BY <1>2 DEF Busy
  <2>2. Cardinality(Busy) = 0
    BY <2>1, FS_EmptySet
  <2> QED BY <2>2, SettingsAssumption DEF SettingsInit, RoomLeft
<1>4. AuditIsAChain
  BY DEF SettingsInit, AuditIsAChain, Before
<1> QED BY <1>1, <1>2, <1>3, <1>4 DEF SettingsInit, SettingsInv, LockedRowStands, RecordingFlippedByOwner

\* What a diff says is what the update does to the row it was read from.
LEMMA DiffTells ==
  ASSUME NEW row \in Fields, NEW in \in Inputs
  PROVE  /\ DiffOf(row, in) \in Diffs /\ Coalesced(row, in) \in Fields
         /\ \A f \in {"text", "flag"} :
              /\ DiffOf(row, in)[f] # <<>> => /\ DiffOf(row, in)[f][1] = row[f]
                                              /\ DiffOf(row, in)[f][2] = Coalesced(row, in)[f]
              /\ DiffOf(row, in)[f] = <<>> => Coalesced(row, in)[f] = row[f]
<1>1. /\ in.text # Keep => in.text[1] \in Texts
      /\ in.flag # Keep => in.flag[1] \in BOOLEAN
  BY DEF Inputs, Keep, Texts
<1>2. row.text \in Texts /\ row.flag \in BOOLEAN
  BY DEF Fields, Texts
<1>3. \A S : \A a, b \in S : ChangedFrom(a, b) \in Seq(S)
  BY DEF ChangedFrom
<1>4. \A a, b : /\ ChangedFrom(a, b) # <<>> => ChangedFrom(a, b)[1] = a /\ ChangedFrom(a, b)[2] = b
                /\ ChangedFrom(a, b) = <<>> => a = b
  BY DEF ChangedFrom
<1>5. DiffOf(row, in) \in Diffs
  <2>1. DiffOf(row, in).text \in Seq(Texts)
    BY <1>1, <1>2, <1>3 DEF DiffOf
  <2>2. DiffOf(row, in).flag \in Seq(BOOLEAN)
    <3>1. \A a, b \in BOOLEAN : ChangedFrom(a, b) \in Seq(BOOLEAN)
      BY <1>3
    <3>2. <<>> \in Seq(BOOLEAN)
      OBVIOUS
    <3>3. DiffOf(row, in).flag = IF in.flag = Keep THEN <<>> ELSE ChangedFrom(row.flag, in.flag[1])
      BY DEF DiffOf
    <3>4. CASE in.flag = Keep
      BY <3>2, <3>3, <3>4
    <3>5. CASE in.flag # Keep
      <4>1. ChangedFrom(row.flag, in.flag[1]) \in Seq(BOOLEAN)
        BY <1>1, <1>2, <3>1, <3>5, Zenon
      <4> QED BY <3>3, <3>5, <4>1
    <3> QED BY <3>4, <3>5
  <2>3. DiffOf(row, in) = [text |-> DiffOf(row, in).text, flag |-> DiffOf(row, in).flag]
    BY DEF DiffOf
  <2> QED BY <2>1, <2>2, <2>3 DEF Diffs
<1>6. Coalesced(row, in) \in Fields
  BY <1>1, <1>2 DEF Coalesced, Fields, Texts
<1>7. DiffOf(row, in).text = (IF in.text = Keep THEN <<>> ELSE ChangedFrom(row.text, in.text[1]))
      /\ DiffOf(row, in).flag = (IF in.flag = Keep THEN <<>> ELSE ChangedFrom(row.flag, in.flag[1]))
      /\ Coalesced(row, in).text = (IF in.text = Keep THEN row.text ELSE in.text[1])
      /\ Coalesced(row, in).flag = (IF in.flag = Keep THEN row.flag ELSE in.flag[1])
  BY DEF DiffOf, Coalesced
<1>8. /\ DiffOf(row, in).text # <<>> => /\ DiffOf(row, in).text[1] = row.text
                                        /\ DiffOf(row, in).text[2] = Coalesced(row, in).text
      /\ DiffOf(row, in).text = <<>> => Coalesced(row, in).text = row.text
  BY <1>4, <1>7
<1>9. /\ DiffOf(row, in).flag # <<>> => /\ DiffOf(row, in).flag[1] = row.flag
                                        /\ DiffOf(row, in).flag[2] = Coalesced(row, in).flag
      /\ DiffOf(row, in).flag = <<>> => Coalesced(row, in).flag = row.flag
  BY <1>4, <1>7
<1> QED BY <1>5, <1>6, <1>8, <1>9

\* An entry is typed, and says what it was made of.
LEMMA EntryTyped ==
  ASSUME SettingsTypes, NEW e \in SettingsTxs, editing[e].at # "idle", NEW diff \in Diffs, NEW gone \in BOOLEAN
  PROVE  /\ AuditEntry(e, diff, gone) \in AuditEntries
         /\ AuditEntry(e, diff, gone).gone = gone
         /\ AuditEntry(e, diff, gone).text = diff.text /\ AuditEntry(e, diff, gone).flag = diff.flag
         /\ AuditEntry(e, diff, gone).owned = (editing[e].by = settingsOwner)
<1>1. editing[e].by \in Users
  BY DEF SettingsTypes
<1>2. diff.text \in Seq(SettingTexts \cup {NullText}) /\ diff.flag \in Seq(BOOLEAN)
  BY DEF Diffs, Texts
<1> QED BY <1>1, <1>2 DEF AuditEntry, AuditEntries

\* A request that is over leaves room for what it did not write, and the row to others.
LEMMA EditEnds ==
  ASSUME SettingsInv, NEW e \in SettingsTxs, editing[e].at # "idle", editing' = [editing EXCEPT ![e] = NoEditing],
         auditLog' \in Seq(AuditEntries), Len(auditLog') <= Len(auditLog) + 2,
         setting' = setting \/ editing[e].at = "locked", UNCHANGED <<subject, settingsOwner>>
  PROVE  /\ editing' \in [SettingsTxs -> EditRows] /\ RoomLeft' /\ LockedRowStands'
         /\ \A f \in SettingsTxs : editing'[f].at # "idle" => editing'[f].by \in Users
<1>1. /\ editing' \in [SettingsTxs -> EditRows] /\ editing'[e].at = "idle"
      /\ \A f \in SettingsTxs \ {e} : editing'[f] = editing[f]
  <2>1. editing \in [SettingsTxs -> EditRows]
    BY DEF SettingsInv, SettingsTypes
  <2> HIDE DEF EditRows, NoEditing
  <2> QED BY <2>1, NoEditingTyped
<1>2. RoomLeft'
  <2>1. Busy' = Busy \ {e} /\ e \in Busy /\ Busy \subseteq SettingsTxs
    BY <1>1 DEF Busy
  <2>2. IsFiniteSet(Busy) /\ Cardinality(Busy) \in Nat
    BY <2>1, SettingsAssumption, FS_Subset, FS_CardinalityType
  <2>3. Cardinality(Busy') = Cardinality(Busy) - 1
    BY <2>1, <2>2, FS_RemoveElement
  <2>4. Len(auditLog) \in Nat /\ Len(auditLog') \in Nat
    BY DEF SettingsInv, SettingsTypes
  <2> QED BY <2>2, <2>3, <2>4, SettingsAssumption DEF SettingsInv, RoomLeft
<1>3. LockedRowStands'
  BY <1>1 DEF SettingsInv, LockedRowStands
<1>4. \A f \in SettingsTxs : editing'[f].at # "idle" => editing'[f].by \in Users
  BY <1>1 DEF SettingsInv, SettingsTypes
<1> QED BY <1>1, <1>2, <1>3, <1>4

\* An entry of a guild that tells of the flag is by its owner; then the log stays so with it.
LEMMA OwnerFlipped ==
  ASSUME NEW log \in Seq(AuditEntries), NEW x \in AuditEntries, NEW told,
         \A i \in 1..Len(log) : told /\ log[i].flag # <<>> => log[i].owned,
         told /\ x.flag # <<>> => x.owned
  PROVE  \A i \in 1..Len(Append(log, x)) :
           told /\ Append(log, x)[i].flag # <<>> => Append(log, x)[i].owned
<1> DEFINE new == Append(log, x)
<1>1. Len(new) = Len(log) + 1 /\ new[Len(log) + 1] = x /\ (\A i \in 1..Len(log) : new[i] = log[i])
      /\ Len(log) \in Nat
  BY DEF AuditEntries
<1>2. \A i \in 1..Len(new) : i = Len(log) + 1 \/ i \in 1..Len(log)
  BY <1>1
<1> HIDE DEF new
<1>3. \A i \in 1..Len(new) : told /\ new[i].flag # <<>> => new[i].owned
  BY <1>1, <1>2
<1> QED BY <1>3 DEF new

\* A request that ends behind its lock, with a log that leads to the row it leaves.
LEMMA CommitKeeps ==
  ASSUME SettingsInv, NEW e \in SettingsTxs, editing[e].at = "locked",
         editing' = [editing EXCEPT ![e] = NoEditing], UNCHANGED <<subject, settingsOwner, mayEdit>>,
         setting' \in Fields, auditLog' \in Seq(AuditEntries), Len(auditLog') <= Len(auditLog) + 2,
         Chain(auditLog', setting'),
         \A i \in 1..Len(auditLog') : subject = "guild" /\ auditLog'[i].flag # <<>> => auditLog'[i].owned
  PROVE  SettingsInv'
<1>1. /\ editing' \in [SettingsTxs -> EditRows] /\ RoomLeft' /\ LockedRowStands'
      /\ \A f \in SettingsTxs : editing'[f].at # "idle" => editing'[f].by \in Users
  BY EditEnds
<1>2. SettingsTypes'
  BY <1>1 DEF SettingsInv, SettingsTypes
<1>3. AuditIsAChain'
  BY DEF AuditIsAChain, Chain, Before, ToldBefore, Telling, LastTelling
<1>4. RecordingFlippedByOwner'
  BY DEF RecordingFlippedByOwner
<1> QED BY <1>1, <1>2, <1>3, <1>4 DEF SettingsInv

\* One entry, that tells what became of the row.
LEMMA OneEntryKeeps ==
  ASSUME SettingsInv, NEW e \in SettingsTxs, editing[e].at = "locked",
         editing' = [editing EXCEPT ![e] = NoEditing], UNCHANGED <<subject, settingsOwner, mayEdit>>,
         setting' \in Fields, NEW x \in AuditEntries, auditLog' = Append(auditLog, x),
         \A f \in {"text", "flag"} :
           /\ x[f] # <<>> => x[f][1] = setting[f]
           /\ setting'[f] = IF x.gone THEN Blank[f] ELSE IF x[f] # <<>> THEN x[f][2] ELSE setting[f],
         subject = "guild" /\ x.flag # <<>> => x.owned
  PROVE  SettingsInv'
<1>1. auditLog \in Seq(AuditEntries) /\ Chain(auditLog, setting)
  BY ChainIsIt DEF SettingsInv, SettingsTypes
<1>2. Chain(auditLog', setting')
  BY <1>1, ChainGrows
<1>3. auditLog' \in Seq(AuditEntries) /\ Len(auditLog') <= Len(auditLog) + 2
  BY <1>1
<1>4. \A i \in 1..Len(auditLog') : subject = "guild" /\ auditLog'[i].flag # <<>> => auditLog'[i].owned
  <2>1. \A i \in 1..Len(auditLog) : subject = "guild" /\ auditLog[i].flag # <<>> => auditLog[i].owned
    BY DEF SettingsInv, RecordingFlippedByOwner
  <2> QED BY <1>1, <2>1, OwnerFlipped
<1> QED BY <1>2, <1>3, <1>4, CommitKeeps

\* An update of one row that is not the guild's.
LEMMA UpdateRowKeeps ==
  ASSUME SettingsInv, NEW e \in SettingsTxs, NEW r, r # "guild", UpdateRow(e, r)
  PROVE  SettingsInv'
<1> DEFINE d == DiffOf(setting, editing[e].in)
           x == AuditEntry(e, d, FALSE)
<1>1. /\ editing[e].at = "locked" /\ editing[e].existing = setting /\ editing[e].in \in Inputs
      /\ setting \in Fields /\ subject # "guild"
  BY DEF UpdateRow, SettingsInv, LockedRowStands, SettingsTypes, EditRows
<1>2. /\ auditLog' = Append(auditLog, x) /\ setting' = Coalesced(setting, editing[e].in)
      /\ editing' = [editing EXCEPT ![e] = NoEditing] /\ UNCHANGED <<subject, settingsOwner, mayEdit>>
  BY <1>1 DEF UpdateRow, WriteAudit, CommitSetting
<1>3. /\ d \in Diffs /\ setting' \in Fields
      /\ \A f \in {"text", "flag"} :
           /\ d[f] # <<>> => d[f][1] = setting[f] /\ d[f][2] = setting'[f]
           /\ d[f] = <<>> => setting'[f] = setting[f]
  BY <1>1, <1>2, DiffTells
<1> HIDE DEF d
<1>4. x \in AuditEntries /\ x.gone = FALSE /\ x.text = d.text /\ x.flag = d.flag
  BY <1>1, <1>3, EntryTyped DEF SettingsInv
<1> HIDE DEF x
<1>5. \A f \in {"text", "flag"} :
        /\ x[f] # <<>> => x[f][1] = setting[f]
        /\ setting'[f] = IF x.gone THEN Blank[f] ELSE IF x[f] # <<>> THEN x[f][2] ELSE setting[f]
  BY <1>3, <1>4
<1> QED BY <1>1, <1>2, <1>3, <1>4, <1>5, OneEntryKeeps

\* A member's removal leaves a blank row, and says so.
LEMMA RemoveMemberRowKeeps ==
  ASSUME SettingsInv, NEW e \in SettingsTxs, RemoveMemberRow(e)
  PROVE  SettingsInv'
<1> DEFINE d == RemovedFields(setting)
           x == AuditEntry(e, d, TRUE)
<1>1. /\ editing[e].at = "locked" /\ editing[e].existing = setting
      /\ setting \in Fields /\ subject # "guild"
  BY DEF RemoveMemberRow, SettingsInv, LockedRowStands, SettingsTypes, EditRows
<1>2. /\ auditLog' = Append(auditLog, x) /\ setting' = Blank
      /\ editing' = [editing EXCEPT ![e] = NoEditing] /\ UNCHANGED <<subject, settingsOwner, mayEdit>>
  BY <1>1 DEF RemoveMemberRow
<1>3. setting' \in Fields
  BY <1>2 DEF Blank, Fields
<1>4. d \in Diffs /\ (d.text # <<>> => d.text[1] = setting.text) /\ d.flag = <<>>
  <2>1. setting.text \in Texts /\ NullText \in Texts
    BY <1>1 DEF Fields, Texts
  <2>2. ChangedFrom(setting.text, NullText) \in Seq(Texts)
    BY <2>1 DEF ChangedFrom
  <2>3. <<>> \in Seq(BOOLEAN)
    OBVIOUS
  <2>4. d = [text |-> ChangedFrom(setting.text, NullText), flag |-> <<>>]
    BY DEF RemovedFields
  <2>5. d \in Diffs
    BY <2>2, <2>3, <2>4 DEF Diffs
  <2>6. ChangedFrom(setting.text, NullText) # <<>> => ChangedFrom(setting.text, NullText)[1] = setting.text
    BY DEF ChangedFrom
  <2> QED BY <2>4, <2>5, <2>6
<1> HIDE DEF d
<1>5. x \in AuditEntries /\ x.gone = TRUE /\ x.text = d.text /\ x.flag = d.flag
  BY <1>1, <1>4, EntryTyped DEF SettingsInv
<1> HIDE DEF x
<1>6. \A f \in {"text", "flag"} :
        /\ x[f] # <<>> => x[f][1] = setting[f]
        /\ setting'[f] = IF x.gone THEN Blank[f] ELSE IF x[f] # <<>> THEN x[f][2] ELSE setting[f]
  BY <1>2, <1>4, <1>5
<1> QED BY <1>1, <1>2, <1>3, <1>5, <1>6, OneEntryKeeps

\* The guild's own row: an entry for the text, one for the flag, or both, and the flag is the owner's.
LEMMA UpdateGuildRowKeeps ==
  ASSUME SettingsInv, NEW e \in SettingsTxs, UpdateGuildRow(e)
  PROVE  SettingsInv'
<1> DEFINE d == DiffOf(setting, editing[e].in)
           update == [d EXCEPT !.flag = <<>>]
           toggle == [d EXCEPT !.text = <<>>]
           x == AuditEntry(e, update, FALSE)
           y == AuditEntry(e, toggle, FALSE)
           mid == [setting EXCEPT !.text = setting'.text]
<1>1. /\ editing[e].at = "locked" /\ editing[e].existing = setting /\ editing[e].in \in Inputs
      /\ setting \in Fields /\ subject = "guild" /\ editing[e].owner = settingsOwner
      /\ editing[e].in.flag # Keep => editing[e].by = settingsOwner
  BY DEF UpdateGuildRow, MayFlipMessageAudit, SettingsInv, LockedRowStands, SettingsTypes, EditRows
<1>2. /\ auditLog' = auditLog \o (IF d.text # <<>> \/ d.flag = <<>> THEN <<x>> ELSE <<>>)
                              \o (IF d.flag # <<>> THEN <<y>> ELSE <<>>)
      /\ setting' = Coalesced(setting, editing[e].in)
      /\ editing' = [editing EXCEPT ![e] = NoEditing] /\ UNCHANGED <<subject, settingsOwner, mayEdit>>
  BY <1>1 DEF UpdateGuildRow, CommitSetting
<1>3. /\ d \in Diffs /\ setting' \in Fields
      /\ \A f \in {"text", "flag"} :
           /\ d[f] # <<>> => d[f][1] = setting[f] /\ d[f][2] = setting'[f]
           /\ d[f] = <<>> => setting'[f] = setting[f]
  BY <1>1, <1>2, DiffTells
<1>4. d.flag # <<>> => editing[e].by = settingsOwner
  BY <1>1 DEF DiffOf
<1> HIDE DEF d
<1>5. /\ update \in Diffs /\ update.text = d.text /\ update.flag = <<>>
      /\ toggle \in Diffs /\ toggle.text = <<>> /\ toggle.flag = d.flag
  <2>1. /\ d = [text |-> d.text, flag |-> d.flag]
        /\ d.text \in Seq(Texts) /\ d.flag \in Seq(BOOLEAN)
    BY <1>3 DEF Diffs
  <2>2. <<>> \in Seq(Texts) /\ <<>> \in Seq(BOOLEAN)
    OBVIOUS
  <2>3. update = [text |-> d.text, flag |-> <<>>] /\ toggle = [text |-> <<>>, flag |-> d.flag]
    BY <2>1
  <2> QED BY <2>1, <2>2, <2>3 DEF Diffs
<1> HIDE DEF update, toggle
<1>6. /\ x \in AuditEntries /\ x.gone = FALSE /\ x.text = d.text /\ x.flag = <<>>
      /\ y \in AuditEntries /\ y.gone = FALSE /\ y.text = <<>> /\ y.flag = d.flag
      /\ y.owned = (editing[e].by = settingsOwner)
  BY <1>1, <1>5, EntryTyped DEF SettingsInv
<1> HIDE DEF x, y
<1>7. auditLog \in Seq(AuditEntries) /\ Chain(auditLog, setting)
      /\ (\A i \in 1..Len(auditLog) : subject = "guild" /\ auditLog[i].flag # <<>> => auditLog[i].owned)
  BY ChainIsIt DEF SettingsInv, SettingsTypes, RecordingFlippedByOwner
<1>8. CASE d.flag = <<>>
  <2>1. auditLog' = Append(auditLog, x)
    BY <1>2, <1>6, <1>7, <1>8
  <2>2. \A f \in {"text", "flag"} :
          /\ x[f] # <<>> => x[f][1] = setting[f]
          /\ setting'[f] = IF x.gone THEN Blank[f] ELSE IF x[f] # <<>> THEN x[f][2] ELSE setting[f]
    BY <1>3, <1>6, <1>8
  <2> QED BY <1>1, <1>2, <1>3, <1>6, <2>1, <2>2, OneEntryKeeps
<1>9. CASE d.flag # <<>> /\ d.text = <<>>
  <2>1. auditLog' = Append(auditLog, y)
    BY <1>2, <1>6, <1>7, <1>9
  <2>2. \A f \in {"text", "flag"} :
          /\ y[f] # <<>> => y[f][1] = setting[f]
          /\ setting'[f] = IF y.gone THEN Blank[f] ELSE IF y[f] # <<>> THEN y[f][2] ELSE setting[f]
    BY <1>3, <1>6, <1>9
  <2>3. y.flag # <<>> => y.owned
    BY <1>4, <1>6
  <2> QED BY <1>1, <1>2, <1>3, <1>6, <2>1, <2>2, <2>3, OneEntryKeeps
<1>10. CASE d.flag # <<>> /\ d.text # <<>>
  <2> DEFINE one == Append(auditLog, x)
  <2>2. /\ one \in Seq(AuditEntries) /\ Len(one) = Len(auditLog) + 1
        /\ one = auditLog \o <<x>>
    BY <1>6, <1>7
  <2>1. auditLog' = Append(one, y)
    <3>1. auditLog' = one \o <<y>>
      BY <1>2, <1>10, <2>2
    <3> HIDE DEF one
    <3> QED BY <1>6, <2>2, <3>1
  <2>3. mid.text = setting'.text /\ mid.flag = setting.flag
    BY <1>1 DEF Fields
  <2> HIDE DEF mid
  <2>4. Chain(one, mid)
    <3>1. \A f \in {"text", "flag"} :
            /\ x[f] # <<>> => x[f][1] = setting[f]
            /\ mid[f] = IF x.gone THEN Blank[f] ELSE IF x[f] # <<>> THEN x[f][2] ELSE setting[f]
      BY <1>3, <1>6, <1>10, <2>3
    <3> QED BY <1>6, <1>7, <3>1, ChainGrows
  <2>5. \A i \in 1..Len(one) : subject = "guild" /\ one[i].flag # <<>> => one[i].owned
    BY <1>6, <1>7, OwnerFlipped
  <2> HIDE DEF one
  <2>6. Chain(auditLog', setting')
    <3>1. \A f \in {"text", "flag"} :
            /\ y[f] # <<>> => y[f][1] = mid[f]
            /\ setting'[f] = IF y.gone THEN Blank[f] ELSE IF y[f] # <<>> THEN y[f][2] ELSE mid[f]
      BY <1>3, <1>6, <1>10, <2>3
    <3> QED BY <1>6, <2>1, <2>2, <2>4, <3>1, ChainGrows
  <2>7. \A i \in 1..Len(auditLog') : subject = "guild" /\ auditLog'[i].flag # <<>> => auditLog'[i].owned
    <3>1. subject = "guild" /\ y.flag # <<>> => y.owned
      BY <1>4, <1>6
    <3> QED BY <1>6, <2>1, <2>2, <2>5, <3>1, OwnerFlipped
  <2>8. auditLog' \in Seq(AuditEntries) /\ Len(auditLog') <= Len(auditLog) + 2
    BY <1>6, <1>7, <2>1, <2>2
  <2> QED BY <1>1, <1>2, <1>3, <2>6, <2>7, <2>8, CommitKeeps
<1> QED BY <1>8, <1>9, <1>10

\* A log and a row that stay, stay a chain.
LEMMA LogStays ==
  ASSUME SettingsInv, UNCHANGED <<subject, setting, auditLog>>
  PROVE  AuditIsAChain' /\ RecordingFlippedByOwner'
<1>1. Chain(auditLog', setting')
  BY ChainIsIt DEF SettingsInv
<1>2. AuditIsAChain'
  BY <1>1 DEF AuditIsAChain, Chain, Before, ToldBefore, Telling, LastTelling
<1>3. RecordingFlippedByOwner'
  BY DEF SettingsInv, RecordingFlippedByOwner
<1> QED BY <1>2, <1>3

\* A request begins only where there is room for what it may write.
LEMMA AuthorizeEditKeeps ==
  ASSUME SettingsInv, NEW e \in SettingsTxs, NEW u \in Users, NEW in \in Inputs, AuthorizeEdit(e, u, in)
  PROVE  SettingsInv'
<1> DEFINE new == [NoEditing EXCEPT !.at = "authorized", !.by = u, !.in = in]
<1>1. new \in EditRows /\ new.at = "authorized" /\ new.by = u
  BY DEF NoEditing, EditRows, Fields, Blank
<1>2. editing \in [SettingsTxs -> EditRows] /\ editing' = [editing EXCEPT ![e] = new]
  BY DEF AuthorizeEdit, SettingsInv, SettingsTypes
<1> HIDE DEF new
<1>3. /\ editing' \in [SettingsTxs -> EditRows] /\ editing'[e] = new
      /\ \A f \in SettingsTxs \ {e} : editing'[f] = editing[f]
  <2> HIDE DEF EditRows
  <2> QED BY <1>1, <1>2
<1>4. UNCHANGED <<subject, setting, settingsOwner, mayEdit, auditLog>> /\ editing[e].at = "idle" /\ Room
  BY DEF AuthorizeEdit
<1>5. SettingsTypes'
  BY <1>1, <1>3, <1>4 DEF SettingsInv, SettingsTypes
<1>6. RoomLeft'
  <2>1. Busy' = Busy \cup {e} /\ e \notin Busy /\ Busy \subseteq SettingsTxs
    BY <1>1, <1>3, <1>4 DEF Busy
  <2>2. IsFiniteSet(Busy) /\ Cardinality(Busy) \in Nat
    BY <2>1, SettingsAssumption, FS_Subset, FS_CardinalityType
  <2>3. Cardinality(Busy') = Cardinality(Busy) + 1
    BY <2>1, <2>2, FS_AddElement
  <2>4. Len(auditLog) \in Nat /\ Len(auditLog) + 2 * Cardinality(Busy) + 2 <= MaxEntries
    BY <1>4 DEF SettingsInv, SettingsTypes, Room, Busy
  <2> QED BY <1>4, <2>2, <2>3, <2>4, SettingsAssumption DEF RoomLeft
<1>7. LockedRowStands'
  BY <1>1, <1>3, <1>4 DEF SettingsInv, LockedRowStands
<1>8. AuditIsAChain' /\ RecordingFlippedByOwner'
  BY <1>4, LogStays
<1> QED BY <1>5, <1>6, <1>7, <1>8 DEF SettingsInv

\* The lock is had by one request, that reads the row as it is.
LEMMA LockRowKeeps ==
  ASSUME SettingsInv, NEW e \in SettingsTxs, LockRow(e)
  PROVE  SettingsInv'
<1>1. /\ UNCHANGED <<subject, setting, settingsOwner, mayEdit, auditLog>> /\ editing[e].at = "authorized"
      /\ RowLockFree(e)
      /\ editing' = [editing EXCEPT ![e].at = "locked", ![e].existing = setting, ![e].owner = settingsOwner]
  BY DEF LockRow
<1>2. /\ editing \in [SettingsTxs -> EditRows] /\ editing[e] \in EditRows
      /\ setting \in Fields /\ settingsOwner \in Users
  BY DEF SettingsInv, SettingsTypes
<1> DEFINE new == [editing[e] EXCEPT !.at = "locked", !.existing = setting, !.owner = settingsOwner]
<1>3. /\ new \in EditRows /\ new.at = "locked" /\ new.by = editing[e].by
      /\ new.existing = setting /\ new.owner = settingsOwner
  BY <1>2 DEF EditRows
<1>4. editing' = [editing EXCEPT ![e] = new]
  BY <1>1, <1>2
<1> HIDE DEF new
<1>5. /\ editing' \in [SettingsTxs -> EditRows] /\ editing'[e] = new
      /\ \A f \in SettingsTxs \ {e} : editing'[f] = editing[f]
  <2> HIDE DEF EditRows
  <2> QED BY <1>2, <1>3, <1>4
<1>6. SettingsTypes'
  BY <1>1, <1>3, <1>5 DEF SettingsInv, SettingsTypes
<1>7. RoomLeft'
  <2>1. Busy' = Busy
    BY <1>1, <1>3, <1>5 DEF Busy
  <2> QED BY <1>1, <2>1 DEF SettingsInv, RoomLeft
<1>8. LockedRowStands'
  <2>1. \A f \in SettingsTxs \ {e} : editing'[f].at # "locked"
    BY <1>1, <1>5 DEF RowLockFree
  <2> QED BY <1>1, <1>3, <1>5, <2>1 DEF LockedRowStands
<1>9. AuditIsAChain' /\ RecordingFlippedByOwner'
  BY <1>1, LogStays
<1> QED BY <1>6, <1>7, <1>8, <1>9 DEF SettingsInv

\* Every step of a request keeps them; so do a transfer, which waits for the guild's lock, and a change of
\* who may do what.
LEMMA SettingsStepInv == SettingsInv /\ SettingsNext => SettingsInv'
<1> SUFFICES ASSUME SettingsInv, SettingsNext PROVE SettingsInv'
  OBVIOUS
<1>1. ASSUME NEW u \in Users, TransferGuild(u) PROVE SettingsInv'
  <2>1. UNCHANGED <<subject, setting, editing, auditLog>> /\ GuildRowFree /\ settingsOwner' \in Users
        /\ mayEdit' = mayEdit \cup {u}
    BY <1>1 DEF TransferGuild
  <2>2. SettingsTypes' /\ RoomLeft'
    BY <2>1 DEF SettingsInv, SettingsTypes, RoomLeft, Busy
  <2>3. LockedRowStands'
    BY <2>1 DEF SettingsInv, LockedRowStands, GuildRowFree
  <2>4. AuditIsAChain' /\ RecordingFlippedByOwner'
    BY <2>1, LogStays
  <2> QED BY <2>2, <2>3, <2>4 DEF SettingsInv
<1>2. ASSUME NEW u \in Users, LoseStanding(u) PROVE SettingsInv'
  <2>1. UNCHANGED <<subject, setting, settingsOwner, editing, auditLog>> /\ mayEdit' \subseteq mayEdit
    BY <1>2 DEF LoseStanding
  <2>2. SettingsTypes' /\ RoomLeft'
    BY <2>1 DEF SettingsInv, SettingsTypes, RoomLeft, Busy
  <2>3. LockedRowStands'
    BY <2>1 DEF SettingsInv, LockedRowStands
  <2>4. AuditIsAChain' /\ RecordingFlippedByOwner'
    BY <2>1, LogStays
  <2> QED BY <2>2, <2>3, <2>4 DEF SettingsInv
<1>3. ASSUME NEW e \in SettingsTxs, SettingFails(e) PROVE SettingsInv'
  <2>1. UNCHANGED <<subject, setting, settingsOwner, mayEdit, auditLog>> /\ editing[e].at # "idle"
        /\ editing' = [editing EXCEPT ![e] = NoEditing]
    BY <1>3 DEF SettingFails
  <2>2. auditLog' \in Seq(AuditEntries) /\ Len(auditLog') <= Len(auditLog) + 2
    BY <2>1 DEF SettingsInv, SettingsTypes
  <2>3. /\ editing' \in [SettingsTxs -> EditRows] /\ RoomLeft' /\ LockedRowStands'
        /\ \A f \in SettingsTxs : editing'[f].at # "idle" => editing'[f].by \in Users
    BY <2>1, <2>2, EditEnds
  <2>4. SettingsTypes'
    BY <2>1, <2>3 DEF SettingsInv, SettingsTypes
  <2>5. AuditIsAChain' /\ RecordingFlippedByOwner'
    BY <2>1, LogStays
  <2> QED BY <2>3, <2>4, <2>5 DEF SettingsInv
<1>4. ASSUME NEW e \in SettingsTxs,
             UpdateChannelRow(e) \/ UpdateMemberRow(e) \/ UpdateRoleRow(e)
      PROVE  SettingsInv'
  BY <1>4, UpdateRowKeeps DEF UpdateChannelRow, UpdateMemberRow, UpdateRoleRow
<1> QED BY <1>1, <1>2, <1>3, <1>4, AuthorizeEditKeeps, LockRowKeeps, UpdateGuildRowKeeps, RemoveMemberRowKeeps
           DEF SettingsNext

\* The invariant types the settings, and the room left bounds the log.
LEMMA SettingsTyped == SettingsInv => SettingsTypeOK
<1> SUFFICES ASSUME SettingsInv PROVE SettingsTypeOK
  OBVIOUS
<1>1. Len(auditLog) <= MaxEntries
  <2>1. IsFiniteSet(Busy)
    BY SettingsAssumption, FS_Subset DEF Busy
  <2>2. Cardinality(Busy) \in Nat /\ Len(auditLog) \in Nat
    BY <2>1, FS_CardinalityType DEF SettingsInv, SettingsTypes
  <2> QED BY <2>2, SettingsAssumption DEF SettingsInv, RoomLeft
<1>2. \A e \in SettingsTxs : /\ editing[e].at \in {"idle", "authorized", "locked"}
                             /\ editing[e].in \in Inputs /\ editing[e].existing \in Fields
  BY DEF SettingsInv, SettingsTypes, EditRows
<1> QED BY <1>1, <1>2 DEF SettingsInv, SettingsTypes, SettingsTypeOK

-----------------------------------------------------------------------------
(* Pages: a page is the first rows past the cursor, so what was read is in   *)
(* order and ends at the cursor, and a row that was there all along is past  *)
(* the cursor or was read.                                                   *)

\* The rows of a set up to one of them, in the list's order, and how many they are.
Upto(S, i) == {j \in S : IF Ascending THEN j <= i ELSE j >= i}
Rank(S, i) == Cardinality(Upto(S, i))

\* A row further on has more rows up to it; so ranks are distinct, and are 1 to as many as there are rows.
LEMMA RankGrows ==
  ASSUME NEW S, S \subseteq Nat, IsFiniteSet(S), NEW i \in S, NEW j \in S
  PROVE  /\ Rank(S, i) \in 1..Cardinality(S)
         /\ PastCursor(j, i) => Rank(S, i) < Rank(S, j)
         /\ Rank(S, i) = Rank(S, j) => i = j
<1>1. ASSUME NEW a \in S
      PROVE  /\ Upto(S, a) \subseteq S /\ a \in Upto(S, a) /\ IsFiniteSet(Upto(S, a))
             /\ Rank(S, a) \in Nat /\ Rank(S, a) # 0 /\ Rank(S, a) <= Cardinality(S)
  <2>1. Upto(S, a) \subseteq S /\ a \in Upto(S, a)
    BY DEF Upto
  <2>2. IsFiniteSet(Upto(S, a)) /\ Rank(S, a) <= Cardinality(S)
    BY <2>1, FS_Subset DEF Rank
  <2>3. Rank(S, a) \in Nat /\ Rank(S, a) # 0
    BY <2>1, <2>2, FS_CardinalityType, FS_EmptySet DEF Rank
  <2> QED BY <2>1, <2>2, <2>3
<1>2. Cardinality(S) \in Nat
  BY FS_CardinalityType
<1>3. ASSUME NEW a \in S, NEW b \in S, PastCursor(b, a) PROVE Rank(S, a) < Rank(S, b)
  <2>1. Upto(S, a) \subseteq Upto(S, b) /\ b \notin Upto(S, a)
    <3>1. a \in Nat /\ b \in Nat /\ \A x \in S : x \in Nat
      OBVIOUS
    <3>2. CASE Ascending
      <4>1. a < b
        BY <1>3, <3>1, <3>2 DEF PastCursor
      <4>2. ~(b <= a) /\ \A x \in S : x <= a => x <= b
        BY <3>1, <4>1
      <4> QED BY <3>2, <4>2 DEF Upto
    <3>3. CASE ~Ascending
      <4>1. b < a
        BY <1>3, <3>1, <3>3 DEF PastCursor
      <4>2. ~(b >= a) /\ \A x \in S : x >= a => x >= b
        BY <3>1, <4>1
      <4> QED BY <3>3, <4>2 DEF Upto
    <3> QED BY <3>2, <3>3
  <2>2. Upto(S, a) # Upto(S, b)
    BY <1>1, <2>1
  <2>3. Rank(S, a) <= Rank(S, b) /\ Rank(S, a) # Rank(S, b)
    BY <1>1, <2>1, <2>2, FS_Subset DEF Rank
  <2> QED BY <1>1, <2>3
<1>4. i # j => PastCursor(i, j) \/ PastCursor(j, i)
  BY DEF PastCursor
<1> QED BY <1>1, <1>2, <1>3, <1>4

\* The ORDER BY has every row of a finite set, once and in order.
LEMMA OrderedIs ==
  ASSUME NEW S, S \subseteq Nat, IsFiniteSet(S)
  PROVE  /\ Ordered(S) \in Seq(S) /\ Len(Ordered(S)) = Cardinality(S)
         /\ \A j, k \in 1..Len(Ordered(S)) : j < k => PastCursor(Ordered(S)[k], Ordered(S)[j])
         /\ \A i \in S : \E k \in 1..Len(Ordered(S)) : Ordered(S)[k] = i
<1> DEFINE n == Cardinality(S)
           rank == [i \in S |-> Rank(S, i)]
           o == Ordered(S)
<1>1. n \in Nat
  BY FS_CardinalityType
<1>2. \A i \in S : Rank(S, i) \in 1..n
  BY RankGrows
<1>3. \A i, j \in S : Rank(S, i) = Rank(S, j) => i = j
  BY RankGrows
<1>4. \A i, j \in S : PastCursor(j, i) => Rank(S, i) < Rank(S, j)
  BY RankGrows
<1>5. \A k \in 1..n : \E i \in S : Rank(S, i) = k
  <2>1. rank \in Injection(S, 1..n)
    BY <1>2, <1>3 DEF Injection, IsInjective
  <2>2. IsFiniteSet(1..n) /\ Cardinality(1..n) = n
    BY <1>1, FS_Interval
  <2>3. rank \in Surjection(S, 1..n)
    <3> HIDE DEF rank
    <3> QED BY <2>1, <2>2, FS_Injection
  <2> QED BY <2>3 DEF Surjection
<1>6. o = [k \in 1..n |-> CHOOSE i \in S : Rank(S, i) = k]
  BY DEF Ordered, Rank, Upto
<1>7. \A k \in 1..n : o[k] \in S /\ Rank(S, o[k]) = k
  BY <1>5, <1>6
<1>8. o \in [1..n -> S]
  BY <1>6, <1>7
<1> HIDE DEF o, n
<1>9. o \in Seq(S) /\ Len(o) = n
  BY <1>1, <1>8
<1>10. ASSUME NEW j \in 1..n, NEW k \in 1..n, j < k PROVE PastCursor(o[k], o[j])
  <2>1. o[j] \in S /\ o[k] \in S /\ Rank(S, o[j]) = j /\ Rank(S, o[k]) = k
    BY <1>7
  <2>2. o[j] \in Nat /\ o[k] \in Nat
    BY <2>1
  <2>3. CASE PastCursor(o[j], o[k])
    <3>1. k < j
      BY <1>4, <2>1, <2>3
    <3> QED BY <1>1, <1>10, <3>1
  <2>4. CASE o[j] = o[k]
    BY <1>1, <1>10, <2>1, <2>4
  <2>5. o[j] = o[k] \/ PastCursor(o[j], o[k]) \/ PastCursor(o[k], o[j])
    BY <2>2 DEF PastCursor
  <2> QED BY <2>3, <2>4, <2>5
<1>11. \A i \in S : \E k \in 1..n : o[k] = i
  BY <1>2, <1>3, <1>7
<1> QED BY <1>9, <1>10, <1>11 DEF o, n

\* A page asks for one row at least, of however few or many a request names.
LEMMA ClampIsSome == ASSUME NEW limit \in Nat PROVE Clamp(limit) \in Nat /\ Clamp(limit) >= 1
<1>1. CASE limit <= 0
  BY <1>1, PagesAssumption DEF Clamp
<1>2. CASE limit > 0 /\ limit > maxPageSize
  BY <1>2, PagesAssumption DEF Clamp
<1>3. CASE limit > 0 /\ ~(limit > maxPageSize)
  BY <1>3, PagesAssumption DEF Clamp
<1> QED BY <1>1, <1>2, <1>3

\* The list's order, and where a reading starts, of a list named.
Beyond(l, i, c) == IF l = "members" THEN i > c ELSE i < c
First(l) == IF l = "members" THEN 0 ELSE MaxRow + 1

\* They are the code's own comparison and start.
LEMMA BeyondIs == (\A i, c : PastCursor(i, c) <=> Beyond(list, i, c)) /\ Starting = First(list)
BY DEF PastCursor, Beyond, Starting, First, Ascending

\* What a page of the rows S past a cursor is: rows past it, in order, from the first on and leaving none
\* between them out, and empty only if there are none.
PageTells(l, S, cursor, page) ==
  /\ page \in Seq(S)
  /\ \A j, k \in 1..Len(page) : j < k => Beyond(l, page[k], page[j])
  /\ \A k \in 1..Len(page) : Beyond(l, page[k], cursor)
  /\ page = <<>> => \A i \in S : ~Beyond(l, i, cursor)
  /\ page # <<>> => \A i \in S : Beyond(l, i, cursor) =>
       /\ ~Beyond(l, page[1], i)
       /\ Beyond(l, i, page[Len(page)]) \/ \E k \in 1..Len(page) : page[k] = i

\* A page of the code is one.
LEMMA PageIs ==
  ASSUME NEW S, S \subseteq Rows, NEW cursor \in Nat, NEW limit \in Nat
  PROVE  PageTells(list, S, cursor, Page(S, cursor, limit))
<1> DEFINE page == Page(S, cursor, limit)
           P == {i \in S : PastCursor(i, cursor)}
           o == Ordered(P)
           m == IF Len(o) < Clamp(limit) THEN Len(o) ELSE Clamp(limit)
<1>1. P \subseteq Nat /\ IsFiniteSet(P) /\ P \subseteq S
  <2>1. IsFiniteSet(Rows)
    BY PagesAssumption, FS_Interval DEF Rows
  <2>2. P \subseteq S /\ P \subseteq Rows /\ Rows \subseteq Nat
    <3>1. P \subseteq S
      OBVIOUS
    <3>2. Rows \subseteq Nat
      BY PagesAssumption DEF Rows
    <3> HIDE DEF P
    <3> QED BY <3>1, <3>2
  <2>3. IsFiniteSet(P)
    <3> HIDE DEF P
    <3> QED BY <2>1, <2>2, FS_Subset
  <2> QED BY <2>2, <2>3
<1>2. page = SubSeq(o, 1, m)
  BY DEF Page
<1> HIDE DEF page
<1>3. \A i \in P : i \in S /\ PastCursor(i, cursor) /\ i \in Nat
  BY <1>1
<1>4. \A i \in S : PastCursor(i, cursor) => i \in P
  OBVIOUS
<1> HIDE DEF P
<1>5. /\ o \in Seq(P)
      /\ \A j, k \in 1..Len(o) : j < k => PastCursor(o[k], o[j])
      /\ \A i \in P : \E k \in 1..Len(o) : o[k] = i
  BY <1>1, OrderedIs
<1> HIDE DEF o
<1>6. Clamp(limit) \in Nat /\ Clamp(limit) >= 1
  BY ClampIsSome
<1>7. Len(o) \in Nat /\ m \in 0..Len(o) /\ (Len(o) # 0 => m # 0)
  BY <1>5, <1>6
<1> HIDE DEF m
<1>8. page \in Seq(P) /\ Len(page) = m /\ \A k \in 1..m : page[k] = o[k]
  BY <1>2, <1>5, <1>7
<1>9. \A k \in 1..m : k \in 1..Len(o) /\ o[k] \in P
  BY <1>5, <1>7
<1>10. page \in Seq(S)
  <2>1. page \in [1..m -> S]
    <3>1. page \in [1..m -> P]
      BY <1>7, <1>8
    <3> QED BY <1>1, <3>1
  <2> QED BY <1>7, <2>1
<1>11. \A j, k \in 1..Len(page) : j < k => PastCursor(page[k], page[j])
  BY <1>5, <1>8, <1>9
<1>12. \A k \in 1..Len(page) : PastCursor(page[k], cursor)
  BY <1>3, <1>8, <1>9
<1>13. page = <<>> => P = {}
  <2>1. page = <<>> => m = 0
    BY <1>8
  <2> QED BY <1>5, <1>7, <2>1
<1>14. ASSUME page # <<>>, NEW i \in P
       PROVE  /\ ~PastCursor(page[1], i)
              /\ PastCursor(i, page[Len(page)]) \/ \E k \in 1..Len(page) : page[k] = i
  <2>1. m # 0 /\ 1 \in 1..m /\ m \in 1..m
    BY <1>7, <1>8, <1>14
  <2>2. PICK k \in 1..Len(o) : o[k] = i
    BY <1>5
  <2>3. page[1] = o[1] /\ page[Len(page)] = o[m] /\ o[1] \in Nat /\ i \in Nat /\ 1 \in 1..Len(o) /\ m \in 1..Len(o)
    BY <1>3, <1>8, <1>9, <2>1
  <2>4. ~PastCursor(page[1], i)
    <3>1. CASE k = 1
      BY <2>2, <2>3, <3>1 DEF PastCursor
    <3>2. CASE k # 1
      <4>1. PastCursor(i, page[1])
        BY <1>5, <1>7, <2>2, <2>3, <3>2
      <4> QED BY <2>3, <4>1 DEF PastCursor
    <3> QED BY <3>1, <3>2
  <2>5. CASE k <= m
    <3>1. k \in 1..m
      BY <1>7, <2>5
    <3>2. page[k] = i
      BY <1>8, <2>2, <3>1
    <3> QED BY <1>8, <2>4, <3>1, <3>2
  <2>6. CASE ~(k <= m)
    <3>1. PastCursor(i, page[Len(page)])
      BY <1>5, <1>7, <2>2, <2>3, <2>6
    <3> QED BY <2>4, <3>1
  <2> QED BY <2>5, <2>6
<1>15. PageTells(list, S, cursor, page)
  BY <1>4, <1>10, <1>11, <1>12, <1>13, <1>14, BeyondIs DEF PageTells
<1> QED BY <1>15 DEF page
ReaderRows == [at: {"idle", "authorized", "envelope", "refused", "done"}, cursor: 0..(MaxRow + 1),
               got: Seq(Rows), steady: SUBSET Rows, limit: Nat, snapshot: SUBSET Rows, current: Nat]

\* What was read is in order and ends at the cursor.
InOrder(l, got) == \A j, k \in 1..Len(got) : j < k => Beyond(l, got[k], got[j])
CursorIsLast(l, r) == r.cursor = IF r.got = <<>> THEN First(l) ELSE r.got[Len(r.got)]

\* A row that was there all along is still to come, or was read; when the reading is over, none is to come.
SteadySeen(l, r) ==
  \A i \in r.steady : Beyond(l, i, r.cursor) \/ \E k \in 1..Len(r.got) : r.got[k] = i
NoneToCome(l, r) == r.at = "done" => \A i \in r.steady : ~Beyond(l, i, r.cursor)

\* The snapshot of the history's two statements has every such row, and for the first page it has the
\* texts before the one the message has.
EnvelopeSees(r) == r.at = "envelope" => r.steady \subseteq r.snapshot
HistoryStarts(l, r) ==
  l = "history" =>
    /\ r.got # <<>> => r.got[1] + 1 = r.current
    /\ r.at = "envelope" /\ r.got = <<>> => r.snapshot = 1..(r.current - 1)

Reading(l, r) ==
  /\ r \in ReaderRows /\ InOrder(l, r.got) /\ CursorIsLast(l, r) /\ SteadySeen(l, r) /\ NoneToCome(l, r)
  /\ EnvelopeSees(r) /\ HistoryStarts(l, r)

TableTypes ==
  /\ list \in Lists /\ tableRow \in [Rows -> {"unmade", "pending", "there", "gone"}]
  /\ matching \subseteq Rows /\ revision \in 1..(MaxRow + 1) /\ mayRead \in BOOLEAN

\* An edited message's texts: the ones before the one it has now, and at most one on its way.
HistoryRows ==
  list = "history" => \A i \in Rows :
    /\ i < revision => tableRow[i] = "there"
    /\ i = revision => tableRow[i] \in {"unmade", "pending"}
    /\ i > revision => tableRow[i] = "unmade"

SteadyStands == reader.steady \subseteq There \cap matching

PagesInv == TableTypes /\ HistoryRows /\ SteadyStands /\ Reading(list, reader)

\* A row before another in the order comes after none that the other comes after.
LEMMA BeyondChains ==
  ASSUME NEW l, NEW a \in Nat, NEW b \in Nat, NEW c \in Nat, Beyond(l, b, a), Beyond(l, c, b)
  PROVE  Beyond(l, c, a)
BY DEF Beyond

\* A row that goes, or is refiled, is not looked for.
LEMMA SteadyLoses ==
  ASSUME NEW l, NEW r, Reading(l, r), NEW i
  PROVE  Reading(l, [r EXCEPT !.steady = @ \ {i}])
<1> DEFINE s == [r EXCEPT !.steady = @ \ {i}]
<1>1. r \in ReaderRows
  BY DEF Reading
<1>2. /\ s \in ReaderRows /\ s.steady \subseteq r.steady /\ s.at = r.at /\ s.cursor = r.cursor /\ s.got = r.got
      /\ s.snapshot = r.snapshot /\ s.current = r.current
  BY <1>1 DEF ReaderRows
<1> HIDE DEF s
<1>3. Reading(l, s)
  BY <1>2 DEF Reading, InOrder, CursorIsLast, SteadySeen, NoneToCome, EnvelopeSees, HistoryStarts
<1> QED BY <1>3 DEF s

\* A page that has nothing ends the reading: every row looked for was read.
LEMMA ReadingEnds ==
  ASSUME NEW l, NEW r, Reading(l, r), NEW S, r.steady \subseteq S, \A i \in S : ~Beyond(l, i, r.cursor)
  PROVE  Reading(l, [r EXCEPT !.at = "done", !.snapshot = {}])
<1> DEFINE s == [r EXCEPT !.at = "done", !.snapshot = {}]
<1>1. r \in ReaderRows
  BY DEF Reading
<1>2. /\ s \in ReaderRows /\ s.steady = r.steady /\ s.at = "done" /\ s.cursor = r.cursor /\ s.got = r.got
      /\ s.current = r.current
  BY <1>1 DEF ReaderRows
<1> HIDE DEF s
<1>3. Reading(l, s)
  BY <1>2 DEF Reading, InOrder, CursorIsLast, SteadySeen, NoneToCome, EnvelopeSees, HistoryStarts
<1> QED BY <1>3 DEF s

\* A page goes on where the one before it stopped.
LEMMA ReadingGoesOn ==
  ASSUME NEW l, NEW r, Reading(l, r), NEW S, r.steady \subseteq S, S \subseteq Rows,
         NEW page \in Seq(S), page # <<>>,
         \A j, k \in 1..Len(page) : j < k => Beyond(l, page[k], page[j]),
         \A k \in 1..Len(page) : Beyond(l, page[k], r.cursor),
         \A i \in S : Beyond(l, i, r.cursor) =>
            /\ ~Beyond(l, page[1], i)
            /\ Beyond(l, i, page[Len(page)]) \/ \E k \in 1..Len(page) : page[k] = i,
         l = "history" => r.at = "envelope" /\ S = r.snapshot
  PROVE  Reading(l, [r EXCEPT !.at = "idle", !.cursor = page[Len(page)], !.snapshot = {}, !.got = @ \o page])
<1> DEFINE s == [r EXCEPT !.at = "idle", !.cursor = page[Len(page)], !.snapshot = {}, !.got = @ \o page]
           n == Len(r.got)
           m == Len(page)
           got == r.got \o page
<1>1. r \in ReaderRows /\ r.got \in Seq(Rows) /\ n \in Nat /\ r.cursor \in Nat
  BY PagesAssumption DEF Reading, ReaderRows
<1>2. page \in Seq(Rows) /\ m \in Nat \ {0} /\ \A k \in 1..m : page[k] \in S /\ page[k] \in Rows
  OBVIOUS
<1>3. /\ got \in Seq(Rows) /\ Len(got) = n + m
      /\ \A k \in 1..n : got[k] = r.got[k] /\ r.got[k] \in Rows
      /\ \A k \in 1..m : got[n + k] = page[k]
  BY <1>1, <1>2
<1>4. page[m] \in 0..(MaxRow + 1) /\ Rows \subseteq Nat
  BY <1>2, PagesAssumption DEF Rows
<1>5. /\ s \in ReaderRows /\ s.steady = r.steady /\ s.at = "idle" /\ s.cursor = page[m]
      /\ s.got = got /\ s.current = r.current
  <2> DEFINE c == page[m]
             new == [r EXCEPT !.at = "idle", !.cursor = c, !.snapshot = {}, !.got = got]
  <2>1. s = new
    OBVIOUS
  <2>2. c \in 0..(MaxRow + 1) /\ got \in Seq(Rows)
    BY <1>3, <1>4
  <2> HIDE DEF c, got, s
  <2>3. /\ new \in ReaderRows /\ new.steady = r.steady /\ new.at = "idle" /\ new.cursor = c
        /\ new.got = got /\ new.current = r.current
    BY <1>1, <2>2 DEF ReaderRows
  <2> QED BY <2>1, <2>3 DEF c
<1> HIDE DEF s, n, m, got
<1>6. InOrder(l, got)
  <2> SUFFICES ASSUME NEW j \in 1..(n + m), NEW k \in 1..(n + m), j < k PROVE Beyond(l, got[k], got[j])
    BY <1>3 DEF InOrder
  <2>1. CASE j <= n /\ k <= n
    <3>1. j \in 1..n /\ k \in 1..n
      BY <1>1, <1>2, <2>1
    <3> QED BY <1>3, <3>1 DEF Reading, InOrder, n
  <2>2. CASE j <= n /\ ~(k <= n)
    <3>1. j \in 1..n /\ k - n \in 1..m /\ k = n + (k - n)
      BY <1>1, <1>2, <2>2
    <3>2. got[j] = r.got[j] /\ got[k] = page[k - n] /\ r.got[j] \in Nat /\ page[k - n] \in Nat
      BY <1>2, <1>3, <1>4, <3>1
    <3>3. Beyond(l, page[k - n], r.cursor)
      BY <3>1 DEF m
    <3>4. r.cursor = r.got[n] /\ n \in 1..n
      BY <1>1, <3>1 DEF Reading, CursorIsLast, n
    <3>5. CASE j = n
      BY <3>2, <3>3, <3>4, <3>5
    <3>6. CASE j # n
      <4>1. Beyond(l, r.got[n], r.got[j])
        <5>1. j < n
          BY <1>1, <3>1, <3>6
        <5>2. InOrder(l, r.got)
          BY DEF Reading
        <5> QED BY <3>1, <3>4, <5>1, <5>2 DEF InOrder, n
      <4> QED BY <1>1, <3>2, <3>3, <3>4, <4>1, BeyondChains
    <3> QED BY <3>5, <3>6
  <2>3. CASE ~(j <= n)
    <3>1. j - n \in 1..m /\ j = n + (j - n) /\ k - n \in 1..m /\ k = n + (k - n) /\ j - n < k - n
      BY <1>1, <1>2, <2>3
    <3>2. got[j] = page[j - n] /\ got[k] = page[k - n]
      BY <1>3, <3>1
    <3> QED BY <3>1, <3>2 DEF m
  <2> QED BY <2>1, <2>2, <2>3
<1>7. CursorIsLast(l, s)
  <2>1. got # <<>> /\ got[Len(got)] = page[m]
    <3>1. m \in 1..m /\ Len(got) # 0
      BY <1>1, <1>2, <1>3
    <3> QED BY <1>3, <3>1
  <2> QED BY <1>5, <2>1 DEF CursorIsLast
<1>8. SteadySeen(l, s)
  <2> SUFFICES ASSUME NEW i \in r.steady
               PROVE  Beyond(l, i, page[m]) \/ \E k \in 1..Len(got) : got[k] = i
    BY <1>5 DEF SteadySeen
  <2>1. CASE \E k \in 1..n : r.got[k] = i
    <3>1. PICK k \in 1..n : r.got[k] = i
      BY <2>1
    <3>2. k \in 1..(n + m) /\ got[k] = i
      BY <1>1, <1>2, <1>3, <3>1
    <3> QED BY <1>3, <3>2
  <2>2. CASE Beyond(l, i, r.cursor)
    <3>1. Beyond(l, i, page[m]) \/ \E k \in 1..m : page[k] = i
      BY <2>2 DEF m
    <3>2. CASE \E k \in 1..m : page[k] = i
      <4>1. PICK k \in 1..m : page[k] = i
        BY <3>2
      <4>2. n + k \in 1..(n + m) /\ got[n + k] = i
        BY <1>1, <1>2, <1>3, <4>1
      <4> QED BY <1>3, <4>2
    <3> QED BY <3>1, <3>2
  <2> QED BY <2>1, <2>2 DEF Reading, SteadySeen, n
<1>9. HistoryStarts(l, s)
  <2> SUFFICES ASSUME l = "history" PROVE got[1] + 1 = r.current
    BY <1>5 DEF HistoryStarts
  <2>1. CASE r.got # <<>>
    <3>1. 1 \in 1..n
      BY <1>1, <2>1 DEF n
    <3>2. got[1] = r.got[1]
      BY <1>3, <3>1
    <3> QED BY <2>1, <3>2 DEF Reading, HistoryStarts
  <2>2. CASE r.got = <<>>
    <3>1. n = 0 /\ 1 \in 1..m
      BY <1>2, <2>2 DEF n
    <3>2. got[1] = page[1]
      BY <1>3, <3>1
    <3>3. S = 1..(r.current - 1) /\ r.current \in Nat /\ r.cursor = MaxRow + 1
      BY <1>1, <2>2 DEF Reading, HistoryStarts, CursorIsLast, First, ReaderRows
    <3>4. page[1] \in S /\ page[1] \in Nat
      BY <1>2, <1>4, <3>1
    <3>5. r.current - 1 \in S
      BY <3>3, <3>4
    <3>6. Beyond(l, r.current - 1, r.cursor)
      BY <3>3, <3>5, PagesAssumption DEF Beyond, Rows
    <3>7. ~Beyond(l, page[1], r.current - 1)
      BY <3>5, <3>6
    <3>8. page[1] >= r.current - 1
      BY <3>3, <3>4, <3>7 DEF Beyond
    <3> QED BY <3>2, <3>3, <3>4, <3>8
  <2> QED BY <2>1, <2>2
<1>10. Reading(l, s)
  BY <1>5, <1>6, <1>7, <1>8, <1>9 DEF Reading, NoneToCome, EnvelopeSees
<1> QED BY <1>10 DEF s, m, got

\* At first nothing is read, and as many rows are there as the message has former texts.
LEMMA PagesInitInv == PagesInit => PagesInv
<1> SUFFICES ASSUME PagesInit PROVE PagesInv
  OBVIOUS
<1>1. PICK n \in 0..2 : tableRow = [i \in Rows |-> IF i <= n THEN "there" ELSE "unmade"]
  BY DEF PagesInit
<1>2. PICK t \in Nat : t <= MaxRow /\ There = 1..t /\ revision = t + 1
  <2>1. CASE n <= MaxRow
    <3>1. There = 1..n
      BY <1>1, <2>1, PagesAssumption DEF There, Rows
    <3>2. Cardinality(1..n) = n
      <4>1. n \in Nat /\ n \in Int /\ 1 \in Int
        BY <1>1
      <4>2. Cardinality(1..n) = IF 1 > n THEN 0 ELSE n - 1 + 1
        BY <4>1, FS_Interval
      <4> QED BY <4>1, <4>2
    <3> QED BY <2>1, <3>1, <3>2 DEF PagesInit
  <2>2. CASE ~(n <= MaxRow)
    <3>1. There = 1..MaxRow
      BY <1>1, <2>2, PagesAssumption DEF There, Rows
    <3>2. Cardinality(1..MaxRow) = MaxRow
      BY PagesAssumption, FS_Interval
    <3> QED BY <3>1, <3>2, PagesAssumption DEF PagesInit
  <2> QED BY <2>1, <2>2
<1>3. TableTypes
  BY <1>1, <1>2, PagesAssumption DEF PagesInit, TableTypes
<1>4. HistoryRows
  <2>1. \A i \in Rows : i \in There <=> tableRow[i] = "there"
    BY DEF There
  <2>2. \A i \in Rows : i \notin There => tableRow[i] = "unmade"
    BY <1>1, <2>1
  <2>3. \A i \in Rows : i \in There <=> i < revision
    BY <1>2, PagesAssumption DEF Rows
  <2>4. \A i \in Rows : (i = revision \/ i > revision) => ~(i < revision)
    BY <1>2, PagesAssumption DEF Rows
  <2> QED BY <2>1, <2>2, <2>3, <2>4 DEF HistoryRows
<1>5. /\ reader.at = "idle" /\ reader.cursor = First(list) /\ reader.got = <<>> /\ reader.steady = {}
      /\ reader \in ReaderRows
  <2> DEFINE c == First(list)
  <2>1. reader = [Unread EXCEPT !.cursor = c]
    BY BeyondIs DEF PagesInit
  <2>2. c \in 0..(MaxRow + 1)
    BY PagesAssumption DEF First
  <2>3. <<>> \in Seq(Rows)
    OBVIOUS
  <2> HIDE DEF c
  <2> QED BY <2>1, <2>2, <2>3 DEF Unread, ReaderRows, c
<1>6. Reading(list, reader)
  BY <1>5 DEF Reading, InOrder, CursorIsLast, SteadySeen, NoneToCome, EnvelopeSees, HistoryStarts
<1> QED BY <1>3, <1>4, <1>5, <1>6 DEF PagesInv, SteadyStands

\* The writers make and commit rows, and take away only what the reader no longer looks for.
LEMMA WriterKeeps ==
  ASSUME PagesInv, NEW i \in Rows, MakeId(i) \/ CommitRow(i) \/ RemoveRow(i) \/ Refile(i)
  PROVE  PagesInv'
<1>1. /\ tableRow \in [Rows -> {"unmade", "pending", "there", "gone"}] /\ revision \in Nat /\ i \in Nat
      /\ list \in Lists /\ mayRead \in BOOLEAN /\ matching \subseteq Rows /\ revision \in 1..(MaxRow + 1)
  BY PagesAssumption DEF PagesInv, TableTypes, Rows
<1>2. CASE MakeId(i)
  <2>1. /\ UNCHANGED <<list, matching, revision, mayRead, reader>> /\ tableRow[i] = "unmade"
        /\ tableRow' \in [Rows -> {"unmade", "pending", "there", "gone"}]
        /\ tableRow'[i] = "pending" /\ \A j \in Rows \ {i} : tableRow'[j] = tableRow[j]
    BY <1>1, <1>2 DEF MakeId
  <2>2. HistoryRows'
    <3> SUFFICES ASSUME list = "history" PROVE HistoryRows'
      BY <2>1 DEF HistoryRows
    <3>1. ~(i < revision)
      BY <2>1 DEF PagesInv, HistoryRows
    <3>2. ~(i > revision)
      <4> SUFFICES ASSUME i > revision PROVE FALSE
        OBVIOUS
      <4>1. revision \in Rows /\ revision \in 1..(i - 1)
        BY <1>1, PagesAssumption DEF Rows
      <4>2. tableRow[revision] \in {"unmade", "pending"}
        BY <4>1 DEF PagesInv, HistoryRows
      <4> QED BY <1>2, <4>1, <4>2 DEF MakeId
    <3>3. i = revision
      BY <1>1, <3>1, <3>2
    <3> QED BY <1>1, <2>1, <3>3 DEF PagesInv, HistoryRows
  <2>3. There' = There
    BY <1>1, <2>1 DEF There
  <2> QED BY <1>1, <2>1, <2>2, <2>3 DEF PagesInv, TableTypes, SteadyStands
<1>3. CASE CommitRow(i)
  <2>1. /\ UNCHANGED <<list, matching, mayRead, reader>> /\ tableRow[i] = "pending"
        /\ tableRow' \in [Rows -> {"unmade", "pending", "there", "gone"}]
        /\ tableRow'[i] = "there" /\ \A j \in Rows \ {i} : tableRow'[j] = tableRow[j]
        /\ revision' = IF list = "history" THEN revision + 1 ELSE revision
    BY <1>1, <1>3 DEF CommitRow
  <2>2. list = "history" => i = revision
    <3>1. list = "history" => ~(i < revision) /\ ~(i > revision)
      BY <2>1 DEF PagesInv, HistoryRows
    <3> QED BY <1>1, <3>1
  <2>3. HistoryRows'
    <3> SUFFICES ASSUME list = "history", NEW j \in Rows
                 PROVE  /\ j < revision' => tableRow'[j] = "there"
                        /\ j = revision' => tableRow'[j] \in {"unmade", "pending"}
                        /\ j > revision' => tableRow'[j] = "unmade"
      BY <2>1 DEF HistoryRows
    <3>1. j \in Nat /\ revision' = revision + 1 /\ i = revision
      BY <2>1, <2>2, PagesAssumption DEF Rows
    <3>2. /\ j < revision => tableRow[j] = "there"
          /\ j > revision => tableRow[j] = "unmade"
      BY DEF PagesInv, HistoryRows
    <3>3. CASE j = i
      BY <1>1, <2>1, <3>1, <3>3
    <3>4. CASE j # i
      <4>1. tableRow'[j] = tableRow[j]
        BY <2>1, <3>4
      <4> QED BY <1>1, <3>1, <3>2, <3>4, <4>1
    <3> QED BY <3>3, <3>4
  <2>4. revision' \in 1..(MaxRow + 1)
    BY <1>1, <2>1, <2>2, PagesAssumption DEF Rows
  <2>5. There \subseteq There'
    BY <1>1, <2>1 DEF There
  <2> QED BY <1>1, <2>1, <2>3, <2>4, <2>5 DEF PagesInv, TableTypes, SteadyStands
<1>4. CASE RemoveRow(i)
  <2>1. /\ UNCHANGED <<list, matching, revision, mayRead>> /\ list # "history"
        /\ tableRow' \in [Rows -> {"unmade", "pending", "there", "gone"}]
        /\ \A j \in Rows \ {i} : tableRow'[j] = tableRow[j]
        /\ reader' = [reader EXCEPT !.steady = @ \ {i}]
    BY <1>1, <1>4 DEF RemoveRow
  <2>2. Reading(list, reader')
    BY <2>1, SteadyLoses DEF PagesInv
  <2>3. reader'.steady \subseteq reader.steady \ {i}
    BY <2>1 DEF PagesInv, Reading, ReaderRows
  <2>4. There \ {i} \subseteq There'
    BY <2>1 DEF There
  <2>5. SteadyStands'
    BY <2>1, <2>3, <2>4 DEF PagesInv, SteadyStands
  <2> QED BY <1>1, <2>1, <2>2, <2>5 DEF PagesInv, TableTypes, HistoryRows
<1>5. CASE Refile(i)
  <2>1. /\ UNCHANGED <<list, tableRow, revision, mayRead>> /\ matching' = matching \ {i}
        /\ reader' = [reader EXCEPT !.steady = @ \ {i}]
    BY <1>5 DEF Refile
  <2>2. Reading(list, reader')
    BY <2>1, SteadyLoses DEF PagesInv
  <2>3. reader'.steady \subseteq reader.steady \ {i}
    BY <2>1 DEF PagesInv, Reading, ReaderRows
  <2>4. SteadyStands'
    BY <2>1, <2>3 DEF PagesInv, SteadyStands, There
  <2> QED BY <1>1, <2>1, <2>2, <2>4 DEF PagesInv, TableTypes, HistoryRows
<1> QED BY <1>2, <1>3, <1>4, <1>5

\* A page is asked for: from the first one on, the rows there now are the ones looked for.
LEMMA AuthorizePageKeeps ==
  ASSUME PagesInv, NEW limit \in Limits, AuthorizePage(limit)
  PROVE  PagesInv'
<1>1. UNCHANGED <<list, tableRow, matching, revision, mayRead>> /\ reader.at = "idle" /\ limit \in Nat
  BY PagesAssumption DEF AuthorizePage
<1>2. reader \in ReaderRows
  BY DEF PagesInv, Reading
<1>3. TableTypes' /\ HistoryRows' /\ There' = There
  BY <1>1 DEF PagesInv, TableTypes, HistoryRows, There
<1>4. CASE ~mayRead
  <2>1. /\ reader' \in ReaderRows /\ reader'.at = "refused" /\ reader'.steady = reader.steady
        /\ reader'.cursor = reader.cursor /\ reader'.got = reader.got /\ reader'.current = reader.current
    BY <1>2, <1>4 DEF AuthorizePage, ReaderRows
  <2>2. Reading(list, reader')
    BY <2>1 DEF PagesInv, Reading, InOrder, CursorIsLast, SteadySeen, NoneToCome, EnvelopeSees, HistoryStarts
  <2> QED BY <1>1, <1>3, <2>1, <2>2 DEF PagesInv, SteadyStands
<1>5. CASE mayRead
  <2> DEFINE st == IF reader.cursor = First(list) THEN There \cap matching ELSE reader.steady
  <2>1. reader' = [reader EXCEPT !.at = "authorized", !.limit = limit, !.steady = st]
    BY <1>2, <1>5, BeyondIs DEF AuthorizePage, ReaderRows
  <2>2. st \subseteq There \cap matching /\ st \subseteq Rows /\ There \subseteq Rows
    BY DEF PagesInv, SteadyStands, TableTypes, There
  <2>3. ASSUME NEW i \in st PROVE Beyond(list, i, reader.cursor) \/ \E k \in 1..Len(reader.got) : reader.got[k] = i
    <3>1. CASE reader.cursor = First(list)
      <4>1. i \in Rows
        BY <2>2
      <4> QED BY <3>1, <4>1, PagesAssumption DEF Beyond, First, Rows
    <3>2. CASE reader.cursor # First(list)
      BY <3>2 DEF PagesInv, Reading, SteadySeen
    <3> QED BY <3>1, <3>2
  <2> HIDE DEF st
  <2>4. /\ reader' \in ReaderRows /\ reader'.at = "authorized" /\ reader'.steady = st
        /\ reader'.cursor = reader.cursor /\ reader'.got = reader.got /\ reader'.current = reader.current
    BY <1>1, <1>2, <2>1, <2>2 DEF ReaderRows
  <2>5. Reading(list, reader')
    BY <2>3, <2>4 DEF PagesInv, Reading, InOrder, CursorIsLast, SteadySeen, NoneToCome, EnvelopeSees, HistoryStarts
  <2>6. SteadyStands'
    BY <1>1, <1>3, <2>2, <2>4 DEF SteadyStands
  <2> QED BY <1>1, <1>3, <2>5, <2>6 DEF PagesInv
<1> QED BY <1>4, <1>5

\* The history's first statement takes the snapshot both see.
LEMMA ReadEnvelopeKeeps ==
  ASSUME PagesInv, ReadEnvelope
  PROVE  PagesInv'
<1>1. UNCHANGED <<list, tableRow, matching, revision, mayRead>> /\ list = "history" /\ reader.at = "authorized"
  BY DEF ReadEnvelope
<1>2. reader \in ReaderRows /\ There \subseteq Rows /\ revision \in Nat /\ revision \in 1..(MaxRow + 1)
  BY PagesAssumption DEF PagesInv, Reading, There, TableTypes
<1>3. TableTypes' /\ HistoryRows' /\ There' = There
  BY <1>1 DEF PagesInv, TableTypes, HistoryRows, There
<1> DEFINE cur == IF reader.cursor = First(list) THEN revision ELSE reader.current
<1>4. reader' = [reader EXCEPT !.at = "envelope", !.snapshot = There, !.current = cur]
  BY <1>2, BeyondIs DEF ReadEnvelope, ReaderRows
<1>5. cur \in Nat
  BY <1>2 DEF ReaderRows
<1>6. reader.got = <<>> => cur = revision
  BY DEF PagesInv, Reading, CursorIsLast
<1>7. reader.got # <<>> => cur = reader.current
  <2> SUFFICES ASSUME reader.got # <<>> PROVE reader.cursor # First(list)
    OBVIOUS
  <2>1. reader.got \in Seq(Rows)
    BY <1>2 DEF ReaderRows
  <2>2. reader.got[Len(reader.got)] \in Rows
    BY <2>1
  <2>3. reader.cursor \in Rows
    BY <2>2 DEF PagesInv, Reading, CursorIsLast
  <2> QED BY <2>3, PagesAssumption DEF Rows, First
<1>8. There = 1..(revision - 1)
  <2>1. \A i \in Rows : i \in There <=> tableRow[i] = "there"
    BY DEF There
  <2>2. \A i \in Rows : (i < revision => i \in There) /\ (i = revision => i \notin There) /\ (i > revision => i \notin There)
    BY <1>1, <2>1 DEF PagesInv, HistoryRows
  <2>3. \A i \in Rows : i \in There <=> i < revision
    BY <1>2, <2>2, PagesAssumption DEF Rows
  <2>4. ASSUME NEW i \in 1..(revision - 1) PROVE i \in There
    BY <1>2, <2>3, PagesAssumption DEF Rows
  <2>5. ASSUME NEW i \in There PROVE i \in 1..(revision - 1)
    BY <1>2, <2>3, PagesAssumption DEF Rows
  <2> QED BY <2>4, <2>5
<1> HIDE DEF cur
<1>9. /\ reader' \in ReaderRows /\ reader'.at = "envelope" /\ reader'.steady = reader.steady
      /\ reader'.cursor = reader.cursor /\ reader'.got = reader.got /\ reader'.current = cur
      /\ reader'.snapshot = There
  BY <1>2, <1>4, <1>5 DEF ReaderRows
<1>10. HistoryStarts(list, reader')
  BY <1>6, <1>7, <1>8, <1>9 DEF PagesInv, Reading, HistoryStarts
<1>11. EnvelopeSees(reader')
  BY <1>9 DEF PagesInv, SteadyStands, EnvelopeSees
<1>12. Reading(list, reader')
  BY <1>9, <1>10, <1>11 DEF PagesInv, Reading, InOrder, CursorIsLast, SteadySeen, NoneToCome
<1> QED BY <1>1, <1>3, <1>9, <1>12 DEF PagesInv, SteadyStands

\* A page is read.
LEMMA ReadPageKeeps ==
  ASSUME PagesInv, ReadPage
  PROVE  PagesInv'
<1> DEFINE page == Page(Visible, reader.cursor, reader.limit)
           S == Visible
<1>1. /\ UNCHANGED <<list, tableRow, matching, revision, mayRead>>
      /\ list = "history" => reader.at = "envelope"
      /\ reader' = IF page = <<>> THEN [reader EXCEPT !.at = "done", !.snapshot = {}]
                   ELSE [reader EXCEPT !.at = "idle", !.cursor = page[Len(page)], !.snapshot = {},
                                       !.got = @ \o page]
  BY DEF ReadPage
<1>2. reader \in ReaderRows /\ reader.cursor \in Nat /\ reader.limit \in Nat
  BY PagesAssumption DEF PagesInv, Reading, ReaderRows
<1>3. /\ reader.steady \subseteq S /\ S \subseteq Rows
      /\ list = "history" => S = reader.snapshot
  BY <1>1, <1>2 DEF PagesInv, SteadyStands, Visible, Reading, EnvelopeSees, There, ReaderRows
<1> DEFINE c == reader.cursor
           l == reader.limit
<1>0. page = Page(S, c, l) /\ c \in Nat /\ l \in Nat
  BY <1>2
<1> HIDE DEF S, page, c, l
<1>4. PageTells(list, S, c, page)
  BY <1>0, <1>3, PageIs
<1>6. Reading(list, reader')
  <2>1. CASE page = <<>>
    BY <1>1, <1>3, <1>4, <2>1, ReadingEnds DEF PagesInv, PageTells, c
  <2>2. CASE page # <<>>
    BY <1>1, <1>3, <1>4, <2>2, ReadingGoesOn DEF PagesInv, PageTells, c
  <2> QED BY <2>1, <2>2
<1>7. reader'.steady = reader.steady
  BY <1>1, <1>2 DEF ReaderRows
<1> QED BY <1>1, <1>6, <1>7 DEF PagesInv, TableTypes, HistoryRows, SteadyStands, There

\* Every step keeps them.
LEMMA PagesStepInv == PagesInv /\ PagesNext => PagesInv'
<1> SUFFICES ASSUME PagesInv, PagesNext PROVE PagesInv'
  OBVIOUS
<1>1. CASE LoseReading
  BY <1>1 DEF LoseReading, PagesInv, TableTypes, HistoryRows, SteadyStands, There
<1>2. CASE ReadPage
  BY <1>2, ReadPageKeeps
<1> QED BY <1>1, <1>2, WriterKeeps, AuthorizePageKeeps, ReadEnvelopeKeeps
           DEF PagesNext, ListAuditLog, ListMembers, ListMessages, GuildMessageAudit, ListReports, ListHistory

\* What a reader has seen when it is through.
LEMMA PagesAgree == PagesInv => PagesTypeOK /\ PagedOnce /\ HistoryIsWhole
<1> SUFFICES ASSUME PagesInv PROVE PagesTypeOK /\ PagedOnce /\ HistoryIsWhole
  OBVIOUS
<1>1. reader \in ReaderRows /\ reader.got \in Seq(Rows) /\ Rows \subseteq Nat
  BY PagesAssumption DEF PagesInv, Reading, ReaderRows, Rows
<1>2. PagesTypeOK
  BY <1>1 DEF PagesInv, TableTypes, PagesTypeOK, ReaderRows
<1>3. PagedOnce
  <2>1. ASSUME NEW j \in 1..Len(reader.got), NEW k \in 1..Len(reader.got), j < k
        PROVE  PastCursor(reader.got[k], reader.got[j]) /\ reader.got[j] # reader.got[k]
    <3>1. Beyond(list, reader.got[k], reader.got[j])
      BY <2>1 DEF PagesInv, Reading, InOrder
    <3>2. reader.got[j] \in Rows /\ reader.got[k] \in Rows
      BY <1>1
    <3>3. reader.got[j] \in Nat /\ reader.got[k] \in Nat
      BY <1>1, <3>2
    <3> QED BY <3>1, <3>3, BeyondIs DEF Beyond
  <2>2. reader.at = "done" => \A i \in reader.steady : \E k \in 1..Len(reader.got) : reader.got[k] = i
    BY DEF PagesInv, Reading, SteadySeen, NoneToCome
  <2> QED BY <2>1, <2>2 DEF PagedOnce
<1>4. HistoryIsWhole
  BY DEF PagesInv, Reading, HistoryStarts, HistoryIsWhole
<1> QED BY <1>2, <1>3, <1>4

--------------------------------------------------------------------------------
(* The parts together, as MCGuilds runs them: a step is of one part, and   *)
(* the others stand still.                                                 *)

\* Steps of the other parts change nothing of the channels,
LEMMA TreeStutterInv == TreeInv /\ UNCHANGED treeVars => TreeInv'
BY DEF TreeInv, TreeTypeOK, CreationsSound, ParentIsCategory, LiveChannels, treeVars

\* of the tags and reports,
LEMMA ModerationStutterInv == ModerationInv /\ UNCHANGED moderationVars => ModerationInv'
BY DEF ModerationInv, ModerationTypeOK, TagsSound, ReportsSound, TagRemovalsCounted, OthersApplied, moderationVars

\* of the messages,
LEMMA MessagesStutterInv == MessagesInv /\ UNCHANGED channelVars => MessagesInv'
BY DEF MessagesInv, MessageTypes, TextsInOrder, EditsHold, PointerHolds, channelVars

\* of the guilds, their members and their invites,
LEMMA LifeStutterInv == LifeInv /\ UNCHANGED lifeVars => LifeInv'
<1> SUFFICES ASSUME LifeInv, UNCHANGED lifeVars PROVE LifeInv'
  OBVIOUS
<1>1. UNCHANGED <<guild, joined, guildInvite, admitted, tx>>
  BY DEF lifeVars
<1>2. LifeTypes' /\ TxsComplete'
  BY <1>1 DEF LifeInv, LifeTypes, TxsComplete
<1>3. AccountsHeldOnce'
  BY <1>1 DEF LifeInv, AccountsHeldOnce, HoldsAccount
<1>4. CountsStand' /\ CeilingsHold'
  BY <1>1 DEF LifeInv, CountsStand, CeilingsHold, OwnedBy, JoinedBy, Live
<1>5. InviteAdmitsItsUses'
  BY <1>1 DEF LifeInv, InviteAdmitsItsUses
<1> QED BY <1>2, <1>3, <1>4, <1>5 DEF LifeInv

\* of the roles and overwrites,
LEMMA AuthorityStutterInv == AuthorityInv /\ UNCHANGED guildVars => AuthorityInv'
<1> SUFFICES ASSUME AuthorityInv, UNCHANGED guildVars PROVE AuthorityInv'
  OBVIOUS
<1>1. UNCHANGED <<owner, members, lastRole, roles, position, permissions, holds, overwrite, request, begun,
                  conferred>>
  BY DEF guildVars
<1>2. AuthorityTypes'
  BY <1>1 DEF AuthorityInv, AuthorityTypes
<1>3. RequestsSound'
  BY <1>1 DEF AuthorityInv, RequestsSound, RequestSound, Formed, MayDo, Reach
<1>4. PlansApart'
  BY <1>1 DEF AuthorityInv, PlansApart, PlanApart, Planned
<1>5. NothingUnconferred' /\ RolePositionsDistinct' /\ OwnerIsMember'
  BY <1>1 DEF AuthorityInv, NothingUnconferred, RolePositionsDistinct, OwnerIsMember
<1> QED BY <1>2, <1>3, <1>4, <1>5 DEF AuthorityInv

\* of the settings and their log,
LEMMA SettingsStutterInv == SettingsInv /\ UNCHANGED settingsVars => SettingsInv'
<1> SUFFICES ASSUME SettingsInv, UNCHANGED settingsVars PROVE SettingsInv'
  OBVIOUS
<1>1. UNCHANGED <<subject, setting, settingsOwner, mayEdit, editing, auditLog>>
  BY DEF settingsVars
<1>2. SettingsTypes' /\ RoomLeft' /\ LockedRowStands'
  BY <1>1 DEF SettingsInv, SettingsTypes, RoomLeft, Busy, LockedRowStands
<1>3. AuditIsAChain' /\ RecordingFlippedByOwner'
  BY <1>1, LogStays
<1> QED BY <1>2, <1>3 DEF SettingsInv

\* and of the list that is read.
LEMMA PagesStutterInv == PagesInv /\ UNCHANGED pageVars => PagesInv'
BY DEF PagesInv, TableTypes, HistoryRows, SteadyStands, There, pageVars

GuildsInv ==
  /\ part \in Parts
  /\ AuthorityInv /\ LifeInv /\ MessagesInv /\ ModerationInv /\ TreeInv /\ SettingsInv /\ PagesInv

\* Each part's invariant holds at first.
LEMMA GuildsInitInv == Init => GuildsInv
BY AuthorityInitInv, LifeInitInv, MessagesInitInv, ModerationInitInv, TreeInitInv, SettingsInitInv, PagesInitInv
   DEF Init, GuildsInv

\* And is kept by the part's own steps and by everybody else's.
LEMMA GuildsStepInv == GuildsInv /\ [Next]_vars => GuildsInv'
<1> SUFFICES ASSUME GuildsInv, [Next]_vars PROVE GuildsInv'
  OBVIOUS
<1>0. /\ part \in Parts
      /\ AuthorityInv /\ LifeInv /\ MessagesInv /\ ModerationInv /\ TreeInv /\ SettingsInv /\ PagesInv
  BY DEF GuildsInv
<1>1. UNCHANGED part
  BY DEF Next, vars
<1>2. GuildNext \/ UNCHANGED guildVars
  BY DEF Next, vars
<1>3. LifeNext \/ UNCHANGED lifeVars
  BY DEF Next, vars
<1>4. ChannelNext \/ UNCHANGED channelVars
  BY DEF Next, vars
<1>5. ModerationNext \/ UNCHANGED moderationVars
  BY DEF Next, vars
<1>6. TreeNext \/ UNCHANGED treeVars
  BY DEF Next, vars
<1>7. SettingsNext \/ UNCHANGED settingsVars
  BY DEF Next, vars
<1>8. PagesNext \/ UNCHANGED pageVars
  BY DEF Next, vars
<1>9. AuthorityInv' /\ LifeInv' /\ MessagesInv'
  BY <1>0, <1>2, <1>3, <1>4, AuthorityStepInv, AuthorityStutterInv, LifeStepInv, LifeStutterInv,
     MessagesStepInv, MessagesStutterInv
<1>10. ModerationInv' /\ TreeInv'
  BY <1>0, <1>5, <1>6, ModerationStepInv, ModerationStutterInv, TreeStepInv, TreeStutterInv
<1>11. SettingsInv' /\ PagesInv'
  BY <1>0, <1>7, <1>8, SettingsStepInv, SettingsStutterInv, PagesStepInv, PagesStutterInv
<1> QED BY <1>0, <1>1, <1>9, <1>10, <1>11 DEF GuildsInv

\* The inductive invariant of the guild services.
THEOREM GuildsInvariant == Spec => []GuildsInv
<1>1. Init => GuildsInv
  BY GuildsInitInv
<1>2. GuildsInv /\ [Next]_vars => GuildsInv'
  BY GuildsStepInv
<1> QED BY <1>1, <1>2, PTL DEF Spec

\* The tables stay well typed for any number of rows and requests: a role's position, a cursor, a history's
\* revision and an audit log stay in their ranges, and a report is closed once at most (ResolveReport).
THEOREM GuildsTypeOK == Spec => []TypeOK
<1>1. AuthorityInv => GuildTypeOK
  <2> SUFFICES ASSUME AuthorityInv PROVE GuildTypeOK
    OBVIOUS
  <2>1. \A t \in Targets : overwrite[t].allow \cup overwrite[t].deny \subseteq Perms
    BY DEF AuthorityInv, AuthorityTypes, OverwriteRows
  <2>2. \A q \in Requests : request[q].at \in Phases
    BY DEF AuthorityInv, RequestsSound, RequestSound
  <2> QED BY <2>1, <2>2 DEF AuthorityInv, AuthorityTypes, GuildTypeOK
<1>2. LifeInv => LifeTypeOK
  BY DEF LifeInv, LifeTypes, LifeTypeOK, Steps
<1>3. GuildsInv => TypeOK
  BY <1>1, <1>2, MessagesAgree, SettingsTyped, PagesAgree DEF GuildsInv, TypeOK, ModerationInv, TreeInv
<1> QED BY <1>3, GuildsInvariant, PTL

\* Whatever a guild's roles and overwrites allow was handed down by an owner or an instance admin, for any
\* number of roles and of requests that act on a decision made before others wrote (Authorize, then
\* UpdateRole, AssignRole, ReorderRoles and SetOverwrite).
THEOREM NothingUnconferredEver == Spec => []NothingUnconferred
<1>1. GuildsInv => NothingUnconferred
  BY DEF GuildsInv, AuthorityInv
<1> QED BY <1>1, GuildsInvariant, PTL

\* No account owns or joins more guilds than it may, and no invite admits more than its uses, for any number
\* of creations, joins and transfers that count before they write (LockAccountOwnership, RedeemInvite).
THEOREM CountsHoldEver == Spec => []CountsHold
<1>1. GuildsInv => CountsHold
  BY DEF GuildsInv, LifeInv, CountsHold
<1> QED BY <1>1, GuildsInvariant, PTL

\* After every commit the tables agree: positions are distinct, the owner is a member, a parent is a category,
\* the channel names its newest message, no text is lost to an edit, the audit log is a chain, recording was
\* flipped by owners and the tag removals said are those made.
THEOREM TablesAgreeEver == Spec => []TablesAgree
<1>1. GuildsInv => TablesAgree
  BY MessagesAgree DEF GuildsInv, AuthorityInv, TreeInv, SettingsInv, ModerationInv, TablesAgree
<1> QED BY <1>1, GuildsInvariant, PTL

\* Whoever follows the cursors of a list of any length to its end, with pages of any size, has seen every row
\* that was there throughout, once and in order, and a message's history is of one instant.
THEOREM PagesWholeEver == Spec => []PagesAreWhole
<1>1. GuildsInv => PagesAreWhole
  BY PagesAgree DEF GuildsInv, PagesAreWhole
<1> QED BY <1>1, GuildsInvariant, PTL
================================================================================
