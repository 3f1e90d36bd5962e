---------------------------- MODULE ChannelMessages ----------------------------
(***************************************************************************)
(* The messages of one text channel, their edit history, the channel's     *)
(* newest-message pointer and the guild's message recording.  Sources:     *)
(* messages/service.go, messages/audit.go, messages/history.go, guilds/    *)
(* guild.go and the statements of db/messages.sql.go.                      *)
(*                                                                         *)
(* An id is minted before the transaction that uses it, so messages commit *)
(* in any order.  A content is the number of the text: texts are numbered  *)
(* in the order they are written to their message.                         *)
(***************************************************************************)
EXTENDS Naturals, Sequences

CONSTANTS MaxMessages,   \* message ids minted
          MaxTexts,      \* texts written to one message
          Editors        \* edits in flight at once

ASSUME ChannelAssumption == MaxMessages \in Nat /\ MaxTexts \in Nat \ {0}

VARIABLES
  channel,     \* "live" or "deleted"
  lastMessage, \* channels.last_message_id, 0 for none
  minted,      \* message ids minted so far
  message,     \* [1..MaxMessages -> "none", "live" or "deleted"]
  content,     \* [1..MaxMessages -> the text it holds]
  written,     \* [1..MaxMessages -> the newest text ever written to it]
  history,     \* [1..MaxMessages -> the texts its edits replaced, oldest first]
  editor,      \* [Editors -> [message, text] of an edit that has read its row]
  recording,   \* guilds.message_audit_enabled
  recorded     \* [1..MaxMessages -> Seq of [action, text]]

channelVars == <<channel, lastMessage, minted, message, content, written, history, editor,
                 recording, recorded>>

Ids      == 1..MaxMessages
NoEdit   == [message |-> 0, text |-> 0]

ChannelTypeOK ==
  /\ channel \in {"live", "deleted"} /\ lastMessage \in 0..MaxMessages /\ minted \in 0..MaxMessages
  /\ message \in [Ids -> {"none", "live", "deleted"}]
  /\ content \in [Ids -> 0..MaxTexts] /\ written \in [Ids -> 0..MaxTexts]
  /\ \A m \in Ids : history[m] \in Seq(0..MaxTexts)
  /\ editor \in [Editors -> [message: 0..MaxMessages, text: 0..MaxTexts]]
  /\ recording \in BOOLEAN
  /\ \A m \in Ids : recorded[m] \in Seq([action: {"create", "edit", "delete"}, text: 0..MaxTexts])

ChannelInit ==
  /\ channel = "live" /\ lastMessage = 0 /\ minted = 0
  /\ message = [m \in Ids |-> "none"]
  /\ content = [m \in Ids |-> 0] /\ written = [m \in Ids |-> 0]
  /\ history = [m \in Ids |-> <<>>]
  /\ editor = [e \in Editors |-> NoEdit]
  /\ recording \in BOOLEAN /\ recorded = [m \in Ids |-> <<>>]

-------------------------------------------------------------------------------
(* Messages. *)

\* record: an entry with the text the message now holds, in the mutation's transaction.
Record(m, action, text) ==
  recorded' = IF recording THEN [recorded EXCEPT ![m] = Append(@, [action |-> action, text |-> text])]
              ELSE recorded

\* GetMessageForUpdate: the row is held to the end of the edit or deletion.
MessageRowOpen(m) == TRUE
MessageRowFree(m) == \A e \in Editors : editor[e].message # m

\* SetChannelLastMessage: GREATEST of the pointer and the id.
NewestOf(m)  == IF m > lastMessage THEN m ELSE lastMessage

MintMessage ==
  /\ minted < MaxMessages /\ minted' = minted + 1
  /\ UNCHANGED <<channel, lastMessage, message, content, written, history, editor, recording,
                 recorded>>

\* The text that stands in the row from here on.
SetContent(m, text) ==
  content' = [content EXCEPT ![m] = text] /\ written' = [written EXCEPT ![m] = text]

\* The insert; a channel deleted since the authorization fails its foreign key.
CreateMessage(m) ==
  /\ channel = "live" /\ message' = [message EXCEPT ![m] = "live"]
  /\ SetContent(m, 1)

\* Send's transaction.
Send(m) ==
  /\ m <= minted /\ message[m] = "none" /\ CreateMessage(m)
  /\ lastMessage' = NewestOf(m)
  /\ Record(m, "create", 1)
  /\ UNCHANGED <<channel, minted, history, editor, recording>>

\* Update reads the row and the text it is about to replace ...
LoadForEdit(e, m) ==
  /\ editor[e] = NoEdit /\ message[m] = "live" /\ MessageRowFree(m) /\ written[m] < MaxTexts
  /\ editor' = [editor EXCEPT ![e] = [message |-> m, text |-> content[m]]]
  /\ UNCHANGED <<channel, lastMessage, minted, message, content, written, history, recording,
                 recorded>>

\* ... and keeps that text in the history as it writes the new one.
UpdateMessage(e) ==
  LET m == editor[e].message
      text == written[m] + 1
  IN
  /\ editor[e] # NoEdit /\ message[m] = "live" /\ text <= MaxTexts
  /\ history' = [history EXCEPT ![m] = Append(@, editor[e].text)]
  /\ SetContent(m, text)
  /\ editor' = [editor EXCEPT ![e] = NoEdit]
  /\ Record(m, "edit", text)
  /\ UNCHANGED <<channel, lastMessage, minted, message, recording>>

EditFails(e) ==
  /\ editor[e] # NoEdit /\ editor' = [editor EXCEPT ![e] = NoEdit]
  /\ UNCHANGED <<channel, lastMessage, minted, message, content, written, history, recording,
                 recorded>>

\* Delete by the author or a moderator: the row stays, its text with it.
DeleteMessage(m) ==
  /\ message[m] = "live" /\ MessageRowFree(m)
  /\ message' = [message EXCEPT ![m] = "deleted"]
  /\ Record(m, "delete", content[m])
  /\ UNCHANGED <<channel, lastMessage, minted, content, written, history, editor, recording>>

\* Guild Update by the owner: what is written before is not recorded afterwards.
SetMessageAudit ==
  /\ recording' = ~recording
  /\ UNCHANGED <<channel, lastMessage, minted, message, content, written, history, editor,
                 recorded>>

\* DeleteChannel waits for the edits that hold rows and cascades to every message of it.
DeleteMessageChannel ==
  /\ channel = "live" /\ \A m \in Ids : MessageRowFree(m)
  /\ channel' = "deleted"
  /\ message' = [m \in Ids |-> "none"]
  /\ content' = [m \in Ids |-> 0] /\ written' = [m \in Ids |-> 0]
  /\ history' = [m \in Ids |-> <<>>] /\ lastMessage' = 0
  /\ UNCHANGED <<minted, editor, recording, recorded>>

-------------------------------------------------------------------------------
ChannelNext ==
  \/ MintMessage \/ SetMessageAudit \/ DeleteMessageChannel
  \/ \E m \in Ids : Send(m) \/ DeleteMessage(m) \/ \E e \in Editors : LoadForEdit(e, m)
  \/ \E e \in Editors : UpdateMessage(e) \/ EditFails(e)

ChannelSpec == ChannelInit /\ [][ChannelNext]_channelVars

-------------------------------------------------------------------------------
(* Properties. *)

\* The channel's pointer is its newest message, although sends commit out of the order their
\* ids were minted in: a slow send must not move the pointer back.
LastMessageIsNewest ==
  \A m \in Ids : message[m] # "none" => m <= lastMessage /\ message[lastMessage] # "none"

\* Every text a message ever showed can still be read: its edits' history and its present text
\* are exactly the texts written to it, in order, whoever edited at the same time.
NoTextLost ==
  \A m \in Ids : message[m] # "none" =>
    Append(history[m], content[m]) = [n \in 1..written[m] |-> n]
===============================================================================
