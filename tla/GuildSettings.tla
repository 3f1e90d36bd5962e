---------------------------- MODULE GuildSettings ----------------------------
(***************************************************************************)
(* Changing a guild's rows, and the audit log of it: the guild itself, a   *)
(* channel, a role and a member, each read under a row lock, changed in    *)
(* part, and recorded as what changed from what in the same transaction.   *)
(* A row is cut down to a text that may be null and a flag: description    *)
(* and message_audit_enabled, topic and nsfw, name and hoist, nickname     *)
(* and mute. Rows share nothing, so a behaviour follows one of them.       *)
(***************************************************************************)
EXTENDS Naturals, Sequences, FiniteSets, Accounts

CONSTANTS
  SettingTexts,          \* values of a text field
  NullText,         \* null; and a row that does not exist
  SettingsTxs,    \* requests that may run at once
  MaxEntries      \* audit entries

ASSUME SettingsAssumption ==
  NullText \notin SettingTexts /\ IsFiniteSet(SettingsTxs) /\ MaxEntries \in Nat

VARIABLES
  subject,        \* the row followed
  setting,        \* its fields
  settingsOwner,  \* the guild's owner
  mayEdit,       \* the accounts that may change the guild and outrank the member
  editing,        \* request -> how far it is
  auditLog        \* the entries, in the order they were committed

settingsVars == <<subject, setting, settingsOwner, mayEdit, editing, auditLog>>

SettingRows == {"guild", "channel", "role", "member"}
Fields == [text : SettingTexts \cup {NullText}, flag : BOOLEAN]
Blank == [text |-> NullText, flag |-> FALSE]

\* What a request asks: a field it leaves out (<<>>) stays, and a text may be cleared.
Keep == <<>>
Inputs == [text : {Keep} \cup {<<t>> : t \in SettingTexts \cup {NullText}}, flag : {Keep} \cup {<<b>> : b \in BOOLEAN}]
NoEditing == [at |-> "idle", by |-> NoOne, in |-> [text |-> Keep, flag |-> Keep],
              existing |-> Blank, owner |-> NoOne]

\* An entry: who, and for each field that changed what it was and what it is.
AuditEntries == [by : Users, owned : BOOLEAN, gone : BOOLEAN,
                 text : Seq(SettingTexts \cup {NullText}), flag : Seq(BOOLEAN)]

SettingsInit ==
  /\ subject \in SettingRows /\ setting = Blank
  /\ settingsOwner \in Users /\ mayEdit = {settingsOwner}
  /\ editing = [e \in SettingsTxs |-> NoEditing] /\ auditLog = <<>>

-----------------------------------------------------------------------------
(* The audit entry.                                                        *)

\* changed: nothing is recorded of a value written over itself.
ChangedFrom(from, to) == IF from = to THEN <<>> ELSE <<from, to>>

\* removed: of a member who goes, the nickname and only the nickname.
RemovedFields(existing) == [text |-> ChangedFrom(existing.text, NullText), flag |-> <<>>]

\* The diff of a request: a field it does not name is not in it.
DiffOf(existing, in) ==
  [text |-> IF in.text = Keep THEN <<>> ELSE ChangedFrom(existing.text, in.text[1]),
   flag |-> IF in.flag = Keep THEN <<>> ELSE ChangedFrom(existing.flag, in.flag[1])]

AuditEntry(e, diff, gone) ==
  [by |-> editing[e].by, owned |-> editing[e].by = settingsOwner, gone |-> gone,
   text |-> diff.text, flag |-> diff.flag]

WriteAudit(e, diff) == auditLog' = Append(auditLog, AuditEntry(e, diff, FALSE))

\* The UPDATE's COALESCE, on the row as it is.
Coalesced(row, in) ==
  [text |-> IF in.text = Keep THEN row.text ELSE in.text[1],
   flag |-> IF in.flag = Keep THEN row.flag ELSE in.flag[1]]

-----------------------------------------------------------------------------
(* Row locks.                                                              *)

\* No other request has the row FOR UPDATE.
RowLockFree(e) == \A f \in SettingsTxs \ {e} : editing[f].at # "locked"

\* A transfer's FOR NO KEY UPDATE waits for an update's FOR UPDATE.
GuildRowFree == \A e \in SettingsTxs : subject = "guild" => editing[e].at # "locked"

-----------------------------------------------------------------------------
(* A request.                                                              *)

\* The bound: every request under way may write two entries.
Room == Len(auditLog) + 2 * Cardinality({e \in SettingsTxs : editing[e].at # "idle"}) + 2 <= MaxEntries

\* Authorize, with OutranksMember and Outranks for a member and a role; an update of a member that names
\* no field is refused.
AuthorizeEdit(e, u, in) ==
  /\ editing[e].at = "idle" /\ u \in mayEdit /\ Room
  /\ subject = "member" => in.text # Keep \/ in.flag # Keep
  /\ editing' = [editing EXCEPT ![e] = [NoEditing EXCEPT !.at = "authorized", !.by = u, !.in = in]]
  /\ UNCHANGED <<subject, setting, settingsOwner, mayEdit, auditLog>>

\* GetGuildForUpdate and its like. The guild's update authorizes again behind its lock; AuthorizeChannel
\* locks before it authorizes.
LockRow(e) ==
  /\ editing[e].at = "authorized" /\ RowLockFree(e)
  /\ subject \in {"guild", "channel"} => editing[e].by \in mayEdit
  /\ editing' = [editing EXCEPT ![e].at = "locked", ![e].existing = setting,
                                ![e].owner = settingsOwner]
  /\ UNCHANGED <<subject, setting, settingsOwner, mayEdit, auditLog>>

MayFlipMessageAudit(e) == editing[e].by = editing[e].owner

\* Commit: the row is changed, and the request is over.
CommitSetting(e) ==
  /\ setting' = Coalesced(setting, editing[e].in)
  /\ editing' = [editing EXCEPT ![e] = NoEditing]
  /\ UNCHANGED <<subject, settingsOwner, mayEdit>>

\* Update: recording messages is the owner's alone to change, and has an entry of its own.
UpdateGuildRow(e) ==
  /\ editing[e].at = "locked" /\ subject = "guild"
  /\ editing[e].in.flag # Keep => MayFlipMessageAudit(e)
  /\ LET diff == DiffOf(editing[e].existing, editing[e].in)
         update == [diff EXCEPT !.flag = <<>>]
         toggle == [diff EXCEPT !.text = <<>>]
     IN  auditLog' = auditLog
           \o (IF diff.text # <<>> \/ diff.flag = <<>> THEN <<AuditEntry(e, update, FALSE)>> ELSE <<>>)
           \o (IF diff.flag # <<>> THEN <<AuditEntry(e, toggle, FALSE)>> ELSE <<>>)
  /\ CommitSetting(e)

\* The other updates write one entry, of an update that changed nothing too.
UpdateRow(e, r) ==
  /\ editing[e].at = "locked" /\ subject = r
  /\ WriteAudit(e, DiffOf(editing[e].existing, editing[e].in)) /\ CommitSetting(e)

UpdateChannelRow(e) == UpdateRow(e, "channel")
UpdateMemberRow(e) == UpdateRow(e, "member")
UpdateRoleRow(e) == UpdateRow(e, "role")

\* RemoveMember behind the same lock; whoever joins again has a fresh row.
RemoveMemberRow(e) ==
  /\ editing[e].at = "locked" /\ subject = "member"
  /\ auditLog' = Append(auditLog, AuditEntry(e, RemovedFields(editing[e].existing), TRUE))
  /\ setting' = Blank
  /\ editing' = [editing EXCEPT ![e] = NoEditing]
  /\ UNCHANGED <<subject, settingsOwner, mayEdit>>

\* Refused behind the lock, or the transaction fails: no row and no entry.
SettingFails(e) ==
  /\ editing[e].at # "idle" /\ editing' = [editing EXCEPT ![e] = NoEditing]
  /\ UNCHANGED <<subject, setting, settingsOwner, mayEdit, auditLog>>

\* A transfer of the guild, and a change of who may do what.
TransferGuild(u) ==
  /\ u # settingsOwner /\ GuildRowFree /\ settingsOwner' = u
  /\ mayEdit' = mayEdit \cup {u} /\ UNCHANGED <<subject, setting, editing, auditLog>>

LoseStanding(u) ==
  /\ u \in mayEdit \ {settingsOwner} /\ mayEdit' = mayEdit \ {u}
  /\ UNCHANGED <<subject, setting, settingsOwner, editing, auditLog>>

SettingsNext ==
  \/ \E u \in Users : TransferGuild(u) \/ LoseStanding(u)
  \/ \E e \in SettingsTxs :
       \/ \E u \in Users, in \in Inputs : AuthorizeEdit(e, u, in)
       \/ LockRow(e) \/ UpdateGuildRow(e) \/ UpdateChannelRow(e) \/ UpdateMemberRow(e) \/ UpdateRoleRow(e)
       \/ RemoveMemberRow(e) \/ SettingFails(e)

SettingsSpec == SettingsInit /\ [][SettingsNext]_settingsVars

-----------------------------------------------------------------------------
SettingsTypeOK ==
  /\ subject \in SettingRows /\ setting \in Fields /\ settingsOwner \in Users /\ mayEdit \subseteq Users
  /\ auditLog \in Seq(AuditEntries) /\ Len(auditLog) <= MaxEntries
  /\ \A e \in SettingsTxs : /\ editing[e].at \in {"idle", "authorized", "locked"}
                            /\ editing[e].in \in Inputs /\ editing[e].existing \in Fields

\* A field's value before the i-th entry, as the entries before it have it.
Before(i, field) ==
  LET telling == {j \in 1..(i - 1) : auditLog[j].gone \/ auditLog[j][field] # <<>>}
      last == CHOOSE j \in telling : \A k \in telling : k <= j
  IN  IF telling = {} \/ auditLog[last].gone THEN Blank[field] ELSE auditLog[last][field][2]

\* The audit log tells how a row came to be what it is: each entry's "from" is the last entry's "to", and
\* the last "to" is the value now, though requests change one row at once (GetGuildMemberForUpdate,
\* member.go:177, and its like, before auditDiff, auditdiff.go:62).
AuditIsAChain ==
  \A field \in {"text", "flag"} :
    /\ \A i \in 1..Len(auditLog) :
         auditLog[i][field] # <<>> => auditLog[i][field][1] = Before(i, field)
    /\ setting[field] = Before(Len(auditLog) + 1, field)

\* Whether a guild's messages are recorded was only ever changed by whoever owned it then, though the guild
\* is handed over meanwhile (mayFlipMessageAudit, guild.go:252, on the row read FOR UPDATE).
RecordingFlippedByOwner ==
  \A i \in 1..Len(auditLog) : subject = "guild" /\ auditLog[i].flag # <<>> => auditLog[i].owned
=============================================================================
