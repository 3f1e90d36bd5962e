----------------------------- MODULE KeysetPages -----------------------------
(***************************************************************************)
(* Reading a long list a page at a time while it is written: the audit     *)
(* log, the members, a channel's messages, the recorded messages, the      *)
(* reports, and the versions of one edited message. Every list pages by    *)
(* the id of the last row of the page before, never by an offset. A        *)
(* behaviour follows one list and one reader of it.                        *)
(***************************************************************************)
EXTENDS Naturals, Sequences, FiniteSets

CONSTANTS
  MaxRow,            \* rows are numbered by their ids, 1..MaxRow
  defaultPageSize,   \* the page of a request that names no limit
  maxPageSize,       \* and the largest page
  Limits             \* what requests ask for

ASSUME PagesAssumption ==
  MaxRow \in Nat /\ maxPageSize \in Nat /\ defaultPageSize \in 1..maxPageSize /\ Limits \subseteq Nat

VARIABLES
  list,        \* the list read
  tableRow,    \* id -> what became of the row
  matching,    \* the rows the reader's filter lets through
  revision,    \* an edited message: the number of the text it has now
  mayRead,     \* the reader passes Authorize
  reader       \* the reading

pageVars == <<list, tableRow, matching, revision, mayRead, reader>>

Lists == {"auditLog", "members", "messages", "messageAudit", "reports", "history"}
Rows == 1..MaxRow

\* The members come oldest first, every other list newest first.
Ascending == list = "members"
Starting == IF Ascending THEN 0 ELSE MaxRow + 1

There == {i \in Rows : tableRow[i] = "there"}

\* `steady`: the rows that were there, and let through, ever since the reading began.
Unread == [at |-> "idle", cursor |-> 0, got |-> <<>>, steady |-> {}, limit |-> 0,
           snapshot |-> {}, current |-> 0]

PagesInit ==
  /\ list \in Lists
  /\ \E n \in 0..2 : tableRow = [i \in Rows |-> IF i <= n THEN "there" ELSE "unmade"]
  /\ matching = Rows /\ revision = Cardinality(There) + 1 /\ mayRead = TRUE
  /\ reader = [Unread EXCEPT !.cursor = Starting]

-----------------------------------------------------------------------------
(* The writers.                                                            *)

\* An id is made before its row is committed, and rows are committed in any order; a message's edits are
\* made and committed behind its row lock, one after the other.
MakeId(i) ==
  /\ tableRow[i] = "unmade" /\ \A j \in 1..(i - 1) : tableRow[j] # "unmade"
  /\ list = "history" => \A j \in Rows : tableRow[j] # "pending"
  /\ tableRow' = [tableRow EXCEPT ![i] = "pending"]
  /\ UNCHANGED <<list, matching, revision, mayRead, reader>>

\* An edit appends the text it displaces.
CommitRow(i) ==
  /\ tableRow[i] = "pending" /\ tableRow' = [tableRow EXCEPT ![i] = "there"]
  /\ revision' = IF list = "history" THEN revision + 1 ELSE revision
  /\ UNCHANGED <<list, matching, mayRead, reader>>

\* A message is deleted, a member leaves. A row of a log stays.
RemoveRow(i) ==
  /\ list \in {"messages", "members"} /\ tableRow[i] = "there"
  /\ tableRow' = [tableRow EXCEPT ![i] = "gone"]
  /\ reader' = [reader EXCEPT !.steady = @ \ {i}]
  /\ UNCHANGED <<list, matching, revision, mayRead>>

\* A report is resolved: it leaves the status one reads by.
Refile(i) ==
  /\ list = "reports" /\ tableRow[i] = "there" /\ i \in matching /\ matching' = matching \ {i}
  /\ reader' = [reader EXCEPT !.steady = @ \ {i}]
  /\ UNCHANGED <<list, tableRow, revision, mayRead>>

LoseReading ==
  /\ mayRead /\ mayRead' = FALSE /\ UNCHANGED <<list, tableRow, matching, revision, reader>>

-----------------------------------------------------------------------------
(* One page.                                                               *)

Clamp(limit) ==
  CASE limit <= 0 -> defaultPageSize
    [] limit > maxPageSize -> maxPageSize
    [] OTHER -> limit

PastCursor(i, cursor) == IF Ascending THEN i > cursor ELSE i < cursor

\* The ORDER BY.
Ordered(S) ==
  LET rank(i) == Cardinality({j \in S : IF Ascending THEN j <= i ELSE j >= i})
  IN  [k \in 1..Cardinality(S) |-> CHOOSE i \in S : rank(i) = k]

Page(S, cursor, limit) ==
  LET past == Ordered({i \in S : PastCursor(i, cursor)})
  IN  SubSeq(past, 1, IF Len(past) < Clamp(limit) THEN Len(past) ELSE Clamp(limit))

\* Mutant: the second statement of the history takes a snapshot of its own.
VisibleNow == There

\* The history's two statements see one instant; any other list is one statement.
Visible == IF list = "history" THEN reader.snapshot ELSE There \cap matching

\* Authorize, before anything is read.
AuthorizePage(limit) ==
  /\ reader.at = "idle"
  /\ reader' = IF mayRead THEN [reader EXCEPT !.at = "authorized", !.limit = limit,
                                              !.steady = IF reader.cursor = Starting THEN There \cap matching ELSE @]
                          ELSE [reader EXCEPT !.at = "refused"]
  /\ UNCHANGED <<list, tableRow, matching, revision, mayRead>>

\* History's first statement: the message as it is, in a REPEATABLE READ transaction.
ReadEnvelope ==
  /\ reader.at = "authorized" /\ list = "history"
  /\ reader' = [reader EXCEPT !.at = "envelope", !.snapshot = There,
                              !.current = IF reader.cursor = Starting THEN revision ELSE @]
  /\ UNCHANGED <<list, tableRow, matching, revision, mayRead>>

\* The page, and the cursor of the next one. A reading is over with the page that has nothing.
ReadPage ==
  /\ reader.at = IF list = "history" THEN "envelope" ELSE "authorized"
  /\ LET page == Page(Visible, reader.cursor, reader.limit)
     IN  reader' = IF page = <<>> THEN [reader EXCEPT !.at = "done", !.snapshot = {}]
                   ELSE [reader EXCEPT !.at = "idle", !.cursor = page[Len(page)], !.snapshot = {},
                                       !.got = @ \o page]
  /\ UNCHANGED <<list, tableRow, matching, revision, mayRead>>

ListAuditLog == list = "auditLog" /\ ReadPage
ListMembers == list = "members" /\ ReadPage
ListMessages == list = "messages" /\ ReadPage
GuildMessageAudit == list = "messageAudit" /\ ReadPage
ListReports == list = "reports" /\ ReadPage
ListHistory == list = "history" /\ ReadPage

PagesNext ==
  \/ \E i \in Rows : MakeId(i) \/ CommitRow(i) \/ RemoveRow(i) \/ Refile(i)
  \/ LoseReading \/ (\E l \in Limits : AuthorizePage(l)) \/ ReadEnvelope
  \/ ListAuditLog \/ ListMembers \/ ListMessages \/ GuildMessageAudit \/ ListReports \/ ListHistory

PagesSpec == PagesInit /\ [][PagesNext]_pageVars

-----------------------------------------------------------------------------
PagesTypeOK ==
  /\ list \in Lists /\ tableRow \in [Rows -> {"unmade", "pending", "there", "gone"}]
  /\ matching \subseteq Rows /\ revision \in 1..(MaxRow + 1) /\ mayRead \in BOOLEAN
  /\ reader.at \in {"idle", "authorized", "envelope", "refused", "done"} /\ reader.cursor \in 0..(MaxRow + 1)
  /\ reader.got \in Seq(Rows) /\ reader.steady \subseteq Rows

\* Reading a list to its end shows every row that was there all along, once, in order, and no row twice,
\* though rows are made, committed late, removed and refiled between the pages (ListAuditLog,
\* auditlog.go:117; ListMembers, member.go:65; ListChannelMessages, db/messages.sql.go:245).
PagedOnce ==
  /\ \A j, k \in 1..Len(reader.got) :
       j < k => PastCursor(reader.got[k], reader.got[j]) /\ reader.got[j] # reader.got[k]
  /\ reader.at = "done" => \A i \in reader.steady : \E k \in 1..Len(reader.got) : reader.got[k] = i

\* A message's history is of one instant: next to the text it has now come exactly the texts it had before,
\* none twice and none left out, though an edit is committed between the two reads (history.go:123). Row i
\* holds the i-th text.
HistoryIsWhole ==
  list = "history" /\ reader.got # <<>> => reader.got[1] + 1 = reader.current
=============================================================================
