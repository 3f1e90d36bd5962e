------------------------------ MODULE Moderation ------------------------------
(***************************************************************************)
(* The tags and the reports that hang on a channel's messages.  Sources:   *)
(* tags/service.go, tags/apply.go, tags/audit.go, reports/service.go and   *)
(* the statements of db/tags.sql.go and db/reports.sql.go.                 *)
(***************************************************************************)
EXTENDS Accounts, Naturals, FiniteSets

CONSTANTS Targeted,   \* messages that may be tagged and reported
          Tags, Reports,
          MaxSharedTagsPerGuild, MaxPrivateTagsPerMember

ASSUME ModerationAssumption == IsFiniteSet(Targeted)

VARIABLES
  present,     \* the messages not soft-deleted
  tag,         \* [Tags -> [state, by, counting, counted]]
  applied,     \* [Tags -> [Targeted -> Users or NoOne]], who applied it
  uncounted,   \* others' applications a deletion removed and did not count
  report       \* [Reports -> [by, message, status, closings]]

tagVars == <<tag, applied, uncounted>>
moderationVars == <<present, tag, applied, uncounted, report>>

NoTag    == [state |-> "none", by |-> NoOne, counting |-> NoOne, counted |-> 0]
NoReport == [by |-> NoOne, message |-> NoOne, status |-> "none", closings |-> 0]

ModerationTypeOK ==
  /\ present \subseteq Targeted
  /\ tag \in [Tags -> [state: {"none", "private", "shared"}, by: Users \cup {NoOne},
                       counting: Users \cup {NoOne}, counted: 0..Cardinality(Targeted)]]
  /\ applied \in [Tags -> [Targeted -> Users \cup {NoOne}]] /\ uncounted \in Nat
  /\ report \in [Reports -> [by: Users \cup {NoOne}, message: Targeted \cup {NoOne},
                             status: {"none", "open", "resolved", "dismissed"}, closings: 0..1]]

ModerationInit ==
  /\ present = Targeted
  /\ tag = [g \in Tags |-> NoTag]
  /\ applied = [g \in Tags |-> [m \in Targeted |-> NoOne]] /\ uncounted = 0
  /\ report = [r \in Reports |-> NoReport]

\* A soft-deleted message keeps its tags and can still be reported; it takes no new tag.
SoftDelete(m) == m \in present /\ present' = present \ {m} /\ UNCHANGED <<tagVars, report>>

-------------------------------------------------------------------------------
(* Tags: private to their maker, or shared by the guild. *)

SharedTags     == {g \in Tags : tag[g].state = "shared"}
PrivateTags(u) == {g \in Tags : tag[g].state = "private" /\ tag[g].by = u}

\* checkCeiling: a count without a lock, of the kind being made.
BelowCeiling(u, shared) ==
  IF shared THEN Cardinality(SharedTags) < MaxSharedTagsPerGuild
            ELSE Cardinality(PrivateTags(u)) < MaxPrivateTagsPerMember

CreateTag(g, u, shared) ==
  /\ tag[g].state = "none" /\ BelowCeiling(u, shared)
  /\ tag' = [tag EXCEPT ![g].state = IF shared THEN "shared" ELSE "private", ![g].by = u]
  /\ UNCHANGED <<present, applied, uncounted, report>>

TagVisibleTo(g, u) == tag[g].state = "shared" \/ (tag[g].state = "private" /\ tag[g].by = u)

\* LockMessageTag: FOR UPDATE, which the foreign-key check of an application waits for.
TagFree(g) == tag[g].counting = NoOne

\* ApplyMessageTag: a live message, and nothing where the tag is already on it.
InsertApplication(g, m, u) ==
  /\ m \in present /\ applied[g][m] = NoOne
  /\ applied' = [applied EXCEPT ![g][m] = u]

ApplyTag(g, m, u) ==
  /\ TagVisibleTo(g, u) /\ TagFree(g) /\ InsertApplication(g, m, u)
  /\ UNCHANGED <<present, tag, uncounted, report>>

\* By whoever applied it, or by a moderator.
UnapplyTag(g, m) ==
  /\ applied[g][m] # NoOne /\ m \in present
  /\ applied' = [applied EXCEPT ![g][m] = NoOne]
  /\ UNCHANGED <<present, tag, uncounted, report>>

OthersApplied(g, u) == Cardinality({m \in Targeted : applied[g][m] \notin {u, NoOne}})

\* Deleting a shared tag counts, under the lock, what it will take from others ...
CountForDelete(g, u) ==
  /\ tag[g].state = "shared" /\ tag[g].counting = NoOne
  /\ tag' = [tag EXCEPT ![g].counting = u, ![g].counted = OthersApplied(g, u)]
  /\ UNCHANGED <<present, applied, uncounted, report>>

\* ... and the audit entry says that number; the applications go with the tag.
DeleteTag(g) ==
  LET u == IF tag[g].state = "private" THEN tag[g].by ELSE tag[g].counting IN
  /\ tag[g].state = "private" \/ tag[g].counting # NoOne
  /\ LET others == OthersApplied(g, u)
     IN  uncounted' = uncounted + (IF others > tag[g].counted THEN others - tag[g].counted ELSE 0)
  /\ tag' = [tag EXCEPT ![g] = NoTag]
  /\ applied' = [applied EXCEPT ![g] = [m \in Targeted |-> NoOne]]
  /\ UNCHANGED <<present, report>>

-------------------------------------------------------------------------------
(* Reports: one open report per reporter and message, closed once. *)

\* reports_open_target_per_reporter_idx, which the insert meets.
DuplicateOpenReport(u, m) ==
  \E s \in Reports : report[s].by = u /\ report[s].message = m /\ report[s].status = "open"

FileReport(r, u, m) ==
  /\ report[r].status = "none" /\ m \in Targeted /\ ~DuplicateOpenReport(u, m)
  /\ report' = [report EXCEPT ![r] = [by |-> u, message |-> m, status |-> "open", closings |-> 0]]
  /\ UNCHANGED <<present, tagVars>>

\* A ResolveReport whose statement does not ask for an open report.
ResolveReportAgain(r, outcome) ==
  /\ report[r].status # "none"
  /\ report' = [report EXCEPT ![r].status = outcome, ![r].closings = @ + 1]
  /\ UNCHANGED <<present, tagVars>>

\* ResolveReport: WHERE status = open; the audit entry is in the same transaction.
ResolveReport(r, outcome) ==
  /\ report[r].status = "open"
  /\ report' = [report EXCEPT ![r].status = outcome, ![r].closings = @ + 1]
  /\ UNCHANGED <<present, tagVars>>

-------------------------------------------------------------------------------
ModerationNext ==
  \/ \E m \in Targeted : SoftDelete(m)
  \/ \E g \in Tags, u \in Users :
       \/ \E shared \in BOOLEAN : CreateTag(g, u, shared)
       \/ CountForDelete(g, u)
       \/ \E m \in Targeted : ApplyTag(g, m, u)
  \/ \E g \in Tags : DeleteTag(g) \/ \E m \in Targeted : UnapplyTag(g, m)
  \/ \E r \in Reports :
       \/ \E u \in Users, m \in Targeted : FileReport(r, u, m)
       \/ \E outcome \in {"resolved", "dismissed"} : ResolveReport(r, outcome)

ModerationSpec == ModerationInit /\ [][ModerationNext]_moderationVars

-------------------------------------------------------------------------------
(* Properties. *)

\* Deleting a shared tag owns up to everything it took from others: no application commits
\* between the count the audit entry states and the deletion.
TagRemovalsCounted == uncounted = 0
===============================================================================
