----------------------------- MODULE ConfigFiles -----------------------------
(***************************************************************************)
(* The settings of a machine: one file both clients read, or, while the    *)
(* config is split, one file each. `norite config set`, `unset` and        *)
(* `import` rewrite the file a client reads, under that file's lock; the   *)
(* daemon's toggle splits and merges the files, holding the locks of the   *)
(* files nobody is to write; a person's editor takes no lock. The daemon   *)
(* watches the files and tells the clients to read theirs again. A file is *)
(* one value for each of its three sections: the shared one and each       *)
(* client's. Wording, formatting and comments are left out.                *)
(***************************************************************************)
EXTENDS Naturals, FiniteSets

CONSTANTS
  SettingValues, Unset,  \* what a section may hold, and nothing
  maxAttempts,           \* times a write is begun again
  toggleAttempts,        \* and a toggle
  maxBackups,            \* copies of one file set aside
  MaxSets, MaxSaves, MaxToggles  \* BOUNDS: writes, an editor's saves, toggles

ConfigClients == {"tui", "gui"}
Sections == ConfigClients \cup {"shared"}
Files == Sections              \* config.toml is "shared"
Settings == SettingValues \cup {Unset}
Contents == [Sections -> Settings]
Empty == [s \in Sections |-> Unset]

ASSUME ConfigAssumption ==
  /\ Unset \notin SettingValues /\ {maxAttempts, toggleAttempts, maxBackups} \subseteq Nat \ {0}
  /\ {MaxSets, MaxSaves, MaxToggles} \subseteq Nat

VARIABLES
  there,       \* the files that exist
  contents,    \* file -> its sections
  newest,      \* the client file written last
  split,       \* the state file's toggle
  fileLock,    \* file -> who holds its lock
  writer,      \* client -> the command writing for it
  toggle,      \* the daemon's request
  backups,     \* file -> copies set aside
  settling,    \* the watch saw an event it has not passed on
  view,        \* client -> what it last read
  want,        \* client -> the last value commands wrote for its own section
  budget       \* the bounds left

configVars ==
  <<there, contents, newest, split, fileLock, writer, toggle, backups, settling, view, want, budget>>

NoJob == [at |-> "none", kind |-> "set", section |-> "shared", value |-> Unset, path |-> "shared",
          read |-> Empty, tries |-> 0]
NoToggle == [at |-> "none", way |-> "split", read |-> [f \in Files |-> Empty], ours |-> {}, tries |-> 0]

\* The file a client reads right now, and what it finds there.
PathFor(c) == IF split THEN c ELSE "shared"
Found(f) == IF f \in there THEN contents[f] ELSE Empty
ReadFor(c) == [s \in {"shared", c} |-> Found(PathFor(c))[s]]

ConfigTypeOK ==
  /\ there \subseteq Files /\ contents \in [Files -> Contents] /\ newest \in ConfigClients
  /\ split \in BOOLEAN /\ settling \in BOOLEAN
  /\ fileLock \in [Files -> {"free", "tui", "gui", "toggle"}]
  /\ writer \in [ConfigClients -> [at : {"none", "lock", "read", "write", "rename"}, kind : {"set", "import", "over"},
                             section : Sections, value : Settings, path : Files, read : Contents,
                             tries : 0 .. maxAttempts]]
  /\ toggle \in [at : {"none", "lock", "read", "tui", "gui", "merge", "check", "commit", "aside", "announce"},
                 way : {"split", "unsplit"}, read : [Files -> Contents], ours : SUBSET ConfigClients,
                 tries : 0 .. toggleAttempts]
  /\ backups \in [Files -> 0 .. maxBackups]
  /\ \A c \in ConfigClients : view[c] \in [{"shared", c} -> Settings] /\ want[c] \in Settings
  /\ budget \in [sets : 0 .. MaxSets, saves : 0 .. MaxSaves, toggles : 0 .. MaxToggles]

ConfigInit ==
  /\ there = {} /\ contents = [f \in Files |-> Empty] /\ newest = "tui"
  /\ split = FALSE /\ fileLock = [f \in Files |-> "free"]
  /\ writer = [c \in ConfigClients |-> NoJob] /\ toggle = NoToggle
  /\ backups = [f \in Files |-> 0]
  /\ settling = FALSE
  /\ view = [c \in ConfigClients |-> [s \in {"shared", c} |-> Unset]]
  /\ want = [c \in ConfigClients |-> Unset]
  /\ budget = [sets |-> MaxSets, saves |-> MaxSaves, toggles |-> MaxToggles]

----------------------------------------------------------------------------
(* A file replaced whole, by a rename; the watch sees it. *)

\* As a watch on config.toml alone would.
WatchedShared == {"shared"}

\* The files whose events are passed on.
Watched == Files

Replace(f, data) ==
  /\ contents' = [contents EXCEPT ![f] = data]
  /\ there' = there \cup {f}
  /\ newest' = IF f \in ConfigClients THEN f ELSE newest
  /\ settling' = (settling \/ f \in Watched)

Untouched == UNCHANGED <<there, contents, newest, settling>>

\* A person saves a file from an editor, which takes no lock; only the shared section, so that what
\* a command set for a client is the command's alone.
EditorSaves(f, v) ==
  /\ budget.saves > 0 /\ (f \in there \/ f = "shared")
  /\ Replace(f, [Found(f) EXCEPT !["shared"] = v])
  /\ budget' = [budget EXCEPT !.saves = @ - 1]
  /\ UNCHANGED <<split, fileLock, writer, toggle, backups, view, want>>

----------------------------------------------------------------------------
(* The commands. *)

Job(c, j) == writer' = [writer EXCEPT ![c] = j]
OnlyWriter == UNCHANGED <<split, toggle, backups, view, budget>>

\* A command resolves its key, and the file: while split only the client's own sections.
BeginWriting(c, kind, s, v) ==
  /\ writer[c].at = "none" /\ budget.sets > 0
  /\ split => s \in {"shared", c}
  /\ kind # "set" => v # Unset
  /\ Job(c, [NoJob EXCEPT !.at = "lock", !.kind = kind, !.section = s, !.value = v, !.path = PathFor(c)])
  /\ budget' = [budget EXCEPT !.sets = @ - 1]
  /\ Untouched /\ UNCHANGED <<split, fileLock, toggle, backups, view, want>>

LockFile(c) ==
  /\ writer[c].at = "lock" /\ fileLock[writer[c].path] = "free"
  /\ fileLock' = [fileLock EXCEPT ![writer[c].path] = c]
  /\ Job(c, [writer[c] EXCEPT !.at = "read"])
  /\ Untouched /\ OnlyWriter /\ UNCHANGED want

\* Held too long by another: the command fails.
Locked(c) ==
  /\ writer[c].at = "lock" /\ fileLock[writer[c].path] # "free"
  /\ Job(c, NoJob)
  /\ Untouched /\ OnlyWriter /\ UNCHANGED <<fileLock, want>>

Unlock(c) == fileLock' = [fileLock EXCEPT ![writer[c].path] = "free"]

\* The toggle moved while the write waited for its lock.
Moved(c) == PathFor(c) # writer[c].path

\* The write begins again, on the file now read, so often.
StartAgain(c) ==
  /\ writer[c].at = "read" /\ Moved(c)
  /\ Unlock(c)
  /\ Job(c, IF writer[c].tries + 1 = maxAttempts THEN NoJob
            ELSE [writer[c] EXCEPT !.at = "lock", !.path = PathFor(c), !.tries = @ + 1])
  /\ Untouched /\ OnlyWriter /\ UNCHANGED want

\* The file with the edit: a set replaces, an import adds what is missing unless told to overwrite, and
\* into a client's own file it brings no section of the other's.
Edited(c, current) ==
  LET s == writer[c].section
      mine == s \in {"shared", c} \/ writer[c].path = "shared"
      adds == writer[c].kind = "over" \/ current[s] = Unset
  IN IF writer[c].kind = "set" \/ (mine /\ adds)
       THEN [current EXCEPT ![s] = writer[c].value] ELSE current

\* The file is read. An edit that changes nothing writes nothing.
Snapshot(c) ==
  /\ writer[c].at = "read" /\ ~Moved(c)
  /\ LET current == Found(writer[c].path)
     IN IF Edited(c, current) = current
          THEN Job(c, NoJob) /\ Unlock(c)
          ELSE Job(c, [writer[c] EXCEPT !.at = "write", !.read = current]) /\ UNCHANGED fileLock
  /\ Untouched /\ OnlyWriter /\ UNCHANGED want

\* Just before the rename the file is read again: a person's save sends the write back to it.
BeforeRename(c) ==
  /\ writer[c].at = "write"
  /\ IF Found(writer[c].path) = writer[c].read
       THEN Job(c, [writer[c] EXCEPT !.at = "rename"]) /\ UNCHANGED fileLock
       ELSE IF writer[c].tries + 1 = maxAttempts
         THEN Job(c, NoJob) /\ Unlock(c)
         ELSE Job(c, [writer[c] EXCEPT !.at = "read", !.tries = @ + 1]) /\ UNCHANGED fileLock
  /\ Untouched /\ OnlyWriter /\ UNCHANGED want

\* A command wrote d's own section for d: through d's client, or in the file both read.
WroteFor(c, d) == writer[c].section = d /\ (c = d \/ writer[c].path = "shared")

Rename(c) ==
  /\ writer[c].at = "rename"
  /\ Replace(writer[c].path, Edited(c, writer[c].read))
  /\ want' = [d \in ConfigClients |-> IF WroteFor(c, d) THEN writer[c].value ELSE want[d]]
  /\ Unlock(c)
  /\ Job(c, NoJob)
  /\ OnlyWriter

----------------------------------------------------------------------------
(* The toggle. *)

ToggleTo(at) == toggle' = [toggle EXCEPT !.at = at]
OnlyToggle == UNCHANGED <<writer, view, want, budget>>
Holds == [f \in Files |-> IF fileLock[f] = "toggle" THEN "free" ELSE fileLock[f]]
GiveUp == toggle' = NoToggle /\ fileLock' = Holds

\* Refused where it already is.
ToggleBegin(way) ==
  /\ toggle.at = "none" /\ budget.toggles > 0
  /\ split = (way = "unsplit")
  /\ toggle' = [NoToggle EXCEPT !.at = "lock", !.way = way]
  /\ budget' = [budget EXCEPT !.toggles = @ - 1]
  /\ Untouched /\ UNCHANGED <<split, fileLock, writer, backups, view, want>>

ToggleFiles == IF toggle.way = "split" THEN {"shared"} ELSE ConfigClients

\* The locks of the files about to be read, one after the other.
ToggleLock(f) ==
  /\ toggle.at = "lock" /\ f \in ToggleFiles /\ fileLock[f] = "free"
  /\ f = "gui" => fileLock["tui"] = "toggle"
  /\ fileLock' = [fileLock EXCEPT ![f] = "toggle"]
  /\ Untouched /\ OnlyToggle /\ UNCHANGED <<split, toggle, backups>>

\* A lock held too long by a command: refused.
ToggleLocked ==
  /\ \/ toggle.at = "lock" /\ \E f \in ToggleFiles : fileLock[f] \notin {"free", "toggle"}
     \/ toggle.at = "merge" /\ fileLock["shared"] # "free"
  /\ GiveUp /\ Untouched /\ OnlyToggle /\ UNCHANGED <<split, backups>>

\* A name for every copy to be set aside, chosen before anything is changed.
FreeBackup == \A f \in Files : backups[f] < maxBackups

ToggleReady ==
  /\ toggle.at = "lock" /\ \A f \in ToggleFiles : fileLock[f] = "toggle"
  /\ IF toggle.way = "unsplit" /\ ~FreeBackup THEN GiveUp ELSE ToggleTo("read") /\ UNCHANGED fileLock
  /\ Untouched /\ OnlyToggle /\ UNCHANGED <<split, backups>>

\* The files are read. With neither client's file there is nothing to merge.
ToggleRead ==
  /\ toggle.at = "read"
  /\ toggle' = [toggle EXCEPT !.read = [f \in Files |-> Found(f)],
                              !.at = IF toggle.way = "split" THEN "tui"
                                     ELSE IF there \cap ConfigClients = {} THEN "commit" ELSE "merge"]
  /\ Untouched /\ OnlyToggle /\ UNCHANGED <<split, fileLock, backups>>

\* A file already there that is not this copy is somebody's: the split is refused.
SplitCopy(c) ==
  /\ toggle.at = c
  /\ LET next == IF c = "tui" THEN "gui" ELSE "check"
         foreign == c \in there /\ c \notin toggle.ours
     IN IF foreign
          THEN /\ IF contents[c] = toggle.read["shared"] THEN ToggleTo(next) /\ UNCHANGED fileLock ELSE GiveUp
               /\ Untouched
          ELSE /\ Replace(c, toggle.read["shared"])
               /\ toggle' = [toggle EXCEPT !.at = next, !.ours = @ \cup {c}]
               /\ UNCHANGED fileLock
  /\ OnlyToggle /\ UNCHANGED <<split, backups>>

\* The more recently written of the two, or the only one.
Base == IF there \cap ConfigClients = {newest} \/ newest \in there THEN newest
        ELSE CHOOSE c \in ConfigClients : c # newest
Other(c) == CHOOSE d \in ConfigClients : d # c

\* Each client's section is its own file's; a shared key is the base's, or the other's where it has none.
MergeClients(read, base) ==
  [s \in Sections |->
     IF s \in ConfigClients THEN read[s][s]
     ELSE IF read[base]["shared"] # Unset THEN read[base]["shared"] ELSE read[Other(base)]["shared"]]

\* The merge is written to config.toml under its own lock; what was there is set aside.
UnsplitWrite ==
  /\ toggle.at = "merge" /\ fileLock["shared"] = "free"
  /\ LET merged == MergeClients(toggle.read, Base)
     IN /\ Replace("shared", merged)
        /\ backups' = [backups EXCEPT !["shared"] =
                         IF "shared" \in there /\ contents["shared"] \notin {Empty, merged} /\ @ < maxBackups
                         THEN @ + 1 ELSE @]
  /\ ToggleTo("check")
  /\ OnlyToggle /\ UNCHANGED <<split, fileLock>>

\* Read again: a person's save sends the toggle back, so often.
ToggleCheck ==
  /\ toggle.at = "check"
  /\ LET same == \A f \in ToggleFiles : Found(f) = toggle.read[f]
     IN IF same THEN ToggleTo("commit") /\ UNCHANGED fileLock
        ELSE IF toggle.tries + 1 = toggleAttempts THEN GiveUp
        ELSE /\ toggle' = [toggle EXCEPT !.at = "read", !.tries = @ + 1]
             /\ UNCHANGED fileLock
  /\ Untouched /\ OnlyToggle /\ UNCHANGED <<split, backups>>

\* The state file says who reads what from now on.
ToggleCommit ==
  /\ toggle.at = "commit"
  /\ split' = (toggle.way = "split")
  /\ ToggleTo(IF toggle.way = "split" THEN "announce" ELSE "aside")
  /\ Untouched /\ OnlyToggle /\ UNCHANGED <<fileLock, backups>>

\* With the state written, the clients' files are moved aside; a move may fail, and the file stays.
SetAside ==
  /\ toggle.at = "aside"
  /\ \E moved \in SUBSET (there \cap ConfigClients) :
       /\ there' = there \ moved
       /\ backups' = [f \in Files |-> IF f \in moved THEN backups[f] + 1 ELSE backups[f]]
       /\ settling' = (settling \/ moved \cap Watched # {})
  /\ ToggleTo("announce")
  /\ OnlyToggle /\ UNCHANGED <<contents, newest, split, fileLock>>

Reread == view' = [c \in ConfigClients |-> ReadFor(c)]

\* The locks go, and every client reads its config again.
Announce ==
  /\ toggle.at = "announce"
  /\ GiveUp /\ Reread
  /\ Untouched /\ UNCHANGED <<split, writer, backups, want, budget>>

\* The daemon dies: the kernel drops its locks, and a client that attaches anew reads its config.
DaemonDies ==
  /\ toggle.at # "none"
  /\ GiveUp /\ Reread
  /\ settling' = FALSE
  /\ UNCHANGED <<there, contents, newest, split, writer, backups, want, budget>>

----------------------------------------------------------------------------
\* A burst of events has settled: the clients are told.
WatchSettles ==
  /\ settling
  /\ settling' = FALSE /\ Reread
  /\ UNCHANGED <<there, contents, newest, split, fileLock, writer, toggle, backups, want, budget>>

WriterNext ==
  \E c \in ConfigClients :
    \/ \E kind \in {"set", "import", "over"}, s \in Sections, v \in Settings : BeginWriting(c, kind, s, v)
    \/ LockFile(c) \/ Locked(c) \/ StartAgain(c) \/ Snapshot(c) \/ BeforeRename(c) \/ Rename(c)

ToggleNext ==
  \/ \E way \in {"split", "unsplit"} : ToggleBegin(way)
  \/ \E f \in Files : ToggleLock(f)
  \/ ToggleLocked \/ ToggleReady \/ ToggleRead \/ (\E c \in ConfigClients : SplitCopy(c)) \/ UnsplitWrite
  \/ ToggleCheck \/ ToggleCommit \/ SetAside \/ Announce \/ DaemonDies

ConfigNext ==
  \/ WriterNext \/ ToggleNext \/ WatchSettles
  \/ \E f \in Files, v \in Settings : EditorSaves(f, v)

ConfigSpec == ConfigInit /\ [][ConfigNext]_configVars

----------------------------------------------------------------------------
\* What a command set for a client's own section is what that client reads, through splits, merges, an
\* editor's saves, a daemon that dies half way and commands that waited for a lock meanwhile.
SetIsRead == \A c \in ConfigClients : Found(PathFor(c))[c] = want[c]

\* A client that has not read its settings as they are is about to be told to.
StaleIsTold ==
  \A c \in ConfigClients : view[c] # ReadFor(c) => settling \/ toggle.at \in {"aside", "announce"}
=============================================================================
