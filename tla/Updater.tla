-------------------------------- MODULE Updater --------------------------------
(***************************************************************************)
(* The daemon's updater: choosing and staging a release, replacing the     *)
(* three installed programs one after the other, the trial of the version  *)
(* installed, and putting the previous one back. The machine may be        *)
(* switched off between any two steps. A version is a number, 0 an absent  *)
(* program; only the worker may be absent.                                 *)
(***************************************************************************)
EXTENDS Naturals, Sequences, FiniteSets, FiniteSetsExt

CONSTANTS
  MaxVersion,        \* the releases are 2..MaxVersion, and 1 is installed
  Workerless,        \* the versions whose install has no worker
  unconfirmedStarts, maxDownloads,
  MaxRuns            \* how often the daemon starts

\* Every release brings all three programs; what was installed first may lack the worker.
ASSUME UpdaterAssumption ==
  /\ MaxVersion \in Nat \ {0} /\ Workerless \subseteq {1}
  /\ unconfirmedStarts \in Nat \ {0} /\ maxDownloads \in Nat \ {0} /\ MaxRuns \in Nat

VARIABLES
  program,    \* what is installed, by program
  previous,   \* the programs set aside, by program; empty when there are none
  pending,    \* the record's Pending, and its list of bad versions
  bad,
  stage,      \* where the daemon is
  step,       \* the program Install or restore is at
  running,    \* the version of the daemon running
  traceback,  \* the run before left one
  staged,     \* the release downloaded and verified, or 0
  dropped, failures,  \* Updater.dropped and Updater.failures
  wanted,     \* somebody asked for the release that is staged
  mode,       \* auto, notify or off
  runs,       \* starts so far
  torn        \* history: a rollback was cut short

updaterVars == <<program, previous, pending, bad, stage, step, running, traceback, staged, wanted,
                 dropped, failures, mode, runs, torn>>
recordVars == <<pending, bad>>
chosenVars == <<staged, wanted, dropped, failures, mode>>

Versions == 1..MaxVersion

\* Mutant: the daemon is replaced first.
programsDaemonFirst == <<"daemon", "worker", "cli">>

\* In the order they are replaced and restored.
programs == <<"cli", "worker", "daemon">>
Programs == {"cli", "worker", "daemon"}
Nothing == [p \in {} |-> 0]
NoPending == [from |-> 0, to |-> 0, phase |-> "none", starts |-> 0]

\* Version v installed whole.
Whole(v) == [p \in Programs |-> IF p = "worker" /\ v \in Workerless THEN 0 ELSE v]

UpdaterInit ==
  /\ program = Whole(1) /\ previous = Nothing /\ pending = NoPending /\ bad = {}
  /\ stage = "off" /\ step = 1 /\ running = 0 /\ traceback = FALSE
  /\ staged = 0 /\ wanted = FALSE /\ dropped = {} /\ failures = [v \in Versions |-> 0] /\ mode = "auto"
  /\ runs = 0 /\ torn = FALSE

-----------------------------------------------------------------------------
(* Installer.AtStart.                                                      *)

\* The daemon starts: captureCrashes sets the traceback aside, and AtStart reads it.
StartDaemon ==
  /\ stage = "off" /\ runs < MaxRuns /\ runs' = runs + 1
  /\ running' = program["daemon"] /\ stage' = "atStart"
  /\ staged' = 0 /\ wanted' = FALSE /\ dropped' = {} /\ failures' = [v \in Versions |-> 0]
  /\ UNCHANGED <<program, previous, recordVars, step, traceback, mode, torn>>

Undoing == pending.phase = "applied" /\ running = pending.to
           /\ ((traceback /\ pending.starts >= 1) \/ pending.starts >= unconfirmedStarts)

\* Nothing pending, or what is pending is not the installation on disk.
StartUnconcerned ==
  /\ stage = "atStart"
  /\ \/ pending.phase = "none"
     \/ pending.phase = "swapping" /\ running \notin {pending.from, pending.to}
     \/ pending.phase = "applied" /\ running # pending.to
  /\ bad' = IF pending.phase = "applied" /\ running = pending.from THEN bad \cup {pending.to} ELSE bad
  /\ pending' = NoPending /\ previous' = IF pending.phase = "none" THEN previous ELSE Nothing
  /\ stage' = "run" /\ traceback' = FALSE
  /\ UNCHANGED <<program, step, running, chosenVars, runs, torn>>

\* The new version, on trial: this start is counted.
StartCounted ==
  /\ stage = "atStart" /\ running = pending.to /\ pending.phase # "none" /\ ~Undoing
  /\ pending' = IF pending.phase = "swapping" THEN [pending EXCEPT !.phase = "applied", !.starts = 1]
                ELSE [pending EXCEPT !.starts = @ + 1]
  /\ stage' = "run" /\ traceback' = FALSE
  /\ UNCHANGED <<program, previous, bad, step, running, chosenVars, runs, torn>>

\* An interrupted installation, or a version that did not stay up: restore begins.
StartRestoring ==
  /\ stage = "atStart"
  /\ Undoing \/ (pending.phase = "swapping" /\ running = pending.from)
  /\ stage' = "restore" /\ step' = 1 /\ traceback' = FALSE
  /\ UNCHANGED <<program, previous, recordVars, running, chosenVars, runs, torn>>

\* One program of restore. A worker that was not kept is removed; nothing else may be missing.
RestoreProgram ==
  /\ stage \in {"restore", "putBack"} /\ step <= Len(programs)
  /\ LET p == programs[step]
     IN  /\ p \in DOMAIN previous \cup {"worker"}
         /\ program' = [program EXCEPT ![p] = IF p \in DOMAIN previous THEN previous[p] ELSE 0]
  /\ step' = step + 1
  /\ UNCHANGED <<previous, recordVars, stage, running, traceback, chosenVars, runs, torn>>

\* The pair kept is gone: the version running keeps running, and the record as it was.
RestoreFails ==
  /\ stage = "restore" /\ step = 1 /\ previous = Nothing /\ stage' = "run"
  /\ UNCHANGED <<program, previous, recordVars, step, running, traceback, chosenVars, runs, torn>>

\* An installation undone: the kept pair goes, then the record.
DropKept ==
  /\ stage = "restore" /\ step > Len(programs) /\ pending.phase = "swapping"
  /\ previous' = Nothing /\ stage' = "settle"
  /\ UNCHANGED <<program, recordVars, step, running, traceback, chosenVars, runs, torn>>

Settle ==
  /\ stage = "settle" /\ pending' = NoPending /\ stage' = "run"
  /\ UNCHANGED <<program, previous, bad, step, running, traceback, chosenVars, runs, torn>>

\* A rollback: the record first, then the kept pair; the process starts again as what it restored.
RecordRollback ==
  /\ stage = "restore" /\ step > Len(programs) /\ pending.phase = "applied"
  /\ bad' = bad \cup {pending.to} /\ pending' = NoPending /\ stage' = "undone"
  /\ UNCHANGED <<program, previous, step, running, traceback, chosenVars, runs, torn>>

DropUndone ==
  /\ stage = "undone" /\ previous' = Nothing /\ stage' = "off"
  /\ UNCHANGED <<program, recordVars, step, running, traceback, chosenVars, runs, torn>>

-----------------------------------------------------------------------------
(* Updater.Run, Apply and Finish.                                          *)

OnTrial == pending.phase = "applied" /\ pending.to = running

\* check: the record's bad versions, and the ones this run gave up on, are passed over.
PassedOver == bad \cup dropped

\* Choose: the newest of what is offered that is neither older nor passed over.
Choose(offered) ==
  LET fit == {v \in offered : v > running /\ v \notin PassedOver}
  IN  IF fit = {} THEN {} ELSE {Max(fit)}

\* turn goes ahead by itself in auto alone.
Stages(asked) == stage = "run" /\ staged = 0 /\ ~OnTrial /\ (mode = "auto" \/ asked)

\* Apply, of a release a turn has staged already.
ApplyStaged ==
  /\ stage = "run" /\ staged # 0 /\ ~OnTrial /\ ~wanted /\ wanted' = TRUE
  /\ UNCHANGED <<program, previous, recordVars, stage, step, running, traceback, staged, dropped, failures,
                 mode, runs, torn>>

\* turn, and Apply when it is asked for: a release is staged, unless the version running is on
\* trial. What the instance's version and the channel leave of the listing is the offer.
StageRelease(offered, asked) ==
  /\ Stages(asked) /\ wanted' = asked
  /\ \E v \in Choose(offered) : staged' = v
  /\ UNCHANGED <<program, previous, recordVars, stage, step, running, traceback, dropped, failures, mode,
                 runs, torn>>

\* stage fails: a download is given maxDownloads tries, and anything else one (strike).
StageFails(offered, asked, downloading) ==
  /\ Stages(asked)
  /\ \E v \in Choose(offered) :
       /\ failures' = [failures EXCEPT ![v] = IF downloading THEN @ + 1 ELSE @]
       /\ dropped' = IF downloading /\ failures[v] + 1 < maxDownloads THEN dropped ELSE dropped \cup {v}
  /\ UNCHANGED <<program, previous, recordVars, stage, step, running, traceback, staged, wanted, mode, runs,
                 torn>>

SetMode(m) ==
  /\ stage = "run" /\ mode' = m
  /\ UNCHANGED <<program, previous, recordVars, stage, step, running, traceback, staged, wanted, dropped,
                 failures, runs, torn>>

\* turn, told to ask first: what was staged unasked is let go.
LetGo ==
  /\ stage = "run" /\ staged # 0 /\ ~wanted /\ mode # "auto" /\ staged' = 0
  /\ UNCHANGED <<program, previous, recordVars, stage, step, running, traceback, wanted, dropped, failures,
                 mode, runs, torn>>

\* Confirm, once the version has stayed up: the kept pair goes, then the record.
Confirm ==
  /\ stage = "run" /\ pending.phase = "applied" /\ previous' = Nothing /\ stage' = "confirm"
  /\ UNCHANGED <<program, recordVars, step, running, traceback, chosenVars, runs, torn>>

Confirmed ==
  /\ stage = "confirm" /\ pending' = NoPending /\ stage' = "run"
  /\ UNCHANGED <<program, previous, bad, step, running, traceback, chosenVars, runs, torn>>

\* Finish with nothing to install: CleanExit takes the start's count back.
CleanExit ==
  /\ stage = "run" /\ stage' = "off"
  /\ pending' = IF pending.phase = "applied" /\ pending.starts > 0
                THEN [pending EXCEPT !.starts = @ - 1] ELSE pending
  /\ UNCHANGED <<program, previous, bad, step, running, traceback, chosenVars, runs, torn>>

\* begin, and Finish behind it: what is staged is installed as the daemon goes down.
Applying == stage = "run" /\ staged # 0 /\ (wanted \/ mode = "auto")

\* Install: the current programs are kept whole, beside what was kept, and take its place.
KeepCurrent ==
  /\ Applying
  /\ previous' = [p \in {q \in Programs : program[q] # 0} |-> program[p]]
  /\ stage' = "keep"
  /\ UNCHANGED <<program, recordVars, step, running, traceback, chosenVars, runs, torn>>

RecordSwapping ==
  /\ stage = "keep" /\ stage' = "swap" /\ step' = 1
  /\ pending' = [from |-> running, to |-> staged, phase |-> "swapping", starts |-> 0]
  /\ UNCHANGED <<program, previous, bad, running, traceback, chosenVars, runs, torn>>

ReplaceProgram ==
  /\ stage = "swap" /\ step <= Len(programs)
  /\ program' = [program EXCEPT ![programs[step]] = staged] /\ step' = step + 1
  /\ UNCHANGED <<previous, recordVars, stage, running, traceback, chosenVars, runs, torn>>

\* A program that cannot be replaced: what was replaced is put back.
ReplaceFails ==
  /\ stage = "swap" /\ step <= Len(programs) /\ stage' = "putBack" /\ step' = 1
  /\ UNCHANGED <<program, previous, recordVars, running, traceback, chosenVars, runs, torn>>

\* Put back: nothing is pending any more, and the version that was running starts again.
PutBack ==
  /\ stage = "putBack" /\ step > Len(programs) /\ pending' = NoPending /\ stage' = "off"
  /\ UNCHANGED <<program, previous, bad, step, running, traceback, chosenVars, runs, torn>>

RecordApplied ==
  /\ stage = "swap" /\ step > Len(programs) /\ stage' = "off"
  /\ pending' = [pending EXCEPT !.phase = "applied"]
  /\ UNCHANGED <<program, previous, bad, step, running, traceback, chosenVars, runs, torn>>

\* The process dies of itself, leaving a traceback, or is killed or switched off, leaving none.
Die(left) ==
  /\ stage # "off" /\ stage' = "off" /\ traceback' = left
  /\ torn' = (torn \/ (stage = "restore" /\ pending.phase = "applied"))
  /\ UNCHANGED <<program, previous, recordVars, step, running, chosenVars, runs>>

UpdaterNext ==
  \/ StartDaemon \/ StartUnconcerned \/ StartCounted \/ StartRestoring
  \/ RestoreProgram \/ RestoreFails \/ DropKept \/ Settle \/ RecordRollback \/ DropUndone
  \/ \E offered \in SUBSET Versions, asked \in BOOLEAN :
       \/ StageRelease(offered, asked)
       \/ \E downloading \in BOOLEAN : StageFails(offered, asked, downloading)
  \/ \E m \in {"auto", "notify", "off"} : SetMode(m)
  \/ LetGo \/ ApplyStaged
  \/ Confirm \/ Confirmed \/ CleanExit
  \/ KeepCurrent \/ RecordSwapping \/ ReplaceProgram \/ ReplaceFails \/ PutBack \/ RecordApplied
  \/ \E left \in BOOLEAN : Die(left)

UpdaterSpec == UpdaterInit /\ [][UpdaterNext]_updaterVars

-----------------------------------------------------------------------------
UpdaterTypeOK ==
  /\ program \in [Programs -> 0..MaxVersion] /\ DOMAIN previous \subseteq Programs
  /\ pending \in [from : 0..MaxVersion, to : 0..MaxVersion, phase : {"none", "swapping", "applied"},
                  starts : 0..unconfirmedStarts]
  /\ bad \subseteq Versions /\ dropped \subseteq Versions
  /\ stage \in {"off", "atStart", "restore", "settle", "undone", "run", "confirm", "keep", "swap", "putBack"}
  /\ step \in 1..4 /\ running \in 0..MaxVersion /\ traceback \in BOOLEAN
  /\ staged \in 0..MaxVersion /\ wanted \in BOOLEAN /\ failures \in [Versions -> 0..maxDownloads]
  /\ mode \in {"auto", "notify", "off"} /\ runs \in 0..MaxRuns /\ torn \in BOOLEAN

\* Whatever the machine was switched off in the middle of, a daemon past its start runs in an
\* installation that is whole: all programs of its version. Of a rollback cut short this is not
\* said (Install, AtStart, restore, install.go:205-371).
InstalledWhole == stage \in {"run", "confirm"} /\ ~torn => program = Whole(running)

\* "a start that finds the new daemon knows the others are new too" (install.go:101-102).
NewDaemonNewPrograms ==
  stage = "run" /\ pending.phase = "applied" /\ running = pending.to => program = Whole(running)
=============================================================================
