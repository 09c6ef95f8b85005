------------------------------- MODULE Deploy -------------------------------
(***************************************************************************)
(* The update of the machine that serves nefix: the script                 *)
(* deploy/nefix-update, the unit deploy/nefix.service that keeps the       *)
(* process running, and the start of the process, which migrates the       *)
(* database before it listens (cmd/nefix/main.go, store/migrate.go).       *)
(*                                                                         *)
(* Release v brings the schema to v.  A release works, dies when it        *)
(* starts, or runs without ever answering.  The script can fail, be        *)
(* interrupted or be killed between any two of its commands, and the       *)
(* machine can lose power; systemd starts the process again whenever it    *)
(* is down.                                                                *)
(***************************************************************************)
EXTENDS Integers, Sequences, SequencesExt

CONSTANTS
  Newest,     \* bound: the releases are 1..Newest, and 1 is installed
  KeepNewest, \* KEEP
  MaxFaults   \* bound on crashes, kills, power cuts and failing commands

Releases == 1..Newest

ASSUME DeployAssumption ==
  Newest \in Nat \ {0} /\ KeepNewest \in Nat \ {0} /\ MaxFaults \in Nat

VARIABLES
  health,    \* what each release does when it is started; fixed
  latest,    \* the release GitHub calls the latest
  current,   \* the symlink $ROOT/current
  unpacked,  \* what is in $ROOT/releases
  order,     \* its directories, oldest first
  schema,    \* the newest migration recorded in the database
  backups,   \* what is in $ROOT/backups
  process,
  script,
  served,    \* history: releases that have answered
  unjudged,  \* history: releases linked when a run was cut off before its verdict
  torn,      \* history: releases in use when a run was cut off unpacking them
  faults

disk == <<unpacked, order, backups>>
cut  == <<unjudged, torn>>
deployVars == <<health, latest, current, disk, schema, process, script, served,
                cut, faults>>

Steps == {"idle", "fetch", "unpack", "unpacking", "link", "restart", "poll",
          "rollback", "restore", "prune"}

Backup  == [for : Releases, schema : Nat]
Process == [state : {"down", "starting", "up"}, release : Releases]
Script  == [step : Steps, target : Releases, old : Releases]

Resting == [step |-> "idle", target |-> 1, old |-> 1]

DeployTypeOK ==
  /\ health \in [Releases -> {"works", "dies", "mute"}]
  /\ latest \in Releases /\ current \in Releases
  /\ unpacked \in [Releases -> {"none", "partial", "whole"}]
  /\ order \in Seq(Releases) /\ IsInjective(order)
  /\ schema \in Nat
  /\ backups \subseteq Backup
  /\ process \in Process
  /\ script \in Script
  /\ served \subseteq Releases
  /\ unjudged \subseteq Releases /\ torn \subseteq Releases
  /\ faults \in 0..MaxFaults

\* Release 1 is installed and running.
DeployInit ==
  /\ health \in [Releases -> {"works", "dies", "mute"}]
  /\ health[1] = "works"
  /\ latest = 1 /\ current = 1
  /\ unpacked = [v \in Releases |-> IF v = 1 THEN "whole" ELSE "none"]
  /\ order = <<1>>
  /\ schema = 1
  /\ backups = {}
  /\ process = [state |-> "up", release |-> 1]
  /\ script = Resting
  /\ served = {1}
  /\ unjudged = {} /\ torn = {}
  /\ faults = 0

Answers(v) ==
  process.state = "up" /\ process.release = v /\ health[v] = "works"

Fault == faults < MaxFaults /\ faults' = faults + 1

-----------------------------------------------------------------------------
(* The process and systemd.                                                *)

\* Restart=on-failure: whatever the link names is started, if it is all there.
Boot ==
  /\ process.state = "down"
  /\ unpacked[current] = "whole"
  /\ process' = [state |-> "starting", release |-> current]
  /\ UNCHANGED <<health, latest, current, disk, schema, script, served, cut, faults>>

\* One migration and the row that records it, in one transaction.  Migrations
\* an older binary does not know are none of its business.
Migrate ==
  /\ process.state = "starting"
  /\ schema < process.release
  /\ schema' = schema + 1
  /\ UNCHANGED <<health, latest, current, disk, process, script, served, cut, faults>>

Listen ==
  /\ process.state = "starting"
  /\ schema >= process.release
  /\ health[process.release] # "dies"
  /\ process' = [process EXCEPT !.state = "up"]
  /\ served' = IF health[process.release] = "works"
               THEN served \cup {process.release} ELSE served
  /\ UNCHANGED <<health, latest, current, disk, schema, script, cut, faults>>

Dies ==
  /\ process.state = "starting"
  /\ health[process.release] = "dies"
  /\ process' = [process EXCEPT !.state = "down"]
  /\ UNCHANGED <<health, latest, current, disk, schema, script, served, cut, faults>>

Crash ==
  /\ Fault
  /\ process.state # "down"
  /\ process' = [process EXCEPT !.state = "down"]
  /\ UNCHANGED <<health, latest, current, disk, schema, script, served, cut>>

-----------------------------------------------------------------------------
(* The script.                                                             *)

Publish ==
  /\ latest < Newest
  /\ latest' = latest + 1
  /\ UNCHANGED <<health, current, disk, schema, process, script, served, cut, faults>>

\* The latest version answers: the script says so and exits.
UpToDate ==
  /\ script.step = "idle"
  /\ Answers(latest)
  /\ UNCHANGED deployVars

\* Another version answers, or none does.
Begin ==
  /\ script.step = "idle"
  /\ ~Answers(latest)
  /\ script' = [Resting EXCEPT !.step = "fetch", !.target = latest]
  /\ UNCHANGED <<health, latest, current, disk, schema, process, served, cut, faults>>

\* No asset, no confirmation, a failed download or checksum, a failed backup.
Abandon ==
  /\ script.step = "fetch"
  /\ script' = Resting
  /\ UNCHANGED <<health, latest, current, disk, schema, process, served, cut, faults>>

\* Mutant: the database of a service that does not answer is not saved.
SaveWhileServing ==
  /\ script.step = "fetch"
  /\ backups' = IF \E v \in Releases : Answers(v)
                THEN backups \cup {[for |-> script.target, schema |-> schema]}
                ELSE backups
  /\ script' = [script EXCEPT !.step = "unpack"]
  /\ UNCHANGED <<health, latest, current, unpacked, order, schema, process, served, cut, faults>>

\* Verified, confirmed, and the database copied as it is now.
Save ==
  /\ script.step = "fetch"
  /\ backups' = backups \cup {[for |-> script.target, schema |-> schema]}
  /\ script' = [script EXCEPT !.step = "unpack"]
  /\ UNCHANGED <<health, latest, current, unpacked, order, schema, process, served, cut, faults>>

\* Mutant: a directory unpacked twice counts twice.
UnpackAnew ==
  /\ script.step = "unpack"
  /\ unpacked' = [unpacked EXCEPT ![script.target] = "partial"]
  /\ order' = Append(order, script.target)
  /\ script' = [script EXCEPT !.step = "unpacking"]
  /\ UNCHANGED <<health, latest, current, backups, schema, process, served, cut, faults>>

\* The other directories, in the order of their times.
Without(v) ==
  IF v \in ToSet(order)
  THEN RemoveAt(order, CHOOSE n \in DOMAIN order : order[n] = v)
  ELSE order

\* tar over the release's own directory, which may be the one in use.
Unpack ==
  /\ script.step = "unpack"
  /\ unpacked' = [unpacked EXCEPT ![script.target] = "partial"]
  /\ order' = Append(Without(script.target), script.target)
  /\ script' = [script EXCEPT !.step = "unpacking"]
  /\ UNCHANGED <<health, latest, current, backups, schema, process, served, cut, faults>>

Unpacked ==
  /\ script.step = "unpacking"
  /\ unpacked' = [unpacked EXCEPT ![script.target] = "whole"]
  /\ torn' = torn \ {script.target}
  /\ script' = [script EXCEPT !.step = "link", !.old = current]
  /\ UNCHANGED <<health, latest, current, order, backups, schema, process, served,
                 unjudged, faults>>

\* old_target is what the link named, whether or not it ever worked.
Link ==
  /\ script.step = "link"
  /\ current' = script.target
  /\ script' = [script EXCEPT !.step = "restart"]
  /\ UNCHANGED <<health, latest, disk, schema, process, served, cut, faults>>

RestartService ==
  /\ script.step = "restart"
  /\ process' = [process EXCEPT !.state = "down"]
  /\ script' = [script EXCEPT !.step = "poll"]
  /\ UNCHANGED <<health, latest, current, disk, schema, served, cut, faults>>

\* Mutant: a release that does not come up is reported and left in place.
VerdictWithoutRollback ==
  /\ script.step = "poll"
  /\ script' = IF Answers(script.target) THEN [script EXCEPT !.step = "prune"]
               ELSE Resting
  /\ UNCHANGED <<health, latest, current, disk, schema, process, served, cut, faults>>

\* The wait ends with the new version answering, with a unit that is not
\* active, or with the timeout, which may come at any moment; the last check
\* decides.
Verdict ==
  /\ script.step = "poll"
  /\ script' = [script EXCEPT !.step = IF Answers(script.target) THEN "prune"
                                       ELSE "rollback"]
  /\ UNCHANGED <<health, latest, current, disk, schema, process, served, cut, faults>>

Rollback ==
  /\ script.step = "rollback"
  /\ current' = script.old
  /\ script' = [script EXCEPT !.step = "restore"]
  /\ UNCHANGED <<health, latest, disk, schema, process, served, cut, faults>>

\* Mutant: the link goes back and the process stays.
RestoreWithoutRestart ==
  /\ script.step = "restore"
  /\ script' = Resting
  /\ UNCHANGED <<health, latest, current, disk, schema, process, served, cut, faults>>

\* The old release meets the database as the new one left it.
Restore ==
  /\ script.step = "restore"
  /\ process' = [process EXCEPT !.state = "down"]
  /\ script' = Resting
  /\ UNCHANGED <<health, latest, current, disk, schema, served, cut, faults>>

\* Mutant: the oldest are kept.
OldestKept ==
  IF Len(order) <= KeepNewest THEN order ELSE SubSeq(order, 1, KeepNewest)

Kept ==
  IF Len(order) <= KeepNewest THEN order
  ELSE SubSeq(order, Len(order) - KeepNewest + 1, Len(order))

Prune ==
  /\ script.step = "prune"
  /\ order' = Kept
  /\ unpacked' = [v \in Releases |-> IF v \in ToSet(Kept) THEN unpacked[v] ELSE "none"]
  /\ script' = Resting
  /\ UNCHANGED <<health, latest, current, backups, schema, process, served, cut, faults>>

\* The trap on INT and TERM, armed before the link and until the verdict.
Interrupt ==
  /\ Fault
  /\ script.step \in {"link", "restart", "poll"}
  /\ script' = [script EXCEPT !.step = "rollback"]
  /\ UNCHANGED <<health, latest, current, disk, schema, process, served, cut>>

\* A command fails where only die follows it, the script is killed, or the
\* power goes: nothing is put back.  What that may leave behind is a link
\* nobody has judged or half a release in the place of the one in use.
Cut ==
  /\ Fault
  /\ script.step # "idle"
  /\ unjudged' = IF script.step \in {"restart", "poll", "rollback", "restore"}
                 THEN unjudged \cup {current} ELSE unjudged
  /\ torn' = IF script.step = "unpacking" /\ script.target = current
             THEN torn \cup {current} ELSE torn
  /\ script' = Resting
  /\ UNCHANGED <<health, latest, current, disk, schema, served>>

KilledOrFailed == Cut /\ UNCHANGED process
PowerLost == Cut /\ process' = [process EXCEPT !.state = "down"]

ProcessStep == Boot \/ Migrate \/ Listen \/ Dies

ScriptStep ==
  \/ Save \/ Unpack \/ Unpacked \/ Link \/ RestartService
  \/ Verdict \/ Rollback \/ Restore \/ Prune

DeployNext ==
  \/ ProcessStep \/ ScriptStep
  \/ Publish \/ UpToDate \/ Begin \/ Abandon \/ Interrupt
  \/ Crash \/ KilledOrFailed \/ PowerLost

DeploySpec == DeployInit /\ [][DeployNext]_deployVars

\* systemd and the process go on by themselves, and so does a script that has
\* been started.  Nobody has to start one.
DeployFairSpec ==
  DeploySpec /\ WF_deployVars(ProcessStep) /\ WF_deployVars(ScriptStep)

-----------------------------------------------------------------------------
(* Properties.                                                             *)

\* What a rollback would go back to has answered at least once, or it is the
\* very release an earlier run left linked when it was cut off before its
\* verdict (nefix-update, old_target).
RollbackTargetHasServed ==
  script.step \in {"link", "restart", "poll", "rollback"} =>
    script.old \in served \cup unjudged

\* The release the link names is all there: pruning never takes it, and it is
\* in pieces only while a run unpacks that very release again, or when one was
\* cut off doing so and none has unpacked it since.
CurrentIsWhole ==
  \/ unpacked[current] = "whole"
  \/ script.step = "unpacking" /\ script.target = current
  \/ current \in torn

\* No release but the installed one touches the schema before the database was
\* copied for that release (nefix-update, backing up).
MigrationsAreBackedUp ==
  [][schema' > schema =>
       \E b \in backups : b.for = process.release /\ b.schema <= schema]_deployVars

\* What the link names answers in the end, for as long as nobody starts another
\* run and unless a run was cut off with that release half judged or half
\* unpacked: a bad release is undone and the old one comes back, over the schema
\* the new one left (nefix-update, rollback).
AtRest == script.step = "idle" /\ current \notin unjudged \cup torn
ServiceComesBack == AtRest ~> (Answers(current) \/ ~AtRest)

=============================================================================
