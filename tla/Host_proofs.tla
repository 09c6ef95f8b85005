----------------------------- MODULE Host_proofs -----------------------------
(* The update script for any number of releases, of faults and of backups,  *)
(* whatever each release does, with the limiter running in the process.     *)
(*                                                                          *)
(* Two facts are carried from run to run of the script.  What the link      *)
(* names outside a switch has answered once; and whatever the process may   *)
(* be started from had the database copied for it first, unless it is the   *)
(* release the machine was installed with.  The releases on the disk add     *)
(* that the newest is the one being installed, and that whatever the script  *)
(* links, waits for or goes back to was unpacked whole.                      *)
EXTENDS Host, TLAPS

\* A pair of variables that only ever stands for the two.
USE DEF cut

\* The parts of the type invariant the argument needs.
Shapes ==
  /\ health \in [Releases -> {"works", "dies", "mute"}]
  /\ latest \in Releases /\ current \in Releases
  /\ schema \in Nat /\ schema >= 1
  /\ backups \subseteq Backup
  /\ process \in Process /\ script \in Script
  /\ unjudged \subseteq Releases /\ torn \subseteq Releases

Switching == {"restart", "poll"}
Judging   == {"link", "restart", "poll", "rollback", "restore"}

\* Outside a switch the link names a release that has answered or was left there
\* by a run cut off, and within one the release it would go back to is such.
Answered ==
  /\ script.step \notin {"restart", "poll", "rollback", "restore"} =>
       current \in served \cup unjudged
  /\ script.step \in Judging => script.old \in served \cup unjudged
  /\ script.step \in Switching => current = script.target
  /\ script.step = "restore" => current = script.old
  /\ process.state = "up" /\ health[process.release] = "works" =>
       process.release \in served

HasBackup(v) ==
  v = 1 \/ \E b \in backups : b.for = v /\ b.schema <= schema

\* Steps at which the database has been copied for the target.
Saved == Steps \ {"idle", "fetch"}

Copied ==
  /\ HasBackup(current) /\ HasBackup(process.release)
  /\ script.step \in Saved => HasBackup(script.target)
  /\ script.step \in Judging => HasBackup(script.old)

ScriptInv == Shapes /\ Answered /\ Copied

-----------------------------------------------------------------------------

LEMMA ReleasesAreNumbers ==
  /\ Releases \subseteq Nat /\ 1 \in Releases
  /\ \A v \in Releases : v >= 1 /\ (v + 1 <= Newest => v + 1 \in Releases)
  BY DeployAssumption DEF Releases

LEMMA RestingType ==
  /\ Resting \in Script /\ Resting.step = "idle"
  BY ReleasesAreNumbers DEF Resting, Script, Steps

LEMMA ScriptInit == DeployInit => ScriptInv
  <1> SUFFICES ASSUME DeployInit
               PROVE  ScriptInv
    OBVIOUS
  <1>1. Shapes
    BY ReleasesAreNumbers, RestingType DEF DeployInit, Shapes, Process, Backup
  <1>2. Answered
    BY RestingType DEF DeployInit, Answered, Judging, Switching
  <1>3. Copied
    BY RestingType DEF DeployInit, Copied, HasBackup, Saved, Judging
  <1> QED
    BY <1>1, <1>2, <1>3 DEF ScriptInv

\* A backup stays one as the schema grows.
LEMMA BackupsStay ==
  ASSUME Shapes, NEW v, HasBackup(v), schema' \in Nat, schema <= schema',
         backups \subseteq backups'
  PROVE  HasBackup(v)'
  BY DEF Shapes, HasBackup, Backup

\* The process moves on and the script does not.
LEMMA ProcessMoves ==
  ASSUME ScriptInv, process' \in Process, schema' \in Nat, schema <= schema',
         process'.release \in {process.release, current},
         served \subseteq served',
         process'.state = "up" /\ health[process'.release] = "works" =>
           process'.release \in served',
         UNCHANGED <<health, latest, current, disk, script, cut>>
  PROVE  ScriptInv'
  <1>1. Shapes'
    BY DEF ScriptInv, Shapes, disk
  <1>2. Answered'
    BY DEF ScriptInv, Answered
  <1>3. Copied'
    BY BackupsStay DEF ScriptInv, Copied, disk
  <1> QED
    BY <1>1, <1>2, <1>3 DEF ScriptInv

LEMMA ProcessKeeps ==
  ASSUME ScriptInv, ProcessStep \/ Crash
  PROVE  ScriptInv'
  <1> USE DEF ScriptInv, Shapes, Process
  <1>1. CASE Boot
    BY <1>1, ProcessMoves DEF Boot
  <1>2. CASE Migrate
    BY <1>2, ProcessMoves DEF Migrate, Answered
  <1>3. CASE Listen
    BY <1>3, ProcessMoves DEF Listen, Answered
  <1>4. CASE Dies
    BY <1>4, ProcessMoves DEF Dies
  <1>5. CASE Crash
    BY <1>5, ProcessMoves DEF Crash
  <1> QED
    BY <1>1, <1>2, <1>3, <1>4, <1>5 DEF ProcessStep

\* A step of the script leaves the process alone or stops it.
LEMMA ScriptMoves ==
  ASSUME ScriptInv, script' \in Script, current' \in Releases,
         unjudged' \subseteq Releases, torn' \subseteq Releases,
         process'.state = "down" \/ UNCHANGED process,
         process' \in Process, process'.release = process.release,
         UNCHANGED <<health, latest, backups, schema, served>>
  PROVE  /\ Shapes'
         /\ \A v : HasBackup(v)' <=> HasBackup(v)
         /\ process'.state = "up" /\ health[process'.release] = "works" =>
              process'.release \in served'
  BY DEF ScriptInv, Shapes, HasBackup, Answered

LEMMA IdleKeeps ==
  ASSUME ScriptInv, Publish \/ Begin \/ Abandon
  PROVE  ScriptInv'
  <1> USE DEF ScriptInv, Shapes
  <1>1. CASE Publish
    <2>1. Shapes'
      BY <1>1, DeployAssumption DEF Publish, disk, Releases
    <2> QED
      BY <1>1, <2>1 DEF Publish, disk, Answered, Copied, HasBackup
  <1>2. CASE Begin
    <2>1. /\ script' \in Script /\ script'.step = "fetch"
      BY <1>2, RestingType DEF Begin, Script, Steps
    <2> QED
      BY <1>2, <2>1, ScriptMoves
         DEF Begin, disk, Answered, Copied, Saved, Judging, Switching
  <1>3. CASE Abandon
    BY <1>3, RestingType, ScriptMoves
       DEF Abandon, disk, Answered, Copied, Saved, Judging, Switching
  <1> QED
    BY <1>1, <1>2, <1>3

LEMMA SaveKeeps ==
  ASSUME ScriptInv, Save
  PROVE  ScriptInv'
  <1> DEFINE b == [for |-> script.target, schema |-> schema]
  <1>1. /\ script' \in Script /\ script'.step = "unpack"
        /\ script'.target = script.target /\ script.step = "fetch"
        /\ b \in Backup /\ b.for = script.target /\ b.schema = schema
    BY DEF ScriptInv, Shapes, Save, Script, Steps, Backup
  <1>2. Shapes'
    BY <1>1 DEF ScriptInv, Shapes, Save
  <1>3. Answered'
    BY <1>1 DEF ScriptInv, Answered, Save, Judging, Switching
  <1>4. \A v : HasBackup(v) => HasBackup(v)'
    BY BackupsStay DEF ScriptInv, Shapes, Save
  <1>5. HasBackup(script.target)'
    BY <1>1 DEF ScriptInv, Shapes, HasBackup, Save
  <1>6. Copied'
    BY <1>1, <1>4, <1>5 DEF ScriptInv, Copied, Save, Judging, Saved
  <1> QED
    BY <1>2, <1>3, <1>6 DEF ScriptInv

\* Steps that change the link, the directories or the process.
LEMMA SwitchKeeps ==
  ASSUME ScriptInv,
         \/ Unpack \/ Unpacked \/ Link \/ RestartService \/ Verdict
         \/ Rollback \/ Restore \/ Prune
  PROVE  ScriptInv'
  <1> USE DEF ScriptInv, Shapes, Saved, Judging, Switching, Steps
  <1>1. CASE Unpack
    <2>1. /\ script' \in Script /\ script'.step = "unpacking"
          /\ script'.target = script.target
      BY <1>1 DEF Unpack, Script
    <2> QED
      BY <1>1, <2>1, ScriptMoves DEF Unpack, Answered, Copied
  <1>2. CASE Unpacked
    <2>1. /\ script' \in Script /\ script'.step = "link"
          /\ script'.target = script.target /\ script'.old = current
      BY <1>2 DEF Unpacked, Script
    <2> QED
      BY <1>2, <2>1, ScriptMoves DEF Unpacked, Answered, Copied
  <1>3. CASE Link
    <2>1. /\ script' \in Script /\ script'.step = "restart"
          /\ script'.target = script.target /\ script'.old = script.old
          /\ script.target \in Releases
      BY <1>3 DEF Link, Script
    <2> QED
      BY <1>3, <2>1, ScriptMoves DEF Link, disk, Answered, Copied
  <1>4. CASE RestartService
    <2>1. /\ script' \in Script /\ script'.step = "poll"
          /\ script'.target = script.target /\ script'.old = script.old
      BY <1>4 DEF RestartService, Script
    <2>2. /\ process' \in Process /\ process'.state = "down"
          /\ process'.release = process.release
      BY <1>4 DEF RestartService, Process
    <2> QED
      BY <1>4, <2>1, <2>2, ScriptMoves DEF RestartService, disk, Answered, Copied
  <1>5. CASE Verdict
    <2>1. /\ script' \in Script /\ script'.target = script.target
          /\ script'.old = script.old
          /\ script'.step = IF Answers(script.target) THEN "prune" ELSE "rollback"
      BY <1>5 DEF Verdict, Script
    <2>2. Answers(script.target) => current \in served
      BY <1>5 DEF Verdict, Answers, Answered
    <2> QED
      BY <1>5, <2>1, <2>2, ScriptMoves DEF Verdict, disk, Answered, Copied
  <1>6. CASE Rollback
    <2>1. /\ script' \in Script /\ script'.step = "restore"
          /\ script'.target = script.target /\ script'.old = script.old
          /\ script.old \in Releases
      BY <1>6 DEF Rollback, Script
    <2> QED
      BY <1>6, <2>1, ScriptMoves DEF Rollback, disk, Answered, Copied
  <1>7. CASE Restore
    <2>1. /\ process' \in Process /\ process'.state = "down"
          /\ process'.release = process.release
      BY <1>7 DEF Restore, Process
    <2> QED
      BY <1>7, <2>1, RestingType, ScriptMoves DEF Restore, disk, Answered, Copied
  <1>8. CASE Prune
    BY <1>8, RestingType, ScriptMoves DEF Prune, Answered, Copied
  <1> QED
    BY <1>1, <1>2, <1>3, <1>4, <1>5, <1>6, <1>7, <1>8

\* A signal, a command that fails, a kill or a power cut between any two steps.
LEMMA FaultKeeps ==
  ASSUME ScriptInv, Interrupt \/ KilledOrFailed \/ PowerLost
  PROVE  ScriptInv'
  <1> USE DEF ScriptInv, Shapes, Saved, Judging, Switching, Steps
  <1>1. CASE Interrupt
    <2>1. /\ script' \in Script /\ script'.step = "rollback"
          /\ script'.target = script.target /\ script'.old = script.old
      BY <1>1 DEF Interrupt, Script
    <2> QED
      BY <1>1, <2>1, ScriptMoves DEF Interrupt, disk, Answered, Copied
  <1>2. CASE KilledOrFailed \/ PowerLost
    <2>1. Cut
      BY <1>2 DEF KilledOrFailed, PowerLost
    <2>2. /\ process' \in Process /\ process'.release = process.release
          /\ process'.state = "down" \/ UNCHANGED process
      BY <1>2 DEF KilledOrFailed, PowerLost, Process
    <2>3. script' = Resting /\ current' = current
          /\ UNCHANGED <<health, latest, disk, schema, served>>
      BY <2>1 DEF Cut
    <2>4. unjudged' \subseteq Releases /\ torn' \subseteq Releases
      BY <2>1 DEF Cut
    <2>5. /\ unjudged \subseteq unjudged'
          /\ script.step \in {"restart", "poll", "rollback", "restore"} =>
               current \in unjudged'
      BY <2>1 DEF Cut
    <2>6. current \in served \cup unjudged'
      BY <2>5 DEF Answered
    <2> QED
      BY <2>2, <2>3, <2>4, <2>6, RestingType, ScriptMoves DEF disk, Answered, Copied
  <1> QED
    BY <1>1, <1>2

LEMMA ScriptKeeps ==
  ASSUME ScriptInv, [DeployNext]_deployVars
  PROVE  ScriptInv'
  <1>1. CASE UpToDate \/ UNCHANGED deployVars
    BY <1>1 DEF UpToDate, deployVars, disk, ScriptInv, Shapes, Answered, Copied,
       HasBackup
  <1> QED
    BY <1>1, ProcessKeeps, IdleKeeps, SaveKeeps, SwitchKeeps, FaultKeeps
       DEF DeployNext, ScriptStep

-----------------------------------------------------------------------------

\* What the machine does to the script and its disk is what Deploy does,
\* whatever clients ask of the process meanwhile.
LEMMA MachineIsDeploy == HostSpec => DeployInit /\ [][DeployNext]_deployVars
  <1>1. HostInit => DeployInit
    BY DEF HostInit
  <1>2. [HostNext]_hostVars => [DeployNext]_deployVars
    BY DEF HostNext, MachineStep, ClientStep, hostVars
  <1> QED
    BY <1>1, <1>2, PTL DEF HostSpec

LEMMA ScriptInvariant == HostSpec => []ScriptInv
  BY MachineIsDeploy, ScriptInit, ScriptKeeps, PTL

\* What the script would roll back to has answered at least once, whatever the
\* releases do and wherever an earlier run failed, was interrupted or was
\* killed; or it is the release that a run cut off between its switch and its
\* verdict had linked (nefix-update, old_target).
THEOREM RollbackIsSafe == HostSpec => []RollbackTargetHasServed
  <1>1. ScriptInv => RollbackTargetHasServed
    BY DEF ScriptInv, Answered, Judging, RollbackTargetHasServed
  <1> QED
    BY <1>1, ScriptInvariant, PTL

\* Whatever migrates the schema, the database was copied for it before
\* (nefix-update, backing up; store/migrate.go).
THEOREM BackedUpBeforeMigrating == HostSpec => MigrationsAreBackedUp
  <1> DEFINE Covered == schema' > schema =>
               \E b \in backups : b.for = process.release /\ b.schema <= schema
  <1>1. ASSUME ScriptInv, [DeployNext]_deployVars
        PROVE  [Covered]_deployVars
    <2>1. ASSUME schema' > schema
          PROVE  Migrate
      <3>1. schema' # schema
        BY <1>1, <2>1 DEF ScriptInv, Shapes
      <3> QED
        BY <1>1, <3>1
           DEF DeployNext, deployVars, ProcessStep, ScriptStep, Boot, Listen, Dies,
           Crash, Publish, UpToDate, Begin, Abandon, Save, Unpack, Unpacked, Link,
           RestartService, Verdict, Rollback, Restore, Prune, Interrupt,
           KilledOrFailed, PowerLost, Cut
    <2>2. ASSUME Migrate
          PROVE  \E b \in backups : b.for = process.release /\ b.schema <= schema
      <3>1. process.release # 1
        BY <1>1, <2>2 DEF ScriptInv, Shapes, Migrate
      <3> QED
        BY <1>1, <3>1 DEF ScriptInv, Copied, HasBackup
    <2> QED
      BY <2>1, <2>2
  <1> QED
    BY <1>1, ScriptInvariant, MachineIsDeploy, PTL DEF MigrationsAreBackedUp


-----------------------------------------------------------------------------
(* The releases on the disk.  The one just unpacked is the last of the      *)
(* order, so pruning keeps it; what a run has linked and what it would go   *)
(* back to are whole, from the end of tar to the verdict.                   *)

DiskTyped ==
  /\ health \in [Releases -> {"works", "dies", "mute"}]
  /\ unpacked \in [Releases -> {"none", "partial", "whole"}]
  /\ order \in Seq(Releases) /\ IsInjective(order)
  /\ served \subseteq Releases
  /\ faults \in 0..MaxFaults

NewestIsTarget == order # <<>> /\ order[Len(order)] = script.target

OnDisk ==
  /\ script.step # "unpacking" \/ script.target # current
       => unpacked[current] = "whole" \/ current \in torn
  /\ script.step \in {"link", "restart", "poll"}
       => unpacked[script.target] = "whole"
  /\ script.step \in Judging =>
       unpacked[script.old] = "whole" \/ script.old \in torn
  /\ script.step \in {"unpacking", "link", "restart", "poll", "prune"}
       => NewestIsTarget
  /\ script.step = "prune" =>
       current = script.target /\ unpacked[current] = "whole"

DiskInv == DiskTyped /\ OnDisk

\* What is left of an order without one of its directories.
LEMMA WithoutLeaves ==
  ASSUME order \in Seq(Releases), IsInjective(order), NEW v \in Releases
  PROVE  /\ Without(v) \in Seq(Releases)
         /\ IsInjective(Without(v))
         /\ \A n \in DOMAIN Without(v) : Without(v)[n] # v
  <1>1. CASE v \in ToSet(order)
    <2> DEFINE n == CHOOSE n \in DOMAIN order : order[n] = v
               w == RemoveAt(order, n)
    <2>1. n \in 1..Len(order) /\ order[n] = v
      BY <1>1 DEF ToSet
    <2> HIDE DEF n
    <2>2. /\ w \in Seq(Releases) /\ Len(w) = Len(order) - 1
          /\ \A m \in 1..Len(w) : w[m] = order[IF m < n THEN m ELSE m + 1]
      <3> DEFINE p == SubSeq(order, 1, n - 1)
                 q == SubSeq(order, n + 1, Len(order))
      <3>1. /\ p \in Seq(Releases) /\ Len(p) = n - 1
            /\ \A m \in 1..Len(p) : p[m] = order[m]
        BY <2>1
      <3>2. /\ q \in Seq(Releases) /\ Len(q) = Len(order) - n
            /\ \A m \in 1..Len(q) : q[m] = order[n + m]
        BY <2>1
      <3>3. w = p \o q
        BY DEF RemoveAt
      <3> HIDE DEF p, q, w
      <3>4. w \in Seq(Releases) /\ Len(w) = Len(order) - 1
        <4>1. w \in Seq(Releases) /\ Len(w) = Len(p) + Len(q)
          <5>1. p \in Seq(Releases) /\ q \in Seq(Releases)
            BY <3>1, <3>2
          <5> QED
            BY <3>3, <5>1
        <4>2. Len(order) \in Nat /\ n \in Nat
          BY <2>1
        <4> QED
          BY <3>1, <3>2, <4>1, <4>2
      <3>5. ASSUME NEW m \in 1..Len(w)
            PROVE  w[m] = order[IF m < n THEN m ELSE m + 1]
        <4>1. CASE m < n
          BY <2>1, <3>1, <3>2, <3>3, <4>1
        <4>2. CASE ~(m < n)
          <5>1. /\ m - Len(p) \in 1..Len(q)
                /\ w[m] = q[m - Len(p)]
            BY <2>1, <3>1, <3>2, <3>3, <3>4, <4>2
          <5>2. n + (m - Len(p)) = m + 1
            BY <2>1, <3>1
          <5> QED
            BY <3>2, <4>2, <5>1, <5>2
        <4> QED
          BY <4>1, <4>2
      <3> QED
        BY <3>4, <3>5
    <2> HIDE DEF w
    <2>3. \A m \in 1..Len(w) : /\ (IF m < n THEN m ELSE m + 1) \in 1..Len(order)
                               /\ (IF m < n THEN m ELSE m + 1) # n
      BY <2>1, <2>2
    <2>4. \A a, b \in 1..Len(order) : order[a] = order[b] => a = b
      BY DEF IsInjective
    <2>5. \A a, b \in 1..Len(w) : w[a] = w[b] => a = b
      BY <2>1, <2>2, <2>3, <2>4
    <2>6. \A m \in 1..Len(w) : w[m] # v
      BY <2>1, <2>2, <2>3, <2>4
    <2>7. Without(v) = w /\ DOMAIN w = 1..Len(w)
      <3>1. Without(v) = w
        BY <1>1 DEF Without, w, n
      <3> QED
        BY <2>2, <3>1
    <2> QED
      BY <2>2, <2>5, <2>6, <2>7 DEF IsInjective
  <1>2. CASE v \notin ToSet(order)
    BY <1>2 DEF Without, ToSet
  <1> QED
    BY <1>1, <1>2

LEMMA KeptIsLast ==
  ASSUME order \in Seq(Releases), IsInjective(order)
  PROVE  /\ Kept \in Seq(Releases) /\ IsInjective(Kept)
         /\ order # <<>> => order[Len(order)] \in ToSet(Kept)
  <1>1. CASE Len(order) <= KeepNewest
    BY <1>1 DEF Kept, ToSet
  <1>2. CASE ~(Len(order) <= KeepNewest)
    <2> DEFINE first == Len(order) - KeepNewest + 1
               w     == SubSeq(order, first, Len(order))
    <2>1. KeepNewest \in Nat /\ KeepNewest >= 1
      BY DeployAssumption
    <2>2. first \in 1..Len(order)
      BY <1>2, <2>1
    <2>3. Kept = w
      BY <1>2 DEF Kept
    <2>4. /\ w \in Seq(Releases) /\ Len(w) = KeepNewest
          /\ \A m \in 1..Len(w) : w[m] = order[first + m - 1]
      BY <2>1, <2>2
    <2> HIDE DEF w
    <2>5. \A m \in 1..Len(w) : first + m - 1 \in 1..Len(order)
      BY <2>1, <2>2, <2>4
    <2>6. \A a, b \in 1..Len(order) : order[a] = order[b] => a = b
      BY DEF IsInjective
    <2>7. \A a, b \in 1..Len(w) : w[a] = w[b] => a = b
      BY <2>1, <2>2, <2>4, <2>5, <2>6
    <2>8. Len(w) \in 1..Len(w) /\ w[Len(w)] = order[Len(order)]
      BY <2>1, <2>4
    <2> QED
      BY <2>3, <2>4, <2>7, <2>8 DEF IsInjective, ToSet
  <1> QED
    BY <1>1, <1>2

LEMMA InitDisk == DeployInit => DiskInv
  <1> SUFFICES ASSUME DeployInit
               PROVE  DiskInv
    OBVIOUS
  <1>1. order \in Seq(Releases) /\ IsInjective(order)
    BY ReleasesAreNumbers DEF DeployInit, IsInjective
  <1>2. DiskTyped
    BY <1>1, ReleasesAreNumbers, DeployAssumption DEF DeployInit, DiskTyped
  <1>3. OnDisk
    BY ReleasesAreNumbers, RestingType DEF DeployInit, OnDisk, Judging
  <1> QED
    BY <1>2, <1>3 DEF DiskInv


\* Steps that leave the releases where they are.
LEMMA DiskStays ==
  ASSUME DiskTyped, OnDisk,
         UNCHANGED <<health, disk, current>>,
         served' \subseteq Releases, faults' \in 0..MaxFaults,
         torn \subseteq torn',
         \/ UNCHANGED script
         \/ script'.step \in {"idle", "fetch", "unpack"}
            /\ (current \in torn' \/ script.step # "unpacking" \/ script.target # current)
  PROVE  DiskInv'
  <1>1. DiskTyped'
    BY DEF DiskTyped, disk
  <1>2. CASE UNCHANGED script
    BY <1>1, <1>2 DEF DiskInv, OnDisk, NewestIsTarget, disk
  <1>3. CASE script'.step \in {"idle", "fetch", "unpack"}
    BY <1>1, <1>3 DEF DiskInv, OnDisk, Judging, disk
  <1> QED
    BY <1>2, <1>3

LEMMA QuietKeepsDisk ==
  ASSUME ScriptInv, DiskInv,
         \/ ProcessStep \/ Crash \/ Publish \/ UpToDate \/ Begin \/ Abandon
         \/ UNCHANGED deployVars
  PROVE  DiskInv'
  <1> USE DEF DiskInv
  <1>1. CASE Boot \/ Migrate \/ Dies
    BY <1>1, DiskStays DEF Boot, Migrate, Dies, DiskTyped
  <1>2. CASE Listen
    <2>1. served' \subseteq Releases
      BY <1>2 DEF Listen, DiskTyped, ScriptInv, Shapes, Process
    <2> QED
      BY <1>2, <2>1, DiskStays DEF Listen, DiskTyped
  <1>3. CASE Crash
    BY <1>3, DiskStays, DeployAssumption DEF Crash, Fault, DiskTyped
  <1>4. CASE Publish \/ UpToDate \/ UNCHANGED deployVars
    BY <1>4, DiskStays DEF Publish, UpToDate, deployVars, DiskTyped
  <1>5. CASE Begin \/ Abandon
    <2>1. /\ script'.step \in {"idle", "fetch"}
          /\ script.step # "unpacking"
      BY <1>5, RestingType DEF Begin, Abandon, Script
    <2> QED
      BY <1>5, <2>1, DiskStays DEF Begin, Abandon, DiskTyped
  <1> QED
    BY <1>1, <1>2, <1>3, <1>4, <1>5 DEF ProcessStep

\* Between two steps of the script everything may end, whole or half done.
LEMMA FaultKeepsDisk ==
  ASSUME ScriptInv, DiskInv, Interrupt \/ KilledOrFailed \/ PowerLost
  PROVE  DiskInv'
  <1> USE DEF DiskInv
  <1>0. faults' \in 0..MaxFaults
    BY DeployAssumption
       DEF Interrupt, KilledOrFailed, PowerLost, Cut, Fault, DiskTyped
  <1>1. CASE Interrupt
    <2>1. /\ script'.step = "rollback" /\ script'.old = script.old
          /\ script.step \in {"link", "restart", "poll"}
          /\ UNCHANGED <<health, disk, current, cut, served>>
      BY <1>1 DEF Interrupt, ScriptInv, Shapes, Script
    <2>2. DiskTyped'
      BY <1>0, <2>1 DEF DiskTyped, disk
    <2> QED
      BY <2>1, <2>2 DEF OnDisk, Judging, disk
  <1>2. CASE KilledOrFailed \/ PowerLost
    <2>1. Cut
      BY <1>2 DEF KilledOrFailed, PowerLost
    <2>2. script' = Resting /\ UNCHANGED <<health, disk, current, served>>
      BY <2>1 DEF Cut
    <2>3. /\ torn \subseteq torn'
          /\ script.step = "unpacking" /\ script.target = current => current \in torn'
      BY <2>1 DEF Cut
    <2> QED
      BY <1>0, <2>1, <2>2, <2>3, RestingType, DiskStays DEF DiskTyped
  <1> QED
    BY <1>1, <1>2

LEMMA ScriptKeepsDisk ==
  ASSUME ScriptInv, DiskInv, ScriptStep
  PROVE  DiskInv'
  <1> USE DEF DiskInv, Judging
  <1>0. /\ current \in Releases /\ script.target \in Releases
        /\ script.old \in Releases
    BY DEF ScriptInv, Shapes, Script
  <1>1. CASE Save
    <2>1. script'.step = "unpack" /\ script.step = "fetch"
      BY <1>1 DEF Save, ScriptInv, Shapes, Script
    <2>2. DiskTyped'
      BY <1>1 DEF Save, DiskTyped
    <2> QED
      BY <1>1, <2>1, <2>2 DEF Save, OnDisk
  <1>2. CASE Unpack
    <2> DEFINE w == Without(script.target)
    <2>1. /\ script'.step = "unpacking" /\ script'.target = script.target
          /\ script.step = "unpack"
      BY <1>2 DEF Unpack, ScriptInv, Shapes, Script
    <2>2. /\ w \in Seq(Releases) /\ IsInjective(w)
          /\ \A n \in DOMAIN w : w[n] # script.target
      BY <1>0, WithoutLeaves DEF DiskTyped
    <2>3. order' = Append(w, script.target)
      BY <1>2 DEF Unpack
    <2> HIDE DEF w
    <2>4. /\ order' \in Seq(Releases) /\ Len(order') = Len(w) + 1
          /\ \A n \in 1..Len(w) : order'[n] = w[n]
          /\ order'[Len(w) + 1] = script.target
      BY <1>0, <2>2, <2>3
    <2>5. \A a, b \in 1..Len(w) : w[a] = w[b] => a = b
      BY <2>2 DEF IsInjective
    <2>6. \A n \in 1..Len(w) : w[n] # script.target
      BY <2>2
    <2>7. DOMAIN order' = 1..(Len(w) + 1) /\ Len(w) \in Nat
      BY <2>2, <2>4
    <2>8. IsInjective(order')
      BY <2>4, <2>5, <2>6, <2>7 DEF IsInjective
    <2>9. NewestIsTarget'
      BY <2>1, <2>4, <2>7 DEF NewestIsTarget
    <2>10. DiskTyped'
      BY <1>2, <2>4, <2>8 DEF Unpack, DiskTyped
    <2>11. script'.target # current => unpacked'[current] = unpacked[current]
      BY <1>2, <2>1 DEF Unpack, DiskTyped
    <2> QED
      BY <1>2, <2>1, <2>9, <2>10, <2>11 DEF Unpack, OnDisk
  <1>3. CASE Unpacked
    <2>1. /\ script'.step = "link" /\ script'.target = script.target
          /\ script'.old = current /\ script.step = "unpacking"
      BY <1>3 DEF Unpacked, ScriptInv, Shapes, Script
    <2>2. /\ unpacked'[script.target] = "whole"
          /\ \A v \in Releases : v # script.target => unpacked'[v] = unpacked[v]
      BY <1>0, <1>3 DEF Unpacked, DiskTyped
    <2>3. DiskTyped'
      BY <1>3 DEF Unpacked, DiskTyped
    <2> QED
      BY <1>0, <1>3, <2>1, <2>2, <2>3 DEF Unpacked, OnDisk, NewestIsTarget
  <1>4. CASE Link
    <2>1. /\ script'.step = "restart" /\ script'.target = script.target
          /\ script'.old = script.old /\ script.step = "link"
      BY <1>4 DEF Link, ScriptInv, Shapes, Script
    <2>2. DiskTyped'
      BY <1>4 DEF Link, DiskTyped, disk
    <2> QED
      BY <1>4, <2>1, <2>2 DEF Link, OnDisk, NewestIsTarget, disk
  <1>5. CASE RestartService
    <2>1. /\ script'.step = "poll" /\ script'.target = script.target
          /\ script'.old = script.old /\ script.step = "restart"
      BY <1>5 DEF RestartService, ScriptInv, Shapes, Script
    <2>2. DiskTyped'
      BY <1>5 DEF RestartService, DiskTyped, disk
    <2> QED
      BY <1>5, <2>1, <2>2 DEF RestartService, OnDisk, NewestIsTarget, disk
  <1>6. CASE Verdict
    <2>1. /\ script'.step \in {"prune", "rollback"}
          /\ script'.target = script.target
          /\ script'.old = script.old /\ script.step = "poll"
          /\ current = script.target
      BY <1>6 DEF Verdict, ScriptInv, Shapes, Script, Answered, Switching
    <2>2. DiskTyped'
      BY <1>6 DEF Verdict, DiskTyped, disk
    <2> QED
      BY <1>6, <2>1, <2>2 DEF Verdict, OnDisk, NewestIsTarget, disk
  <1>7. CASE Rollback
    <2>1. /\ script'.step = "restore" /\ script'.old = script.old
          /\ script.step = "rollback"
      BY <1>7 DEF Rollback, ScriptInv, Shapes, Script
    <2>2. DiskTyped'
      BY <1>7 DEF Rollback, DiskTyped, disk
    <2> QED
      BY <1>7, <2>1, <2>2 DEF Rollback, OnDisk, disk
  <1>8. CASE Restore
    BY <1>8, RestingType, DiskStays DEF Restore, DiskTyped
  <1>9. CASE Prune
    <2>1. Kept \in Seq(Releases) /\ IsInjective(Kept)
      BY KeptIsLast DEF DiskTyped
    <2>2. DiskTyped'
      BY <1>9, <2>1 DEF Prune, DiskTyped
    <2>3. OnDisk => current \in ToSet(Kept) /\ unpacked[current] = "whole"
      BY <1>9, KeptIsLast DEF Prune, OnDisk, NewestIsTarget, DiskTyped
    <2>4. OnDisk => unpacked'[current] = "whole"
      BY <1>0, <1>9, <2>3 DEF Prune
    <2> QED
      BY <1>9, <2>2, <2>4, RestingType DEF Prune, OnDisk
  <1> QED
    BY <1>1, <1>2, <1>3, <1>4, <1>5, <1>6, <1>7, <1>8, <1>9 DEF ScriptStep

LEMMA DiskInvariant == HostSpec => []DiskInv
  <1>1. ScriptInv /\ DiskInv /\ [DeployNext]_deployVars => DiskInv'
    BY QuietKeepsDisk, FaultKeepsDisk, ScriptKeepsDisk DEF DeployNext
  <1> QED
    BY <1>1, InitDisk, MachineIsDeploy, ScriptInvariant, PTL

\* Every variable of the machine keeps its type, whatever fails.
THEOREM DeployTypeCorrect == HostSpec => []DeployTypeOK
  <1>1. ScriptInv /\ DiskInv => DeployTypeOK
    BY DEF ScriptInv, Shapes, DiskInv, DiskTyped, DeployTypeOK
  <1> QED
    BY <1>1, ScriptInvariant, DiskInvariant, PTL

\* For any number of releases and any KEEP, the release the link names is all
\* there: pruning never takes it away, and tar only while it unpacks it again or
\* when it was cut off doing so, until a later run has unpacked it (nefix-update,
\* unpacking and pruning).
THEOREM LinkedReleaseIsWhole == HostSpec => []CurrentIsWhole
  <1>1. DiskInv => CurrentIsWhole
    BY DEF DiskInv, OnDisk, CurrentIsWhole
  <1> QED
    BY <1>1, DiskInvariant, PTL

-----------------------------------------------------------------------------
(* The limiter: forgetting a bucket is invisible, and a wait is enough.  The *)
(* induction needs only the types; what a client was told to wait is added   *)
(* for WaitingHelps.                                                         *)


\* What is left to wait brings back what is missing.
WaitBringsBack ==
  \A c \in Clients : wait[c] # NoWait => Level(c) + wait[c] >= Cost

-----------------------------------------------------------------------------
(* Levels.                                                                 *)

LEMMA Numbers == /\ Burst \in Nat /\ Cost \in Nat /\ IdleTime \in Nat
                 /\ 1 <= Cost /\ Cost <= Burst /\ Burst <= IdleTime
                 /\ Second \in Nat /\ Second >= 1
  BY LimiterAssumption

LEMMA BucketType ==
  ASSUME LimiterTypeOK, NEW c \in Clients
  PROVE  /\ buckets[c] \in Bucket
         /\ buckets[c].known \in BOOLEAN
         /\ buckets[c].tokens \in Nat /\ buckets[c].tokens <= Burst
         /\ buckets[c].age \in Nat /\ buckets[c].age <= IdleTime
         /\ wait[c] \in Int /\ wait[c] <= Cost + Second /\ wait[c] >= NoWait
         /\ wait[c] = NoWait \/ wait[c] >= 0
  BY Numbers DEF LimiterTypeOK, Bucket, NoWait

LEMMA LevelType ==
  ASSUME LimiterTypeOK, NEW c \in Clients
  PROVE  Level(c) \in Nat /\ Level(c) <= Burst
  BY BucketType, Numbers DEF Level, Refilled

\* A bucket that has just been seen is worth what it holds.
LEMMA SeenLevel ==
  ASSUME LimiterTypeOK, NEW c \in Clients, NEW tokens \in 0..Burst,
         Seen(c, tokens)
  PROVE  /\ buckets' \in [Clients -> Bucket]
         /\ Level(c)' = tokens
         /\ \A d \in Clients \ {c} : Level(d)' = Level(d)
  <1>1. [known |-> TRUE, tokens |-> tokens, age |-> 0] \in Bucket
    BY Numbers DEF Bucket
  <1>2. /\ buckets'[c] = [known |-> TRUE, tokens |-> tokens, age |-> 0]
        /\ \A d \in Clients \ {c} : buckets'[d] = buckets[d]
    BY DEF Seen, LimiterTypeOK
  <1>3. buckets' \in [Clients -> Bucket]
    BY <1>1 DEF Seen, LimiterTypeOK
  <1>4. Level(c)' = tokens
    BY <1>2, Numbers DEF Level, Refilled
  <1> QED
    BY <1>2, <1>3, <1>4 DEF Level, Refilled

\* A bucket the sweep takes is full, and so is one that is not there.
LEMMA SweepLevel ==
  ASSUME LimiterTypeOK, Sweep
  PROVE  /\ buckets' \in [Clients -> Bucket]
         /\ \A c \in Clients : Level(c)' = Level(c)
  <1>1. buckets' \in [Clients -> Bucket]
    BY Numbers DEF Sweep, Forget, NoBucket, Bucket, LimiterTypeOK
  <1>2. ASSUME NEW c \in Clients PROVE Level(c)' = Level(c)
    <2>1. CASE c \in Idle /\ buckets[c].known
      <3>1. buckets[c].age = IdleTime
        BY <2>1, BucketType, Numbers DEF Idle
      <3>2. Level(c) = Burst
        BY <2>1, <3>1, BucketType, Numbers DEF Level, Refilled
      <3>3. buckets'[c] = NoBucket
        BY <2>1 DEF Sweep, Forget
      <3> QED
        BY <3>2, <3>3 DEF Level, NoBucket
    <2>2. CASE ~(c \in Idle /\ buckets[c].known)
      BY <2>2 DEF Sweep, Forget, Level, Refilled
    <2> QED
      BY <2>1, <2>2
  <1> QED
    BY <1>1, <1>2

LEMMA ForgottenLevel ==
  ASSUME buckets' = Forget(Clients)
  PROVE  /\ buckets' \in [Clients -> Bucket]
         /\ \A c \in Clients : Level(c)' = Burst
  BY Numbers DEF Forget, NoBucket, Bucket, Level

\* A second gives back one unit, up to the ceiling.
LEMMA TickLevel ==
  ASSUME LimiterTypeOK, Tick
  PROVE  /\ buckets' \in [Clients -> Bucket]
         /\ \A c \in Clients :
              Level(c)' = IF Level(c) < Burst THEN Level(c) + 1 ELSE Burst
  <1> DEFINE aged(c) == IF buckets[c].known /\ buckets[c].age < IdleTime
                        THEN buckets[c].age + 1 ELSE buckets[c].age
  <1>1. \A c \in Clients : buckets'[c] = [buckets[c] EXCEPT !.age = aged(c)]
    BY DEF Tick
  <1>2. ASSUME NEW c \in Clients PROVE aged(c) \in 0..IdleTime
    <2>1. buckets[c].age \in Nat /\ buckets[c].age <= IdleTime
      BY BucketType
    <2> QED
      BY <2>1, Numbers
  <1>3. buckets' \in [Clients -> Bucket]
    <2>1. \A c \in Clients : [buckets[c] EXCEPT !.age = aged(c)] \in Bucket
      BY <1>2, BucketType DEF Bucket
    <2>2. buckets' = [c \in Clients |-> [buckets[c] EXCEPT !.age = aged(c)]]
      BY DEF Tick
    <2> HIDE DEF aged, Bucket
    <2> QED
      BY <2>1, <2>2
  <1>4. ASSUME NEW c \in Clients
        PROVE  Level(c)' = IF Level(c) < Burst THEN Level(c) + 1 ELSE Burst
    <2>1. /\ buckets'[c].known = buckets[c].known
          /\ buckets'[c].tokens = buckets[c].tokens
          /\ buckets'[c].age = aged(c)
      BY <1>1, BucketType DEF Bucket
    <2>2. CASE ~buckets[c].known
      BY <2>1, <2>2, Numbers DEF Level
    <2>3. CASE buckets[c].known /\ buckets[c].age < IdleTime
      BY <2>1, <2>3, BucketType, Numbers DEF Level, Refilled
    <2>4. CASE buckets[c].known /\ buckets[c].age = IdleTime
      BY <2>1, <2>4, BucketType, Numbers DEF Level, Refilled
    <2>5. buckets[c].known \in BOOLEAN
          /\ buckets[c].age \in Nat /\ buckets[c].age <= IdleTime
      BY BucketType
    <2>6. buckets[c].age < IdleTime \/ buckets[c].age = IdleTime
      BY <2>5, Numbers
    <2> HIDE DEF aged
    <2> QED
      BY <2>2, <2>3, <2>4, <2>5, <2>6
  <1> QED
    BY <1>3, <1>4

-----------------------------------------------------------------------------
(* The steps, once for the types and the waits and once for the levels.    *)

LEMMA AllowedTokens ==
  ASSUME LimiterTypeOK, NEW c \in Clients, Allowed(c)
  PROVE  /\ Level(c) >= Cost
         /\ Level(c) - Cost \in 0..Burst
         /\ Seen(c, Level(c) - Cost)
  <1>1. Level(c) = IF buckets[c].known THEN Refilled(buckets[c]) ELSE Burst
    BY DEF Level
  <1>2. Level(c) >= Cost /\ Seen(c, Level(c) - Cost)
    BY <1>1 DEF Allowed
  <1> QED
    BY <1>2, LevelType, Numbers

LEMMA RefusedTokens ==
  ASSUME LimiterTypeOK, NEW c \in Clients, TooMany(c)
  PROVE  /\ Level(c) \in 0..Burst /\ Level(c) < Cost
         /\ Seen(c, Level(c))
         /\ wait' = [wait EXCEPT ![c] = RetryAfter(Level(c)) * Second]
  BY LevelType, Numbers DEF TooMany, Level

\* The whole seconds of Retry-After give back what is missing, and are less
\* than a second too many.
LEMMA RoundedUp ==
  ASSUME NEW tokens \in 0..Cost
  PROVE  /\ RetryAfter(tokens) * Second \in Nat
         /\ RetryAfter(tokens) * Second <= Cost + Second
         /\ tokens + RetryAfter(tokens) * Second >= Cost
  <1> DEFINE n == Cost - tokens + Second - 1
             q == n \div Second
  <1>1. n \in Nat /\ Second \in Nat /\ Second > 0
    BY Numbers
  <1>2. q \in Nat /\ q * Second <= n /\ n < q * Second + Second
    BY <1>1, SMT
  <1>3. q * Second \in Nat
    BY <1>1, <1>2, SMT
  <1> QED
    BY <1>1, <1>2, <1>3, Numbers DEF RetryAfter

LEMMA StepInvariant ==
  ASSUME LimiterTypeOK, WaitBringsBack, [LimiterNext]_limiterVars
  PROVE  LimiterTypeOK' /\ WaitBringsBack'
  <1>1. ASSUME NEW c \in Clients, Allowed(c)
        PROVE  LimiterTypeOK' /\ WaitBringsBack'
    <2>1. wait' = [wait EXCEPT ![c] = NoWait] /\ serving' = serving
      BY <1>1 DEF Allowed
    <2>2. /\ buckets' \in [Clients -> Bucket]
          /\ \A d \in Clients \ {c} : Level(d)' = Level(d)
      BY <1>1, AllowedTokens, SeenLevel
    <2>3. NoWait \in NoWait..(Cost + Second)
      BY Numbers DEF NoWait
    <2>4. LimiterTypeOK'
      BY <2>1, <2>2, <2>3 DEF LimiterTypeOK
    <2>5. ASSUME NEW d \in Clients, wait'[d] # NoWait
          PROVE  Level(d)' + wait'[d] >= Cost
      <3>1. d # c /\ wait'[d] = wait[d]
        BY <2>1, <2>5 DEF LimiterTypeOK
      <3> QED
        BY <2>2, <2>5, <3>1 DEF WaitBringsBack
    <2> QED
      BY <2>4, <2>5 DEF WaitBringsBack
  <1>2. ASSUME NEW c \in Clients, TooMany(c)
        PROVE  LimiterTypeOK' /\ WaitBringsBack'
    <2>1. /\ buckets' \in [Clients -> Bucket]
          /\ Level(c)' = Level(c)
          /\ \A d \in Clients \ {c} : Level(d)' = Level(d)
      BY <1>2, RefusedTokens, SeenLevel
    <2>2. /\ RetryAfter(Level(c)) * Second \in NoWait..(Cost + Second)
          /\ Level(c) + RetryAfter(Level(c)) * Second >= Cost
      BY <1>2, RefusedTokens, RoundedUp, Numbers DEF NoWait
    <2>3. LimiterTypeOK'
      BY <1>2, <2>1, <2>2, RefusedTokens DEF LimiterTypeOK, TooMany
    <2>4. ASSUME NEW d \in Clients, wait'[d] # NoWait
          PROVE  Level(d)' + wait'[d] >= Cost
      <3>1. CASE d = c
        BY <1>2, <2>1, <2>2, <3>1, RefusedTokens DEF LimiterTypeOK
      <3>2. CASE d # c
        BY <1>2, <2>1, <2>4, <3>2, RefusedTokens DEF LimiterTypeOK, WaitBringsBack
      <3> QED
        BY <3>1, <3>2
    <2> QED
      BY <2>3, <2>4 DEF WaitBringsBack
  <1>3. CASE Sweep
    BY <1>3, SweepLevel DEF Sweep, LimiterTypeOK, WaitBringsBack
  <1>4. CASE Stopped
    <2>1. \A c \in Clients : Level(c)' = Burst
      BY <1>4, ForgottenLevel DEF Stopped
    <2>2. LimiterTypeOK'
      BY <1>4, ForgottenLevel DEF Stopped, LimiterTypeOK
    <2> QED
      BY <1>4, <2>1, <2>2, BucketType, Numbers DEF Stopped, WaitBringsBack
  <1>5. CASE Started
    BY <1>5 DEF Started, LimiterTypeOK, WaitBringsBack, Level, Refilled
  <1>6. CASE Tick
    <2>1. LimiterTypeOK'
      <3>1. \A c \in Clients :
              (IF wait[c] > 0 THEN wait[c] - 1 ELSE wait[c]) \in NoWait..(Cost + Second)
        BY BucketType, Numbers DEF NoWait
      <3> QED
        BY <1>6, <3>1, TickLevel DEF Tick, LimiterTypeOK
    <2>2. ASSUME NEW c \in Clients, wait'[c] # NoWait
          PROVE  Level(c)' + wait'[c] >= Cost
      <3>1. wait'[c] = IF wait[c] > 0 THEN wait[c] - 1 ELSE wait[c]
        BY <1>6 DEF Tick
      <3>2. wait[c] # NoWait /\ wait[c] >= 0 /\ Level(c) + wait[c] >= Cost
        BY <2>2, <3>1, BucketType DEF WaitBringsBack, NoWait
      <3>3. Level(c)' = IF Level(c) < Burst THEN Level(c) + 1 ELSE Burst
        BY <1>6, TickLevel
      <3> QED
        BY <3>1, <3>2, <3>3, BucketType, LevelType, Numbers
    <2> QED
      BY <2>1, <2>2 DEF WaitBringsBack
  <1>7. CASE UNCHANGED limiterVars
    BY <1>7 DEF limiterVars, LimiterTypeOK, WaitBringsBack, Level, Refilled
  <1> QED
    BY <1>1, <1>2, <1>3, <1>4, <1>5, <1>6, <1>7 DEF LimiterNext

LEMMA LimiterInvariant == LimiterSpec => [](LimiterTypeOK /\ WaitBringsBack)
  <1>1. LimiterInit => LimiterTypeOK /\ WaitBringsBack
    BY Numbers DEF LimiterInit, LimiterTypeOK, WaitBringsBack, Bucket, NoBucket,
       NoWait
  <1> QED
    BY <1>1, StepInvariant, PTL DEF LimiterSpec

\* The buckets, the waits and the process keep their types, for any number of
\* clients (ratelimit.go, limiter).
THEOREM LimiterTypeCorrect == LimiterSpec => []LimiterTypeOK
  BY LimiterInvariant, PTL

\* Retry-After is never too short, whatever is swept and restarted meanwhile
\* (ratelimit.go, allow).
THEOREM WaitingHelps == LimiterSpec => []WaitIsEnough
  <1>1. LimiterTypeOK /\ WaitBringsBack => WaitIsEnough
    BY LevelType, Numbers DEF WaitBringsBack, WaitIsEnough, NoWait
  <1> QED
    BY <1>1, LimiterInvariant, PTL

\* A limiter that sweeps gives the attempts of one that never forgets, for all
\* rates, ceilings and idle times as long as a bucket fills before it is idle
\* (ratelimit.go, sweep and the constants above it).
THEOREM SweepRefines == LimiterSpec => SweepingIsInvisible
  <1> DEFINE levels == [c \in Clients |-> Level(c)]
  <1>1. LimiterInit => Steady!Init
    BY DEF LimiterInit, Steady!Init, Steady!Full, Level, NoBucket
  <1>2. ASSUME LimiterTypeOK, [LimiterNext]_limiterVars
        PROVE  Steady!Next \/ UNCHANGED <<levels, serving>>
    <2>1. ASSUME NEW c \in Clients, Allowed(c)
          PROVE  Steady!Attempt(c)
      <3>1. /\ Level(c)' = Level(c) - Cost
            /\ \A d \in Clients \ {c} : Level(d)' = Level(d)
            /\ Level(c) >= Cost
        BY <1>2, <2>1, AllowedTokens, SeenLevel
      <3>2. levels' = [levels EXCEPT ![c] = levels[c] - Cost]
        BY <3>1
      <3> QED
        BY <2>1, <3>1, <3>2 DEF Steady!Attempt, Allowed
    <2>2. ASSUME NEW c \in Clients, TooMany(c)
          PROVE  UNCHANGED <<levels, serving>>
      <3>1. \A d \in Clients : Level(d)' = Level(d)
        BY <1>2, <2>2, RefusedTokens, SeenLevel
      <3> QED
        BY <2>2, <3>1 DEF TooMany
    <2>3. CASE Sweep
      BY <1>2, <2>3, SweepLevel DEF Sweep
    <2>4. CASE Stopped
      BY <2>4, ForgottenLevel DEF Stopped, Steady!Next, Steady!Stop, Steady!Full
    <2>5. CASE Started
      BY <2>5 DEF Started, Steady!Next, Steady!Start, Level, Refilled
    <2>6. CASE Tick
      <3>1. \A c \in Clients :
              Level(c)' = IF Level(c) < Burst THEN Level(c) + 1 ELSE Burst
        BY <1>2, <2>6, TickLevel
      <3>2. levels' = [c \in Clients |-> IF levels[c] < Burst THEN levels[c] + 1
                                         ELSE Burst]
        BY <3>1
      <3> QED
        BY <2>6, <3>2 DEF Tick, Steady!Next, Steady!Pass
    <2>7. CASE UNCHANGED limiterVars
      BY <2>7 DEF limiterVars, Level, Refilled
    <2> QED
      BY <1>2, <2>1, <2>2, <2>3, <2>4, <2>5, <2>6, <2>7 DEF LimiterNext, Steady!Next
  <1> QED
    BY <1>1, <1>2, LimiterInvariant, PTL
    DEF LimiterSpec, SweepingIsInvisible, Steady!Spec, Steady!vars

=============================================================================
