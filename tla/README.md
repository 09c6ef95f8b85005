# nefix in TLA+

nefix keeps study notes. Every device holds its own copy in IndexedDB, works
without a network, and synchronises with a Go server over SQLite. This
directory holds TLA+ modules translated from that code, the TLC instances that
check them, and the proofs TLAPS checks.

    tlc -config NefixSyncMixed.cfg MCNefixSync      # one run
    tlapm NefixSync_proofs.tla                      # the proofs of one module

`PROJECT.json` lists the components, the runs with their properties, the
mutants each property is measured against, the source lines every definition
models, the findings, the hazards and the theorems.

## The system

| Part | State | Operations | Talks to |
|---|---|---|---|
| Sync store (`server/internal/store/{notes,classes,notebooks,deadlines}.go`) | four tables, `users.last_seq` | Upsert, Since per table | called by the handlers |
| Sync handlers (`server/internal/http/sync.go`) | a batch or a page under construction, per request | push, pull | HTTP from clients |
| Sync engine (`web/src/sync/{index,push,pull}.ts`) | guard, snapshot, answers, cursor in `meta` | sync, pushDirtyRows, pullRemoteChanges | local database, HTTP client |
| Local database (`web/src/db`) | rows with `version`, `dirty`, `updatedAt` | create, update, delete, cascade, clearEverything | editor, views, sync engine |
| HTTP client (`web/src/sync/api.ts`) | one deadline per request | send | server |
| App shell (`web/src/App.tsx`) | gate, drain timer | drain loop, sign-out, sign in again | sync engine |
| Editor, autosave (`features/notes/Editor.tsx`, `useAutosave.ts`) | document, `unsaved`, pending write | type, flush, take a change of the row | local database |
| Sessions, accounts (`store/{sessions,users}.go`, `http/{auth,session,middleware}.go`) | accounts, sessions, two cookies | register, login, slide, heal, logout | every request |
| Rate limiter (`http/ratelimit.go`) | a bucket per address | allow, sweep | login, register |
| Migrations, process, deployment (`store/migrate.go`, `cmd/nefix/main.go`, `deploy/`) | schema version, releases, link, backups | migrate, listen, switch, roll back, prune | systemd |

What is hard in it: a cycle is a dozen awaits long and the user types between
any two of them; requests of several devices interleave between the SQL
statements of each other; an answer may be lost after its rows committed, and
the abandoned request may commit still later; the editor holds text the
database has not got; a tab may be reloaded, hidden, signed out or opened
twice; cookies lapse at different times; a process may restart, and an update
may be cut off between any two commands.

Correct means, in the order of importance: nothing a user wrote in a note
disappears; what the server accepted is not undone by an older copy; a device
that claims to be up to date is; when the editing stops every device shows the
same; signing out leaves nothing behind; who is not signed in has no session;
and the service comes back after a bad update.

## Modules

| Module | Models | Kind |
|---|---|---|
| `SyncServer` | sync store and sync handlers | component |
| `NefixSync` | devices, tabs and cycles over `SyncServer` (EXTENDS it: they share the handlers' state) | composition |
| `RowHistory` | what the server promises: a row is one line of versions | abstract specification of `NefixSync` |
| `EditorSession` | editor and autosave over the rows of `NefixSync` | composition |
| `Shell` | gate, drain loop, guard, status, deadline, refused batches and rows, pending writes, sign-out | component |
| `Library` | classes, notebooks, collegebooks, notes, pages, deadlines on several devices | component |
| `Access` | accounts, sessions and the two cookies | component |
| `Limiter` | the token buckets | component |
| `Allowance` | an allowance nobody forgets | abstract specification of `Limiter` |
| `Deploy` | update script, systemd, start and migration of the process | component |
| `Host` | `Deploy` with `Limiter` in the memory of its process | composition |
| `MC*` | constants for TLC | instances |
| `SyncServer_proofs`, `NefixSync_proofs`, `NefixSync_conflicts`, `EditorSession_proofs`, `Shell_proofs`, `Library_proofs`, `Access_proofs`, `Host_proofs` (with the limiter) | theorems | proofs |

Definitions that begin with the comment *Mutant:* are not part of a model: each
is a way the code could be wrong, and the property it is paired with in
`PROJECT.json` finds it.

### SyncServer

`rows` is the four tables keyed by id (ids are unique across them), `lastSeq`
is `users.last_seq`, `handler[h]` is one goroutine: free, serving a push (rows
`todo`, answer `results`) or a pull (`unread` tables, rows `got`). `start` is a
history variable no action reads.

* `PushArrives`, then one of `UpsertAccepted`, `UpsertConflict`,
  `UpsertForbidden` per row: one SQLite transaction each, with `nextSeq`
  inside the first. The rows go in the order classes, notebooks, notes,
  deadlines and within a kind in the order of the array, which the client fills
  in primary-key order (`IsNext`).
* `PullArrives`, then `ReadTable` four times, then the page: `PageRows`,
  `PageCursor` and `HasMore` are `page()`. The four queries are four steps
  because the code runs them outside a transaction.
* `Respond`; `HandlerFails` for a 500 or a cancelled context, after any number
  of rows; `Restart` of the process.

The server alone (`ServerSpec`) is driven by clients that push anything a
client could hold and pull from any cursor the account has passed. `MaxSeq`
bounds the pushes of these clients only. Columns are one opaque body;
timestamps are left out. A batch that `validate()` refuses writes nothing and
is `Shell`'s.

### NefixSync

`local[d]` is the IndexedDB of a browser, `cursor[d]` its `syncCursor`,
`tab[t]` the cycle a tab is in. A row's content is the set of edits it carries:
an edit keeps what the row had and adds itself. So a row that lacks an edit
lost it through the program and not through its author. `stamp` is `updatedAt`:
the number of the edit that wrote it, or 0 for a stamp copied from the server,
which has another precision and format and equals no local one.

* `Create`, `Edit`: the write functions of `web/src/db`; a deletion is an edit
  of one field.
* `StartCycle` (guard and snapshot), `SendBatch`, `ReceiveResults`, then per
  answer `ApplyAccepted`, `ApplyNoteConflict`, `ApplyContainerConflict` or
  `ApplyForbidden`, each a Dexie transaction; then `AskFirstPage`, `ApplyPage`,
  `AskNextPage` until the server has no more or `MaxPages` is reached.
* `GiveUp` (deadline, lost answer, reload, closed tab), `ServerError`,
  `ServerRestart` are the faults, bounded by `MaxFaults`. The request behind a
  `GiveUp` keeps running and may commit any number of its rows before `Cancel`
  ends it.
* `SignInAs`: the "sign in again" banner, taken by whoever has a password.

Abstractions: the snapshot of the four tables is one step where the code has
four awaits (no property relates rows of different kinds); ids are handed out
in one global order, as clocks that agree would; `CoarseClock` says whether two
edits of a row may share a millisecond; rows never vanish from a device
(clearing them is `Shell`'s).

### RowHistory

Per row: its owner, version and edits. The only step writes the next version,
in the account of the first, with everything the version before contained.
`NefixSync` maps `rows` to it and implements it (`RowsHaveOneHistory`): seen
from above there are no devices, requests, conflicts or faults. The promise
does not hold for `EditorSession`, which is the finding `editor_overwrite`.

### EditorSession

`editor[t]` is the open note, the document, `unsaved` and the write the timer
will flush. `Type` is `onUpdate`; `AutosaveFires`, `Open`, `Leave` and
`TabEnds` flush; `RowSeen` is the subscription to the row with its two guards;
`DeleteFromList` deletes. `Flush` REPLACES the text of the row, as `updateNote`
does, and throws the write away when the note was deleted meanwhile. Other
devices are `RemoteWrite` and `RemoteDelete`: rows the server has accepted,
which this device pulls.

Abstractions: `flush` and the transaction of `updateNote` are one step, and a
write that was started finishes before the page is killed; a note is opened
from its row and not from the list on the screen, which may be a moment old; a
keystroke, a mark and a dragged block are one kind of change.

### Shell

One tab; the accounts of those who use the browser. `cycle` is the guard with
everything a cycle carries, the session its request went out with among it;
`net` is where that request is: sent, hung, answered up to the headers
(`body`), or stalled in the body. `Fails` is the catch and finally of both
halves. A row is its version and the length of its title, because a title over
the limit refuses the whole batch and a fork makes a title longer; on the
server it has an owner, and a row of another's is answered `forbidden`, stays
dirty here and is counted as handled. The gate is `checking`, `in` or `out`;
`AskMe` is `me()` with a user, a 401 or no answer.

A write has two steps: `Create` and `CreateLands`, `Edit` and `EditLands`. In
between the row is in `creating` or `pending`, which is the debounce of
`useAutosave` and the awaits before a transaction. `EditLands` is the timer as
well as the flush of an editor that is unmounted; it finds the row gone when
the tables were cleared, and throws as `updateNote` does. Signing out is
`SignOutAsked`, `LogoutAnswered`, `ClearEverything` and `GateCloses`, the
steps of `signOut`, and everything else goes on between them and after the
last: a cycle in flight, writes that land late, the flush of the editor.

Abstractions: the answer to a batch is applied in one step and the pull is one
page, since `NefixSync` has the steps in between; other devices are
`RemoteEdit`; two tabs are `NefixSync`'s; deleting is `Library`'s. `signedOut`
and `newer` are history.

### Library

Every operation the program calls, each one transaction over the rows it
touches: `CreateClass` with its general notebook, `CreateCollegebook` with its
first page, `CreateText`, `CreateDeadline`, `Update`, `Delete`, `Destroy` (the
cascade). None of them asks again whether the class or the notebook on the
screen is still alive, except where the code does (`Update`, but for
`archiveClass`). Rows are synchronised one by one: `PushRow` is the upsert of
one dirty row and the application of its answer (accepted, overruled, or
forked), `PullRow` one row of a page. Each may be taken without the others and
in any order, which is more than batches, cut pages and the four queries of a
pull allow; so nothing said here rests on rows that arrive together. What
happens between an upsert and its answer is `NefixSync`'s. No operation the
program calls moves a row, so its container is a constant; `Containment` says
what may be in what, and that a class has one general notebook.

### Access

One browser, several requests at once. A request takes the cookies that have
not lapsed, then goes through `Lookup`, `Touch` and its handler statement by
statement, beside the others; `Deliver` applies `Set-Cookie` in whatever order
answers arrive, `Lost` loses it. A token stands for its hash and for the CSRF
token derived from it; time is an integer.

Abstractions: `me`, pull and push are one kind of request; `SessionUser` and
`SessionExpiresAt` are one step; the read that heals a CSRF cookie is joined to
the statement of the handler that follows it; a password stands for its hash.

### Limiter, Allowance, Deploy, Host

Time is in ticks, of which `Second` make a second, and a bucket is counted in
what one tick gives back; so what is missing may be a fraction of a second, and
`RetryAfter` rounds it up to whole ones as `math.Ceil` does. `Allowed`,
`TooMany` and `Sweep` are one step each because of the mutex; that the clock is
read just before the lock is taken is not told apart. `Allowance` has no
buckets, only levels that time fills.

`Deploy` has a step for every command of `nefix-update` that changes the
machine, the process that migrates one migration at a time before it listens,
and systemd. A release works, dies or never answers. `Cut` is a kill, a power
cut or a failing command after which the script only exits. Two histories name
what it left: `unjudged`, the releases that were linked when a run was cut off
before its verdict, and `torn`, those in use when one was cut off unpacking over
them. The wait of the script may end at any moment. `Host` composes the two: the
limiter serves while the process is up and starts empty.

## Runs

| Run | Question | Bounds |
|---|---|---|
| `faults` | Do edits survive two devices syncing through faults, is the cursor honest, and do the devices agree in the end? | 2 devices, 2 edits of notes, 1 fault, batches of one row, pages of two, 1 page a cycle |
| `mixed` | With conflicts, forks and refusals of two accounts: is an edit lost, are sequences, answers and pages right, is a row one line of versions? | 2 accounts, a class and 2 notes, 3 edits, batches and pages of one row |
| `editor` | Does what is typed arrive, in the note it was typed in, and is nothing echoed back? | 2 notes, 3 further edits here or elsewhere, 1 tab closed or cycle given up |
| `client` | Do cycles end, is the indicator honest, what outlives a sign-out, what holds a row up? | 2 accounts, a class and notes, 2 edits, 1 fault, 1 sign-out, batches of one row |
| `library` | What do cascades make of what another device writes? | 2 devices, 11 ids of six kinds, 3 operations, any number of rows pushed and pulled |
| `access` | Do sessions and cookies survive every interleaving? | 2 requests at once, 2 sessions, 2 passwords, lifetime 2, clock to 2, 1 fault |
| `host` | Does the service survive updates, and the limiter the service? | 3 releases, 2 kept, 1 fault, 1 client, half seconds |
| `page_gap`, `two_tabs`, `editor_overwrite`, `stalled_body`, `sign_out` | five statements of the repository's comments and docs that the code does not keep | as small as shows it |

Why the bounds suffice. Batches and pages of one row make every loop run more
than once, so that an edit, a fault or another device's push can fall between
two iterations; a page is cut inside a table, between tables and not at all.
Two devices and three edits are the smallest instance with a conflict, an edit
during the request that conflicts, and a fork that is itself pushed. One fault
suffices for a lost answer and a push that outlives its cycle. `editor` starts
with two notes, so that a switch can misdirect a write, and leaves an edit for
the document, one for the other devices and one for a deletion. `client` has
titles one marker below the limit, so that a fork can cross it, and an edit for
the answer in flight and one for the editor beside a sign-out. `library` starts
with a class on both devices and has ids for a second class, for a book with a
page and another, for a deadline, and for every copy three operations can lead
to; three are a row made, its container deleted and an edit beside it. In
`access` a session is half over after one tick and over after two, two requests
slide, heal and end it at once, and two sessions let a cookie be another
session's. In `host` three releases over two kept make pruning take one, two
bad releases can follow each other; a bucket of two attempts of a second each,
in half seconds, makes refusals, a wait of half a second that is rounded up,
and an idle time equal to the time to fill.

Ids must leave room for every fork, because a conflict that finds no id would
wait for ever, which the program never does; `MCLibrary` and `MCShell` define
`MCIdsSuffice` to check it when an instance is changed.

Symmetry is declared where a run has only safety properties: requests, accounts
and whole devices with their tabs in `mixed`, requests in `two_tabs`, devices
in `library`. Deadlock is checked in every run but those of `Shell` and `Library`,
which may stop: the one with its edits and faults spent and a body that stalls,
the other when three operations are made and synchronised.

What they show, beyond types:

* `NoNoteEditLost`, `NothingAcceptedIsUndone`, `CleanRowMatchesServer`,
  `RowsHaveOneHistory`: with one tab per device and distinct stamps, no
  interleaving, fault or conflict drops an edit of a note, undoes an accepted
  write or leaves a row that claims to be clean with other content than the
  server's.
* `CursorCovers`: nothing at or below the cursor is missing on the device, for
  rows of one table and one account. With several tables it inherits
  `page_gap`. It also needs the account to stay: sign-in-again keeps rows and
  cursor, so another account that signs in over them does not get what is below
  the old cursor.
* `PageMissesOnlyConcurrentWrites`, `LastPageIsLast`: a page omits a row at or
  below its cursor only if the row was written after the request arrived, and
  `has_more = false` is honest about everything written before.
* `ConflictIsForeign`: without faults, a conflict always brings something the
  device has not seen. With them a lost answer makes a device conflict with its
  own write; nothing is lost then, but a note forks.
* `Convergence`: when the editing stops, every device ends with what the server
  stores.
* `TypingReachesServer`, `NotesKeepTheirText`, `DirtyIsOurs`: what is typed is
  pending, dirty, or was stored, except for a write into a note deleted
  meanwhile; it lands in its own note; a pulled text is not pushed back.
* `IdleMeansSent`: when the indicator says idle, what still has to be pushed was
  written since the last snapshot, or was refused as another user's. The second
  the indicator does hide: such a row is counted and logged, and nothing more.
* `NothingUnsentOutlivesSignOut`: what the clear of a sign-out removed does not
  come back to be pushed. What may be on the device afterwards is a row the
  server has, put back by a cycle in flight (`sign_out`), perhaps with what the
  unmounting editor had pending for it; and a row created or copied after the
  clear, since a write may land before the gate closes or after it.
* `OnlyABodyHoldsTheGuard`, `OnlyRefusedHoldUp`: a cycle ends unless a body
  stalls, and a row that a tab could push and never does is another user's on
  the server, or waits behind one the server refuses, in its request or an
  earlier one.
* `OnlyARaceSplitsAClass`: where a device has all that was done to a row and to
  its container (`Knows`), they are alive or dead together, unless somebody
  wrote in one of them without having seen all that was done to it. Both
  conditions are needed. A device that has got the one and not yet, or because
  of `page_gap` never, the other does see a class without its notebook.
* `DeletionTakesOnlyWhatItSaw`: a deletion takes no text its author could not
  see.
* `SignedOutStaysOut`, `SessionsNeedThePassword`, `CookiesWithinSession`,
  `WritesComeBack`: see the comments in `Access`. `WritesComeBack` depends on a
  page that asks `me()` again, which only a reload does: a push without a CSRF
  cookie is not sent and the pull that would heal it does not follow.
* `RollbackTargetHasServed`: what a rollback would go back to has answered once,
  or it is the very release an earlier run left linked when it was cut off
  before its verdict. That one the next run does take for good.
* `CurrentIsWhole`: pruning leaves the release in use; it is in pieces only while
  a run unpacks it again, or from a run cut off doing so until one has unpacked
  it.
* `MigrationsAreBackedUp`: the database is copied before it changes, cuts or not.
* `ServiceComesBack`: a bad release is undone and the old one answers over the
  schema the new one left. It promises nothing while a release is linked that a
  run cut off left unjudged or torn.
* `WaitIsEnough`, `SweepingIsInvisible`: Retry-After, in whole seconds, is
  enough whatever fraction of an attempt is missing, and a limiter that forgets
  idle clients lets nobody in that one that does not would refuse.

## Fairness

* `FairSpec` (`NefixSync`): weak fairness of each tab's cycle and of each
  request on the server. The first is the drain loop of `App.tsx` (ten seconds
  while visible, and the focus, online and visibility events) together with the
  deadline of a request; the second is that the server answers what it received
  or loses it, and a lost request is a bounded fault that the client notices.
* `ShellSpec`: weak fairness of the steps of a cycle, with the deadline among
  them. A stalled body is not one of them: nothing ends it.
* `AccessFairSpec`: the server runs what it received, answers arrive, and a
  page that is opened again asks who is signed in. The last is strong, since
  the slot it uses may be taken by other requests again and again; it stands
  for the user reloading the page, and `WritesComeBack` promises nothing
  to a page that is never reloaded.
* `HostSpec`: the process and systemd go on, and so does a script that runs.

Neither edits, sign-ins, updates nor faults are fair anywhere.

## Proofs

All proofs are by TLAPS, from nothing but the named assumptions on the
constants. They hold for any accounts, rows, requests, devices, batch and page
sizes, lifetimes, releases, and any number of edits and faults; the runs above
check the same formulas on small instances.

| Theorem | States | Assumes also |
|---|---|---|
| `ServerTypeCorrect` | `ServerTypeOK` | |
| `SequencesAreDistinct` | `SeqsDistinct` | |
| `AcceptedVersionsAreStored` | `AcceptedIsStored` | |
| `EveryWriteAdvances` | `WritesAdvance` | |
| `PagesMissOnlyConcurrentWrites`, `HasMoreIsTrue` | `PageMissesOnlyConcurrentWrites`, `LastPageIsLast` | |
| `PagesStayComplete` | both, for the server as the devices drive it | |
| `TypeCorrect` | `TypeOK` | |
| `NoNoteEditIsLost` | `NoNoteEditLost` | one tab per device, distinct stamps |
| `CleanRowsMatch` | `CleanRowMatchesServer` | the same |
| `AcceptedStays` | `NothingAcceptedIsUndone` | the same |
| `RowsKeepOneHistory` | `RowsHaveOneHistory`, the refinement of `RowHistory` | the same |
| `CursorTellsTruth` | `CursorCovers` | the same, rows of one table, no change of account |
| `ConflictsAreForeign` | `ConflictIsForeign`, until the first fault | the same two |
| `EditorTypeCorrect`, `TextsStayInTheirNote` | `EditorTypeOK`, `NotesKeepTheirText` | |
| `TypingIsNotLost`, `NothingIsSentBack` | `TypingReachesServer`, `DirtyIsOurs` | one tab per device, distinct stamps |
| `ShellTypeCorrect`, `IdleIsHonest`, `SignedOutIsClean` | `ShellTypeOK`, `IdleMeansSent`, `NothingUnsentOutlivesSignOut` | |
| `LibraryTypeCorrect`, `DeletionIsInformed`, `ClassesStayWhole` | `LibraryTypeOK`, `DeletionTakesOnlyWhatItSaw`, `OnlyARaceSplitsAClass` | |
| `AccessTypeCorrect`, `SignedOutStays`, `PasswordsOpenSessions`, `CookiesEndInTime` | `AccessTypeOK`, `SignedOutStaysOut`, `SessionsNeedThePassword`, `CookiesWithinSession` | |
| `LimiterTypeCorrect`, `WaitingHelps`, `SweepRefines` | `LimiterTypeOK`, `WaitIsEnough`, `SweepingIsInvisible`, the refinement of `Allowance` | |
| `DeployTypeCorrect`, `LinkedReleaseIsWhole` | `DeployTypeOK`, `CurrentIsWhole` | |
| `RollbackIsSafe`, `BackedUpBeforeMigrating` | `RollbackTargetHasServed`, `MigrationsAreBackedUp` | |

The two extra assumptions are `OneTabEach` and `FineClock` (`CoarseClock` is
false). Both are needed. With two edits in one millisecond around a snapshot,
accepting the first clears the flag of the second, and a later pull overwrites
it. With two tabs the guard of push.ts does not exclude two cycles over one
database, which the argument relies on. One table is what `page_gap` takes
away; sequences of one account say nothing of another's rows; and after a lost
answer a device does conflict with its own write.

*The server.* `SeqsDistinct` becomes inductive with the types, with "a handler
that serves has an account" (`HandlersHaveUsers`) and with "stored rows belong
to an account, others to nobody" (`OwnersKnown`): the new sequence is above
`last_seq`, which is above every sequence of the account. `AcceptedIsStored`
splits the steps into the one that writes and those that at most forget answers
(`QuietStep`).

*Pages.* `Gathers`: a row that a pull has reached (it stood where it stands
when the pull arrived, or a row read with it is later) is among what the pull
got, or more rows than the page holds lie before it. So what is cut from a page
lies beyond its cursor, which needs the cardinality of what was read and the
least and greatest sequence of it.

*Types of the whole.* Only the cursor of a page needs an argument: it is the
highest sequence of a set, and it exists because what a pull has read lies at
or below `last_seq` (`GotBounded`).

*Safety of the whole.* None of the properties is inductive. `IInv` follows
every copy of a row through its travels:

* `Known`, `Based`: a copy names a version the server has had. If that is
  still the stored version, a copy nobody edited equals the stored row, and a
  dirty one contains it. Batches on their way, results, pages and rows of
  devices all satisfy one of the two (`ServerKnows`, `DevicesKnow`).
* So an accepted write, which is made over the version it names, only adds
  edits (`UpsertGrows`). Late answers and pages therefore stay true whatever
  is accepted in between (`Grows` and the lemmas that end in `Stays`).
* Until the answer to a snapshot is applied, its row is on the device, dirty,
  at the same version, edited forwards only, and unedited if its stamp is the
  one sent (`Held`). That is where distinct stamps and one tab per device are
  used, and it is why `Accepted` may clear the flag.
* `Orderly`, `Serves`: a row is sent once in a run and the answer it gets is
  the answer to what was sent, although results cross in flight.
* `Fresh`: the id of a fork is nowhere yet, so a fork overwrites nothing.
* `NotesKept`: the edit of a note is in a stored note or in a dirty one.

The refinement of `RowHistory` needs no more: a step that writes is
`UpsertAccepted`, whose write contains what is stored by `UpsertGrows`, and
every other step leaves the rows alone.

*The cursor.* `CursorInv` adds to `CursorCovers` what the answers on their way
know of the cursor they will meet. The cursor never
passes `last_seq` (`CursorOfPast`), so whatever is written later is above it;
an answer on its way names the stored version or the row has moved on above the
cursor (`AnswersTimely`), so applying it unsettles nothing; and a pull in
flight goes on from the cursor the device has (`PullsFromCursor`), whose page
is complete by `Gathers`, since one table is one query.

*Conflicts.* The argument is about who holds which edit. What two devices both
have, the server has (`EditsPrivate`), and whoever has something to push has an
edit the server lacks (`PushesAddSomething`). So an accepted write brings an
edit that no other device has: a device whose row is at an older version lacks
something of the stored one, unless it wrote it and is about to hear so
(`OldRowsLack`), and until then the row is not sent again (`Accompanied`,
`Resting`). A lost answer breaks exactly that last part.

*The editor.* `Flush` replaces a text, so `IInv` does not hold below it. What
does hold is about texts on their way. A cycle carries texts and makes none,
except that a fork takes a text to a new id (`Moves`); so what is true of all
texts of a note stays true until somebody types, for any number of tabs
(`FitInv`), and a pending write is for the note the editor shows
(`EditorFits`). For the edits themselves (`SendInv`): nobody is told what the
server has never stored (`AllSaidReached`), so what an answer or a page brings
waits for nothing; a snapshot not yet settled stands for a dirty row, with its
text as long as its stamp is the one taken (`SnapshotsHere`), so clearing the
flag settles what was sent; what the row of an open note has and the document
has not is stored (`OpenCovers`), so a flush takes away nothing that waits; and
the newest edit of a pending write is nowhere but in its editor (`Writing`), so
no row that is seen can look like it and the flushed row gets a stamp no
snapshot has.

*The shell.* `Accounted`: a row that has to be pushed, was in the snapshot and
was not edited since is one the running cycle will still send, one it was
refused as another user's, or the cycle failed and the status says so.
`Cleared`: while signed out, a row on the device was created or copied since
the clear, or the server has it: an answer in flight puts back only rows of the
server's (`Owned`), a copy is made only of a row that is there, and a pending
write finds its row gone. Both need every answer to be about the batch that was
sent (`Batches`), and ids to be handed out before a row has them (`Handed`), or
a fork could take the id of a row in flight.

*Access.* A token is handed out once, and only while room is left for the
sign-ins on their way (`Capacity`). What a request knows of its session is
still true whenever it uses it (`Requests`), a cookie in the jar or on its way
ends no later than its session, because sessions only grow until they are
deleted (`Jar`), a session's password is the account's, because an account
never changes it (`Table`), and an ended token has been issued, so no new
session takes it (`Endings`).

*Library.* `RowsSound` is about single rows, raced for or not. Deleting takes
only what was seen because a device whose row is at the server's version has
the server's text (`UpToDate`), and a delete is accepted at no other version;
text in a dead note was there for its deleter (`GoneWhenDead`). For the classes
there is `UnracedInv`: a row nobody raced for has one writer at a time, who has
the latest version (`OneWriter`), and such a row and its container, in the
latest state of each wherever that is, come and go together
(`LatestTogether`). Pushing or pulling a row moves its latest state from one
place to another and changes neither, which is why the argument needs no two
rows to travel together; the property is then what a device that knows both can
see.

*Limiter.* What is left to wait brings back what is missing (`WaitBringsBack`),
because whole seconds rounded up are at least the ticks that lack; the
refinement is that a swept bucket was full, which is the assumption `Burst <=
IdleTime`.

*Host.* `Answered`: outside a switch the link names a release that has served
or is `unjudged`, within one the release to go back to is such. `Copied`:
whatever the process may be started from had the database copied for it. Both
are carried from one run of the script to the next. `OnDisk`: what the link
names and what the script has linked or would go back to is whole or `torn`,
except while its own archive is unpacked again, and the release just unpacked
is the newest (`NewestIsTarget`), which pruning leaves.

*Only model-checked.* Every invariant and every safety property of a passing
run is a theorem. Liveness (`Convergence`, `OnlyABodyHoldsTheGuard`,
`OnlyRefusedHoldUp`, `WritesComeBack`, `ServiceComesBack`) is outside what
these provers do.

## Where the code and its words disagree

Each is a run whose single property TLC refutes; `PROJECT.json` quotes the line
that promises it.

* `page_gap`: a pull that overlaps a push over several tables can move a
  client's cursor past a row the client never gets.
* `two_tabs`: two tabs run cycles over one database, each with a guard of its
  own; the second push conflicts with the first and forks the note. No edit is
  lost by it.
* `editor_overwrite`: a pull replaces a clean row and its version under a
  pending autosave; the autosave writes the older text at the new version, the
  server accepts it, and the other device's edit is gone without a fork. The
  comment expects a conflict.
* `stalled_body`: the deadline of a request is cleared when its headers are in;
  a body that stalls after them holds the guard for the life of the tab.
* `sign_out`: signing out clears the tables while a cycle is in flight, whose
  answers then put notes back, into which the editor that closes may still flush
  what was typed.

## Not modelled

* Page order is a float midpoint that the program only ever appends with;
`uuidv7`'s counter and clock are assumed to keep ids new and growing. * The
byte limit of a batch (413): its consequence is that of a refused title.   The
other rules of `validate`, and query parameters, write nothing either. *
Signing in again while a confirmed sign-out is under way, and a second sign-out
in one behaviour of `client` (the proofs have any number). * What is on the
screen: the selection of `App.tsx`, its lists and the order in   which their
reads come back, and the class remembered for the next note. A   write is made
by id, so none of it can misdirect one. * The editor of a collegebook page that
is scrolled away and back within the   debounce; two tabs with editors of their
own; schema upgrades of IndexedDB. * Functions nothing calls (`restoreNote`,
`unarchiveClass`, `updateDeadline`,   `deleteNotebook`, `DeleteUserSessions`,
`DeleteExpiredSessions`). * Rendering, wording, search, outline and dates
(pure, covered by unit tests),   static files, per-device settings, and the
diagnostics record.

Worth adding next: `EditorSession` without pulls under a pending write, where
`NothingAcceptedIsUndone` should hold; an abstract specification of the editor
(what is typed is kept) for it to refine; and the pages of a collegebook with
several editors over one tab.
