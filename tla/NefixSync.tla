------------------------------ MODULE NefixSync ------------------------------
(***************************************************************************)
(* Devices that keep an account's rows in IndexedDB, edit them offline and *)
(* synchronise them with the server of SyncServer: web/src/sync over       *)
(* web/src/db.                                                             *)
(*                                                                         *)
(* A browser tab runs cycles.  A cycle snapshots the dirty rows, pushes    *)
(* them in batches, applies each answered row in a transaction of its own, *)
(* and then pulls pages from the stored cursor until the server has no     *)
(* more.  Edits land in the local rows at any moment between those steps.  *)
(*                                                                         *)
(* The content of a row is the set of edits it carries: an edit keeps what *)
(* was there and adds itself, so an edit that is in no row any more was    *)
(* dropped by the program and not by its author.  A local row's updatedAt  *)
(* is the number of the edit that stamped it; 0 is a stamp copied from the *)
(* server, whose format no local stamp shares.                             *)
(***************************************************************************)
EXTENDS SyncServer

CONSTANTS
  Devices,    \* browsers, one IndexedDB each
  Tabs,       \* open tabs
  DeviceOf,   \* the device a tab runs on
  NoHandler,  \* a tab with no request in flight
  BatchSize,  \* BATCH: rows of one table in one push
  PageSize,   \* PAGE: rows in one pull
  MaxPages,   \* MAX_PAGES: pages in one cycle
  CoarseClock,\* whether two edits of one row may share a millisecond
  MaxEdits,   \* bound: edits made in a behaviour
  MaxFaults   \* bound: timeouts, reloads, server errors and restarts

Edits == 1..MaxEdits

ASSUME DevicesAssumption ==
  /\ DeviceOf \in [Tabs -> Devices]
  /\ NoHandler \notin Handlers
ASSUME ContentAssumption == Bodies = SUBSET Edits /\ NoBody = {}
ASSUME BoundsAssumption ==
  /\ BatchSize \in Nat \ {0} /\ PageSize \in Nat \ {0} /\ MaxPages \in Nat \ {0}
  /\ CoarseClock \in BOOLEAN /\ MaxEdits \in Nat /\ MaxFaults \in Nat

VARIABLES
  local,   \* IndexedDB: the rows each device holds
  cursor,  \* meta.syncCursor
  tab,     \* the cycle each tab is in, lost when the tab reloads
  account, \* the account whose session cookie each browser holds
  used,    \* ids uuidv7 has handed out
  edits,   \* edits made so far
  noteEdits, \* history: those of them made in notes
  faults   \* faults so far

clientVars == <<local, cursor, tab, account, used, edits, noteEdits, faults>>
vars == <<serverVars, clientVars>>

LocalRow == [here : BOOLEAN, ver : Nat, dirty : BOOLEAN, stamp : 0..MaxEdits,
             body : SUBSET Edits]
Snapshot == [id : Ids, ver : Nat, stamp : 0..MaxEdits, body : SUBSET Edits]
Tab == [pc      : {"idle", "push", "sent", "pull", "wait"},
        queue   : SUBSET Snapshot,  \* dirty rows of this run not sent yet
        batch   : SUBSET Snapshot,  \* rows of the last request
        results : SUBSET Result,    \* its answers not applied yet
        since   : Nat,              \* pullRemoteChanges' since, after page one
        pages   : Nat,
        request : Handlers \cup {NoHandler}]

Missing  == [here |-> FALSE, ver |-> 0, dirty |-> FALSE, stamp |-> 0, body |-> {}]
NoCycle  == [pc |-> "idle", queue |-> {}, batch |-> {}, results |-> {},
             since |-> 0, pages |-> 0, request |-> NoHandler]

TypeOK ==
  /\ ServerTypeOK
  /\ local \in [Devices -> [Ids -> LocalRow]]
  /\ cursor \in [Devices -> Nat]
  /\ tab \in [Tabs -> Tab]
  /\ account \in [Devices -> Users]
  /\ used \subseteq Ids
  /\ edits \in 0..MaxEdits
  /\ noteEdits \subseteq 1..edits
  /\ faults \in 0..MaxFaults

Init ==
  /\ ServerInit
  /\ local = [d \in Devices |-> [i \in Ids |-> Missing]]
  /\ cursor = [d \in Devices |-> 0]
  /\ tab = [t \in Tabs |-> NoCycle]
  /\ account \in [Devices -> Users]
  /\ used = {}
  /\ edits = 0
  /\ noteEdits = {}
  /\ faults = 0

Dev(t) == DeviceOf[t]

\* The id uuidv7 hands out next: ids grow, so a later row sorts later.
IsFresh(i, k) ==
  /\ i \in Ids \ used
  /\ KindOf[i] = k
  /\ \A j \in Ids \ used : KindOf[j] = k => i <= j

-----------------------------------------------------------------------------
(* Editing.                                                                *)

\* The clock and the history of an edit of row i.
Authored(i) ==
  /\ edits < MaxEdits
  /\ edits' = edits + 1
  /\ noteEdits' = IF KindOf[i] = "note" THEN noteEdits \cup {edits + 1}
                                       ELSE noteEdits

\* createNote, createClass, createNotebook, createDeadline.
Create(d, i) ==
  /\ Authored(i)
  /\ IsFresh(i, KindOf[i])
  /\ used' = used \cup {i}
  /\ local' = [local EXCEPT ![d][i] =
       [here |-> TRUE, ver |-> 0, dirty |-> TRUE, stamp |-> edits + 1,
        body |-> {edits + 1}]]
  /\ UNCHANGED <<serverVars, cursor, tab, account, faults>>

\* updateNote, deleteNote and their kin: a write keeps the version the row was
\* fetched at, marks it dirty and stamps it with the clock.
Edit(d, i) ==
  LET row == local[d][i]
  IN  /\ Authored(i)
      /\ row.here
      /\ \E stamp \in {edits + 1} \cup
                      (IF CoarseClock /\ row.stamp # 0 THEN {row.stamp} ELSE {}) :
           local' = [local EXCEPT ![d][i] =
             [row EXCEPT !.dirty = TRUE, !.stamp = stamp,
                         !.body = @ \cup {edits + 1}]]
      /\ UNCHANGED <<serverVars, cursor, tab, account, used, faults>>

-----------------------------------------------------------------------------
(* Push.                                                                   *)

\* Mutant: a version of 0 is taken for no version, and the row is skipped.
VersionedRows(d) ==
  {[id |-> i, ver |-> local[d][i].ver, stamp |-> local[d][i].stamp,
    body |-> local[d][i].body] :
     i \in {j \in Ids : local[d][j].here /\ local[d][j].dirty /\ local[d][j].ver # 0}}

DirtyRows(d) ==
  {[id |-> i, ver |-> local[d][i].ver, stamp |-> local[d][i].stamp,
    body |-> local[d][i].body] :
     i \in {j \in Ids : local[d][j].here /\ local[d][j].dirty}}

\* sync(): the guard, then pushDirtyRows takes everything dirty in one go.
StartCycle(t) ==
  /\ tab[t].pc = "idle"
  /\ tab' = [tab EXCEPT ![t] =
       [NoCycle EXCEPT !.pc = "push", !.queue = DirtyRows(Dev(t))]]
  /\ UNCHANGED <<serverVars, local, cursor, account, used, edits, noteEdits, faults>>

\* The next slice of every table at once, in the order of the primary key.
NextBatch(queue) ==
  {s \in queue :
     Cardinality({r \in queue : KindOf[r.id] = KindOf[s.id] /\ r.id < s.id})
       < BatchSize}

SendBatch(t, h) ==
  LET batch == NextBatch(tab[t].queue)
  IN  /\ tab[t].pc = "push"
      /\ tab[t].results = {}
      /\ tab[t].queue # {}
      /\ PushArrives(h, account[Dev(t)],
           {[id |-> s.id, ver |-> s.ver, body |-> s.body] : s \in batch})
      /\ tab' = [tab EXCEPT ![t].pc = "sent", ![t].queue = @ \ batch,
                            ![t].batch = batch, ![t].request = h]
      /\ UNCHANGED <<local, cursor, account, used, edits, noteEdits, faults>>

ReceiveResults(t) ==
  LET h == tab[t].request
  IN  /\ tab[t].pc = "sent"
      /\ PushAnswered(h)
      /\ Respond(h)
      /\ tab' = [tab EXCEPT ![t].pc = "push", ![t].results = handler[h].results,
                            ![t].request = NoHandler]
      /\ UNCHANGED <<local, cursor, account, used, edits, noteEdits, faults>>

\* The answer the loop over results reaches next, with the row that was sent.
IsNextResult(t, r, sent) ==
  /\ tab[t].pc = "push"
  /\ r \in tab[t].results
  /\ \A other \in tab[t].results : ~Precedes(other.id, r.id)
  /\ sent \in tab[t].batch
  /\ sent.id = r.id

\* Mutant: a row built from the wire without its dirty flag.
FromWireWithoutFlag(ver, body) ==
  [here |-> TRUE, ver |-> ver, stamp |-> 0, body |-> body]

ResultApplied(t, r) == tab' = [tab EXCEPT ![t].results = @ \ {r}]

FromWire(ver, body) ==
  [here |-> TRUE, ver |-> ver, dirty |-> FALSE, stamp |-> 0, body |-> body]

\* Mutant: the row keeps the version that was sent.
AcceptedKeepsVersion(current, r, sent) ==
  [current EXCEPT !.dirty = (current.stamp # sent.stamp)]

\* Mutant: the version is stored only when the row did not move on.
AcceptedUnlessMoved(current, r, sent) ==
  IF current.stamp # sent.stamp THEN current
  ELSE [current EXCEPT !.ver = r.ver, !.dirty = FALSE]

\* The row takes the server's version and stays dirty only when its stamp is
\* no longer the one that was sent.
Accepted(current, r, sent) ==
  [current EXCEPT !.ver = r.ver, !.dirty = (current.stamp # sent.stamp)]

ApplyAccepted(t, r, sent) ==
  LET d == Dev(t)
      current == local[d][r.id]
  IN  /\ IsNextResult(t, r, sent)
      /\ r.status = "accepted"
      /\ local' = IF ~current.here THEN local ELSE
           [local EXCEPT ![d][r.id] =
             Accepted(current, r, sent)]
      /\ ResultApplied(t, r)
      /\ UNCHANGED <<serverVars, cursor, account, used, edits, noteEdits, faults>>

\* Mutant: the copy is not queued for a push.
ForkStaysClean(row) == [row EXCEPT !.ver = 0, !.dirty = FALSE]

Fork(row) == [row EXCEPT !.ver = 0, !.dirty = TRUE]

\* Mutant: notes take the server's copy as the other tables do.
NothingForks(i) == FALSE

Forks(i) == KindOf[i] = "note"

\* A note forks: the row as it is now is kept under a new id, never synced,
\* and the server's copy takes its place.
ApplyNoteConflict(t, r, sent) ==
  LET d == Dev(t)
      current == local[d][r.id]
  IN  /\ IsNextResult(t, r, sent)
      /\ r.status = "conflict"
      /\ Forks(r.id)
      /\ IF ~current.here THEN UNCHANGED <<local, used>> ELSE
           \E fork \in Ids :
             /\ IsFresh(fork, "note")
             /\ used' = used \cup {fork}
             /\ local' = [local EXCEPT
                  ![d][fork] = Fork(current),
                  ![d][r.id] = FromWire(r.ver, r.body)]
      /\ ResultApplied(t, r)
      /\ UNCHANGED <<serverVars, cursor, account, edits, noteEdits, faults>>

\* A class, a notebook or a deadline takes the server's copy, whatever the
\* local row has become since it was sent.
ApplyContainerConflict(t, r, sent) ==
  /\ IsNextResult(t, r, sent)
  /\ r.status = "conflict"
  /\ ~Forks(r.id)
  /\ local' = [local EXCEPT ![Dev(t)][r.id] = FromWire(r.ver, r.body)]
  /\ ResultApplied(t, r)
  /\ UNCHANGED <<serverVars, cursor, account, used, edits, noteEdits, faults>>

\* Another account's row: counted and left dirty.
ApplyForbidden(t, r, sent) ==
  /\ IsNextResult(t, r, sent)
  /\ r.status = "forbidden"
  /\ ResultApplied(t, r)
  /\ UNCHANGED <<serverVars, local, cursor, account, used, edits, noteEdits, faults>>

ApplyResult(t) ==
  \E r \in tab[t].results, sent \in tab[t].batch :
    \/ ApplyAccepted(t, r, sent)
    \/ ApplyNoteConflict(t, r, sent)
    \/ ApplyContainerConflict(t, r, sent)
    \/ ApplyForbidden(t, r, sent)

-----------------------------------------------------------------------------
(* Pull.                                                                   *)

AskPage(t, h, since) ==
  /\ PullArrives(h, account[Dev(t)], since, PageSize)
  /\ tab' = [tab EXCEPT ![t] =
       [NoCycle EXCEPT !.pc = "wait", !.pages = tab[t].pages, !.request = h]]
  /\ UNCHANGED <<local, cursor, account, used, edits, noteEdits, faults>>

\* The whole push is applied: pull from the cursor stored with the rows.
AskFirstPage(t, h) ==
  /\ tab[t].pc = "push"
  /\ tab[t].results = {}
  /\ tab[t].queue = {}
  /\ AskPage(t, h, cursor[Dev(t)])

AskNextPage(t, h) ==
  /\ tab[t].pc = "pull"
  /\ AskPage(t, h, tab[t].since)

KeepsLocal(row) == row.here /\ row.dirty

\* applyPage: every row of the page that is not dirty here, and the cursor,
\* in one transaction.
ApplyPage(t) ==
  LET d == Dev(t)
      h == tab[t].request
      pages == tab[t].pages + 1
      Remote(i) == {c \in PageRows(h) : c.id = i}
  IN  /\ tab[t].pc = "wait"
      /\ PullAnswered(h)
      /\ Respond(h)
      /\ local' = [local EXCEPT ![d] = [i \in Ids |->
           IF Remote(i) = {} \/ KeepsLocal(local[d][i]) THEN local[d][i]
           ELSE LET c == CHOOSE c \in Remote(i) : TRUE
                IN  FromWire(c.ver, c.body)]]
      /\ cursor' = [cursor EXCEPT ![d] = PageCursor(h)]
      /\ tab' = [tab EXCEPT ![t] =
           IF HasMore(h) /\ pages < MaxPages
           THEN [NoCycle EXCEPT !.pc = "pull", !.since = PageCursor(h),
                                !.pages = pages]
           ELSE NoCycle]
      /\ UNCHANGED <<account, used, edits, noteEdits, faults>>

-----------------------------------------------------------------------------
(* Faults.                                                                 *)

Fault == faults < MaxFaults /\ faults' = faults + 1

\* Mutant: the cursor of an answered page is stored before its rows are.
CursorBeforeRows(t) ==
  /\ Fault
  /\ tab[t].pc = "wait"
  /\ PullAnswered(tab[t].request)
  /\ cursor' = [cursor EXCEPT ![Dev(t)] = PageCursor(tab[t].request)]
  /\ tab' = [tab EXCEPT ![t] = NoCycle]
  /\ UNCHANGED <<serverVars, local, account, used, edits, noteEdits>>

\* A timeout, a lost answer, a reload or a closed tab: the cycle is over and
\* the request, if there is one, goes on without a listener.
GiveUp(t) ==
  /\ Fault
  /\ tab[t].pc # "idle"
  /\ tab' = [tab EXCEPT ![t] = NoCycle]
  /\ UNCHANGED <<serverVars, local, cursor, account, used, edits, noteEdits>>

\* An error answer ends the cycle of the tab that waits for it.
ServerError(h) ==
  /\ Fault
  /\ HandlerFails(h)
  /\ tab' = [t \in Tabs |-> IF tab[t].request = h THEN NoCycle ELSE tab[t]]
  /\ UNCHANGED <<local, cursor, account, used, edits, noteEdits>>

ServerRestart ==
  /\ Fault
  /\ Restart
  /\ tab' = [t \in Tabs |-> IF tab[t].request = NoHandler THEN tab[t] ELSE NoCycle]
  /\ UNCHANGED <<local, cursor, account, used, edits, noteEdits>>

\* A request nobody waits for any more.
Unheard(h) == \A t \in Tabs : tab[t].request # h

\* Its context is cancelled: it stops where it is, after all of its rows or
\* after some of them.
Cancel(h) ==
  /\ Unheard(h)
  /\ HandlerFails(h)
  /\ UNCHANGED clientVars

-----------------------------------------------------------------------------
\* "Sign in again" after a 401 ended the cycle, as whoever has a password: the
\* rows and the cursor of the browser stay (App.tsx, onSignedOut).
SignInAs(d, u) ==
  /\ account[d] # u
  /\ \A t \in Tabs : Dev(t) = d => tab[t].pc = "idle"
  /\ account' = [account EXCEPT ![d] = u]
  /\ UNCHANGED <<serverVars, local, cursor, tab, used, edits, noteEdits, faults>>

CycleStep(t) ==
  \/ StartCycle(t)
  \/ ReceiveResults(t)
  \/ ApplyResult(t)
  \/ ApplyPage(t)
  \/ \E h \in Handlers :
       SendBatch(t, h) \/ AskFirstPage(t, h) \/ AskNextPage(t, h)

ServerStep(h) ==
  \/ PushRow(h) /\ UNCHANGED clientVars
  \/ Query(h) /\ UNCHANGED clientVars
  \/ Cancel(h)

Next ==
  \/ \E d \in Devices, i \in Ids : Create(d, i) \/ Edit(d, i)
  \/ \E t \in Tabs : CycleStep(t) \/ GiveUp(t)
  \/ \E h \in Handlers : ServerStep(h) \/ ServerError(h)
  \/ ServerRestart
  \/ \E d \in Devices, u \in Users : SignInAs(d, u)

Spec == Init /\ [][Next]_vars

\* Every open tab starts a cycle on an interval and carries it through, and
\* the server answers what it received.  Nobody has to edit.
Fairness ==
  /\ \A t \in Tabs : WF_vars(CycleStep(t))
  /\ \A h \in Handlers : WF_vars(ServerStep(h))

FairSpec == Spec /\ Fairness

-----------------------------------------------------------------------------
(* Properties.                                                             *)

\* No edit of a note is ever dropped: the server stores it, or some device
\* holds it in a note it still has to push.
NoNoteEditLost ==
  \A e \in noteEdits :
    \/ \E i \in Ids : e \in rows[i].body
    \/ \E d \in Devices, i \in Ids : /\ local[d][i].here
                                     /\ local[d][i].dirty
                                     /\ e \in local[d][i].body

\* A write the server accepts never undoes one it accepted before: no device
\* replaces a row with one made without its stored edits.
NothingAcceptedIsUndone ==
  [][\A i \in Ids : rows[i].body \subseteq rows'[i].body]_vars

\* Seen from above, the devices, their conflicts, their forks and the faults of
\* the network are not there: every row is one line of versions in one account,
\* each made by somebody who had seen the whole of the one before
\* (store/notes.go, UpsertNote, with push.ts, applyConflict).
Promise == INSTANCE RowHistory WITH
  Rows <- Ids, Owners <- Users, Nobody <- NoUser,
  Contents <- Bodies, Blank <- NoBody,
  line <- [i \in Ids |-> [owner |-> rows[i].owner, ver |-> rows[i].ver,
                          edits |-> rows[i].body]]
RowsHaveOneHistory == Promise!Spec

\* A row that claims to have nothing to push holds what the server stored
\* under the version it names.
CleanRowMatchesServer ==
  \A d \in Devices, i \in Ids :
    local[d][i].here /\ ~local[d][i].dirty =>
      /\ local[d][i].ver \in 1..rows[i].ver
      /\ local[d][i].ver = rows[i].ver => local[d][i].body = rows[i].body

\* The cursor tells the truth: whatever the server holds at or below it is on
\* the device, in the stored version or in a row that still has to be pushed.
CursorCovers ==
  \A d \in Devices, i \in Ids :
    /\ Stored(i)
    /\ rows[i].owner = account[d]
    /\ rows[i].seq <= cursor[d]
    => local[d][i].here /\ (local[d][i].dirty \/ local[d][i].ver = rows[i].ver)

\* A conflict is somebody else's write: the server's copy carries an edit the
\* device has not seen.  Otherwise the device would fork, or throw away, its
\* own work (push.ts, running).
ConflictIsForeign ==
  \A t \in Tabs : \A r \in tab[t].results :
    r.status = "conflict" => ~(r.body \subseteq local[Dev(t)][r.id].body)

\* When the editing stops, every device of the account ends up with exactly
\* what the server stores, and keeps it.
Settled ==
  \A d \in Devices, i \in Ids :
    /\ local[d][i].here => ~local[d][i].dirty
    /\ Stored(i) => /\ local[d][i].here
                    /\ local[d][i].ver = rows[i].ver
                    /\ local[d][i].body = rows[i].body
Convergence == <>[]Settled

=============================================================================
