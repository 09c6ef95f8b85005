-------------------------------- MODULE Shell --------------------------------
(***************************************************************************)
(* What surrounds a sync cycle in one tab: the gate and the drain loop of  *)
(* App.tsx, the guard and the status of sync/index.ts and push.ts, the     *)
(* deadline of api.ts, batches and rows the server refuses, the writes     *)
(* that are still pending, and signing out and in, perhaps as another      *)
(* account.                                                                *)
(*                                                                         *)
(* A cycle here is the control around the steps of NefixSync: a push sends *)
(* one batch after the other, the answer to a batch is applied in one      *)
(* step, the pull is one page, and the requests of other devices are one   *)
(* step each (RemoteEdit).  A row is its version and the length of its     *)
(* title, which is what the server refuses a batch for.                    *)
(***************************************************************************)
EXTENDS Integers, FiniteSets

CONSTANTS
  Accounts,    \* users of this browser
  NoOne,       \* no account
  Holder,      \* the account that has rows on the server at the start
  Ids,         \* row ids, in the order uuidv7 hands them out
  Containers,  \* ids of classes, notebooks and deadlines; the others are notes
  Held,        \* the rows of that account at the start
  BatchSize,   \* BATCH: rows of one table in one push
  MaxEdits,    \* bound: edits here and on other devices
  MaxFaults,   \* bound: faults
  MaxSignOuts  \* bound: times somebody signs out

ASSUME ShellAssumption ==
  /\ Holder \in Accounts /\ NoOne \notin Accounts
  /\ Ids \subseteq Nat /\ IsFiniteSet(Ids)
  /\ Containers \subseteq Ids /\ Held \subseteq Ids
  /\ BatchSize \in Nat \ {0}
  /\ MaxEdits \in Nat /\ MaxFaults \in Nat /\ MaxSignOuts \in Nat

VARIABLES
  gate,      \* App: whether the workspace is mounted
  session,   \* the account whose session the cookie of the browser holds
  csrf,      \* the browser holds a readable CSRF cookie
  local,     \* IndexedDB: the rows of this device
  cursor,    \* meta.syncCursor
  creating,  \* rows whose creation has begun and is not in IndexedDB yet
  pending,   \* rows with a change that is not in IndexedDB yet (useAutosave)
  server,    \* the rows on the server
  lastSeq,   \* users.last_seq
  cycle,     \* the cycle that holds the guard, or what was left of the last
  status,    \* syncState.current.status
  signing,   \* how far signOut has come
  signedOut, \* history: signOut has cleared, and nobody has come in since
  newer,     \* history: rows created or copied while signedOut
  used,      \* ids handed out
  edits,     \* edits so far
  faults,    \* faults so far
  signOuts   \* sign-outs so far

storage == <<local, cursor, used, newer>>
writes  == <<creating, pending>>
remote  == <<server, lastSeq>>
cookies == <<session, csrf>>
page    == <<gate, status, signing, signedOut, writes>>
bounds  == <<edits, faults, signOuts>>
vars    == <<page, cookies, storage, remote, cycle, bounds>>

\* A title within the limit of 200, and one over it.
Titles == {"fits", "over"}

LocalRow == [here : BOOLEAN, dirty : BOOLEAN, ver : Nat, title : Titles]
ServerRow == [ver : Nat, seq : Nat, title : Titles, owner : Accounts \cup {NoOne}]
Copy     == [id : Ids, ver : Nat, title : Titles]
Answer   == [id : Ids, ver : Nat, title : Titles,
             status : {"accepted", "conflict", "forbidden"}]
Missing  == [here |-> FALSE, dirty |-> FALSE, ver |-> 0, title |-> "fits"]

Cycle == [half    : {"none", "push", "pull"},
          net     : {"none", "sent", "hung", "body", "stalled"},
          by      : Accounts \cup {NoOne},  \* the session of its request
          code    : {"200", "400", "401"},
          left    : SUBSET Copy,    \* the snapshot, what is not sent yet
          batch   : SUBSET Copy,    \* the rows of the request
          rows    : SUBSET Answer,  \* the rows of its answer
          upTo    : Nat,            \* the cursor of a pull: asked, then answered
          unmoved : SUBSET Ids,     \* rows of the snapshot not edited since
          refused : SUBSET Ids]     \* rows answered as another user's
NoCycle == [half |-> "none", net |-> "none", by |-> NoOne, code |-> "200",
            left |-> {}, batch |-> {}, rows |-> {}, upTo |-> 0, unmoved |-> {},
            refused |-> {}]

ShellTypeOK ==
  /\ gate \in {"checking", "in", "out"}
  /\ session \in Accounts \cup {NoOne} /\ csrf \in BOOLEAN
  /\ local \in [Ids -> LocalRow] /\ cursor \in Nat
  /\ creating \subseteq Ids /\ pending \subseteq Ids
  /\ server \in [Ids -> ServerRow]
  /\ lastSeq \in [Accounts -> Nat]
  /\ cycle \in Cycle
  /\ status \in {"idle", "syncing", "offline", "unauthenticated", "error"}
  /\ signing \in {"no", "asked", "answered", "cleared"}
  /\ signedOut \in BOOLEAN
  /\ used \subseteq Ids /\ newer \subseteq Ids

ShellInit ==
  /\ gate = "checking"
  /\ session \in Accounts \cup {NoOne} /\ csrf = (session # NoOne)
  /\ local = [i \in Ids |-> Missing]
  /\ cursor = 0 /\ creating = {} /\ pending = {}
  /\ server = [i \in Ids |->
       IF i \in Held
       THEN [ver |-> 1, seq |-> Cardinality({j \in Held : j <= i}), title |-> "fits",
             owner |-> Holder]
       ELSE [ver |-> 0, seq |-> 0, title |-> "fits", owner |-> NoOne]]
  /\ lastSeq = [a \in Accounts |-> IF a = Holder THEN Cardinality(Held) ELSE 0]
  /\ cycle = NoCycle
  /\ status = "idle"
  /\ signing = "no" /\ signedOut = FALSE
  /\ used = Held /\ newer = {}
  /\ edits = 0 /\ faults = 0 /\ signOuts = 0

Running == cycle.half # "none"
Dirty(i) == local[i].here /\ local[i].dirty
Fault == faults < MaxFaults /\ faults' = faults + 1 /\ UNCHANGED <<edits, signOuts>>
Authored == edits < MaxEdits /\ edits' = edits + 1 /\ UNCHANGED <<faults, signOuts>>

-----------------------------------------------------------------------------
(* The rows.                                                               *)

IsNote(i) == i \notin Containers
Fresh == Ids \ used
\* deriveTitle cuts the title of a note at the limit; names are not cut.
Typed(i) == IF IsNote(i) THEN {"fits"} ELSE Titles

Create(i) ==
  /\ Authored
  /\ gate = "in"
  /\ i \in Fresh
  /\ \A j \in Fresh : IsNote(i) = IsNote(j) => i <= j
  /\ used' = used \cup {i} /\ creating' = creating \cup {i}
  /\ UNCHANGED <<gate, status, signing, signedOut, pending, local, cursor, newer,
                 cookies, remote, cycle>>

\* Typing into a note, or asking for another change of a row.
Edit(i) ==
  /\ Authored
  /\ gate = "in" /\ local[i].here
  /\ pending' = pending \cup {i}
  /\ UNCHANGED <<gate, status, signing, signedOut, creating, cookies, storage,
                 remote, cycle>>

Recorded(rows) == newer' = IF signedOut THEN newer \cup rows ELSE newer

Written(i, title) ==
  /\ local' = [local EXCEPT ![i] = [@ EXCEPT !.here = TRUE, !.dirty = TRUE,
                                             !.title = title]]
  /\ cycle' = [cycle EXCEPT !.unmoved = @ \ {i}]

\* The transaction of createNote and its like, whatever the gate says by then.
CreateLands(i) ==
  /\ i \in creating
  /\ creating' = creating \ {i}
  /\ Recorded({i})
  /\ \E title \in Typed(i) : Written(i, title)
  /\ UNCHANGED <<gate, status, signing, signedOut, pending, cursor, used, cookies,
                 remote, bounds>>

\* Mutant: the write of a change puts the row, also when it has gone.
SavesAnyway(i) == TRUE

\* updateNote and its like throw when the row has gone.
Saves(i) == local[i].here

\* The transaction of a change: the timer, the flush of an editor that closes.
EditLands(i) ==
  /\ i \in pending
  /\ pending' = pending \ {i}
  /\ IF Saves(i) THEN \E title \in Typed(i) : Written(i, title)
                 ELSE UNCHANGED <<local, cycle>>
  /\ UNCHANGED <<gate, status, signing, signedOut, creating, cursor, used, newer,
                 cookies, remote, bounds>>

\* Another device of the account that has the row.
RemoteEdit(i) ==
  /\ Authored
  /\ server[i].ver > 0
  /\ LET owner == server[i].owner
     IN  /\ server' = [server EXCEPT ![i].ver = @ + 1, ![i].seq = lastSeq[owner] + 1]
         /\ lastSeq' = [lastSeq EXCEPT ![owner] = @ + 1]
  /\ UNCHANGED <<page, cookies, storage, cycle>>

-----------------------------------------------------------------------------
(* The cycle.                                                              *)

Snapshot == {[id |-> i, ver |-> local[i].ver, title |-> local[i].title] :
               i \in {j \in Ids : Dirty(j)}}

\* The slices of the next request: of notes and of the other tables.
NextBatch(left) ==
  {s \in left : Cardinality({r \in left : IsNote(r.id) = IsNote(s.id) /\ r.id < s.id})
                  < BatchSize}

\* drain: on an interval and on the events of a window that is looked at.
\* Nothing happens while another cycle holds the guard.
StartCycle ==
  /\ gate = "in" /\ ~Running
  /\ status' = "syncing"
  /\ cycle' = [NoCycle EXCEPT !.half = "push", !.left = Snapshot,
                              !.unmoved = {s.id : s \in Snapshot}]
  /\ UNCHANGED <<gate, signing, signedOut, writes, cookies, storage, remote, bounds>>

\* Mutant: the failure is swallowed and the indicator says that all is well.
FailsQuietly(reason) ==
  /\ status' = "idle"
  /\ cycle' = [NoCycle EXCEPT !.unmoved = cycle.unmoved, !.refused = cycle.refused]
  /\ UNCHANGED <<gate, signing, signedOut, writes>>

\* Mutant: the guard is not released on the way out of an error.
FailsHoldingGuard(reason) ==
  /\ status' = reason
  /\ cycle' = [cycle EXCEPT !.net = "none", !.half = "pull"]
  /\ UNCHANGED <<gate, signing, signedOut, writes>>

\* The catch and finally of both halves: the status names the reason, the
\* guard is free, and there is no pull after a push that failed.
Fails(reason) ==
  /\ status' = reason
  /\ cycle' = [NoCycle EXCEPT !.unmoved = cycle.unmoved, !.refused = cycle.refused]
  /\ UNCHANGED <<gate, signing, signedOut, writes>>

\* Without a readable CSRF cookie a push is not even sent.
SendBatch ==
  /\ cycle.half = "push" /\ cycle.net = "none" /\ cycle.left # {}
  /\ LET batch == NextBatch(cycle.left)
     IN  IF csrf
         THEN /\ cycle' = [cycle EXCEPT !.net = "sent", !.by = session,
                                        !.batch = batch, !.left = @ \ batch]
              /\ UNCHANGED page
         ELSE Fails("error")
  /\ UNCHANGED <<cookies, storage, remote, bounds>>

\* The push is through: the pull asks from the stored cursor.
SendPull ==
  /\ cycle.half = "push" /\ cycle.net = "none" /\ cycle.left = {}
  /\ cycle' = [cycle EXCEPT !.half = "pull", !.net = "sent", !.by = session,
                            !.batch = {}, !.upTo = cursor]
  /\ UNCHANGED <<page, cookies, storage, remote, bounds>>

\* Validation comes before any row is written: one bad row refuses the batch.
Refused(batch) == \E s \in batch : s.title = "over"

\* A row of somebody else's comes first, then one whose version has moved on.
Foreign(i, account) == server[i].ver > 0 /\ server[i].owner # account

PushServed(net) ==
  LET foreign == {s \in cycle.batch : Foreign(s.id, cycle.by)}
      ok == {s \in cycle.batch \ foreign : server[s.id].ver \in {0, s.ver}}
      Nth(s) == lastSeq[cycle.by] + Cardinality({r \in ok : r.id <= s.id})
      Of(s) == IF s \in foreign
               THEN [id |-> s.id, ver |-> 0, title |-> "fits", status |-> "forbidden"]
               ELSE IF s \in ok
               THEN [id |-> s.id, ver |-> server[s.id].ver + 1, title |-> s.title,
                     status |-> "accepted"]
               ELSE [id |-> s.id, ver |-> server[s.id].ver,
                     title |-> server[s.id].title, status |-> "conflict"]
  IN  /\ server' = [i \in Ids |->
           IF \E s \in ok : s.id = i
           THEN LET s == CHOOSE s \in ok : s.id = i
                IN  [ver |-> server[i].ver + 1, seq |-> Nth(s), title |-> s.title,
                     owner |-> cycle.by]
           ELSE server[i]]
      /\ lastSeq' = [lastSeq EXCEPT ![cycle.by] = @ + Cardinality(ok)]
      /\ cycle' = [cycle EXCEPT !.net = net, !.code = "200",
                                !.rows = {Of(s) : s \in cycle.batch}]
      /\ UNCHANGED cookies

\* A read with a session also replaces a CSRF cookie that has gone.
PullServed(net) ==
  LET since == cycle.upTo
      found == {j \in Ids : server[j].owner = cycle.by /\ server[j].seq > since}
  IN  /\ cycle' = [cycle EXCEPT !.net = net, !.code = "200",
           !.upTo = IF found = {} THEN since ELSE lastSeq[cycle.by],
           !.rows = {[id |-> i, ver |-> server[i].ver, title |-> server[i].title,
                      status |-> "accepted"] : i \in found}]
      /\ csrf' = TRUE
      /\ UNCHANGED <<remote, session>>

\* The server deals with the request; `net` is what becomes of its answer.
Served(net) ==
  /\ cycle.net = "sent"
  /\ \/ /\ cycle.by = NoOne
        /\ cycle' = [cycle EXCEPT !.net = net, !.code = "401"]
        /\ UNCHANGED <<remote, cookies>>
     \/ /\ cycle.by # NoOne /\ cycle.half = "push" /\ Refused(cycle.batch)
        /\ cycle' = [cycle EXCEPT !.net = net, !.code = "400"]
        /\ UNCHANGED <<remote, cookies>>
     \/ cycle.by # NoOne /\ cycle.half = "push" /\ ~Refused(cycle.batch) /\ PushServed(net)
     \/ cycle.by # NoOne /\ cycle.half = "pull" /\ PullServed(net)
  /\ UNCHANGED <<page, storage>>

\* The headers are in, and with them the deadline is cleared.
ServerAnswers == Served("body") /\ UNCHANGED bounds

\* Mutant: a row built from the wire without its dirty flag.
FromWireWithoutFlag(r) == [here |-> TRUE, ver |-> r.ver, title |-> r.title]

FromWire(r) == [here |-> TRUE, dirty |-> FALSE, ver |-> r.ver, title |-> r.title]

\* A copy kept in a conflict carries a marker behind its title, which may take
\* it over the limit.
Marked(title) == IF title = "fits" THEN Titles ELSE {"over"}

\* Mutant: a conflict forks what was sent, also when the row is gone.
ForksWhatWasSent(i) == IsNote(i)

Forks(i) == IsNote(i) /\ local[i].here

\* A row of another user's stays as it is, dirty, and the batch goes on.  A
\* conflict over a row of another table that has gone puts the row back.
Applied(r) ==
  LET i == r.id
  IN  CASE r.status = "forbidden" -> local[i]
        [] r.status = "accepted"  ->
             IF local[i].here
             THEN [local[i] EXCEPT !.ver = r.ver, !.dirty = (i \notin cycle.unmoved)]
             ELSE Missing
        [] OTHER -> IF IsNote(i) /\ ~local[i].here THEN Missing ELSE FromWire(r)

PushApplied ==
  LET rows     == cycle.rows
      conflict == {r.id : r \in {q \in rows : q.status = "conflict" /\ Forks(q.id)}}
  IN  \E copy \in [conflict -> Fresh \ Containers] :
        /\ \A i, j \in conflict : copy[i] = copy[j] => i = j
        /\ \E marked \in [conflict -> Titles] :
             /\ \A i \in conflict : marked[i] \in Marked(local[i].title)
             /\ local' = [i \in Ids |->
                  IF \E r \in rows : r.id = i
                  THEN Applied(CHOOSE r \in rows : r.id = i)
                  ELSE IF \E j \in conflict : copy[j] = i
                  THEN LET j == CHOOSE j \in conflict : copy[j] = i
                       IN  [here |-> TRUE, dirty |-> TRUE, ver |-> 0,
                            title |-> marked[j]]
                  ELSE local[i]]
        /\ used' = used \cup {copy[i] : i \in conflict}
        /\ Recorded({copy[i] : i \in {j \in conflict : local[j].here}})
        /\ cycle' = [cycle EXCEPT !.net = "none", !.batch = {}, !.rows = {},
                       !.refused = @ \cup
                          {r.id : r \in {q \in rows : q.status = "forbidden"}}]
        /\ UNCHANGED <<page, cursor>>

\* applyPage, and the end of the cycle.
PullApplied ==
  /\ local' = [i \in Ids |->
       IF ~Dirty(i) /\ \E r \in cycle.rows : r.id = i
       THEN FromWire(CHOOSE r \in cycle.rows : r.id = i)
       ELSE local[i]]
  /\ cursor' = cycle.upTo
  /\ Fails("idle")
  /\ UNCHANGED <<used, newer>>

BodyArrives ==
  /\ cycle.net = "body"
  /\ \/ cycle.code = "200" /\ cycle.half = "push" /\ PushApplied
     \/ cycle.code = "200" /\ cycle.half = "pull" /\ PullApplied
     \/ cycle.code = "401" /\ Fails("unauthenticated") /\ UNCHANGED storage
     \/ cycle.code = "400" /\ Fails("error") /\ UNCHANGED storage
  /\ UNCHANGED <<cookies, remote, bounds>>

\* Mutant: a request has no deadline.
NoDeadline == FALSE /\ UNCHANGED vars

\* The AbortController: a request without headers for 30 seconds is given up.
Deadline ==
  /\ cycle.net = "hung"
  /\ Fails("offline")
  /\ UNCHANGED <<cookies, storage, remote, bounds>>

-----------------------------------------------------------------------------
(* Faults.                                                                 *)

\* The connection hangs open, before or after the server did its work.
Hangs ==
  /\ Fault
  /\ \/ Served("hung")
     \/ /\ cycle.net = "sent"
        /\ cycle' = [cycle EXCEPT !.net = "hung"]
        /\ UNCHANGED <<page, cookies, storage, remote>>

\* No network; a 500; an answer that breaks off inside its body.
RequestFails ==
  /\ Fault
  /\ \/ cycle.net = "sent" /\ Fails("offline")
     \/ cycle.net \in {"sent", "body"} /\ Fails("error")
  /\ UNCHANGED <<cookies, storage, remote>>

\* The body stops arriving, and nothing waits for it with a clock.
BodyStalls ==
  /\ Fault
  /\ cycle.net = "body"
  /\ cycle' = [cycle EXCEPT !.net = "stalled"]
  /\ UNCHANGED <<page, cookies, storage, remote>>

\* The session of the cookie is over, and a request that carries it is refused.
SessionEnds ==
  /\ session' = NoOne
  /\ cycle' = [cycle EXCEPT !.by = IF @ = session THEN NoOne ELSE @]

\* The session expires, for a request under way as well; or only the CSRF
\* cookie does, which nothing extends.
CookiesLapse ==
  /\ Fault
  /\ \/ session # NoOne /\ SessionEnds /\ UNCHANGED csrf
     \/ csrf /\ csrf' = FALSE /\ UNCHANGED <<session, cycle>>
  /\ UNCHANGED <<page, storage, remote>>

\* The tab is reloaded: its memory is gone, the guard and pending writes with it.
Reload ==
  /\ Fault
  /\ gate' = "checking" /\ status' = "idle" /\ signing' = "no"
  /\ creating' = {} /\ pending' = {}
  /\ cycle' = NoCycle
  /\ UNCHANGED <<signedOut, cookies, storage, remote>>

-----------------------------------------------------------------------------
(* The gate.                                                               *)

\* me(): a user, a 401, or no answer at all.
AskMe ==
  /\ gate = "checking"
  /\ \/ session # NoOne /\ gate' = "in" /\ csrf' = TRUE /\ UNCHANGED bounds
     \/ session = NoOne /\ gate' = "out" /\ UNCHANGED <<csrf, bounds>>
     \/ /\ Fault
        /\ gate' = IF \E i \in Ids : IsNote(i) /\ local[i].here THEN "in" ELSE "out"
        /\ UNCHANGED csrf
  /\ signedOut' = (signedOut /\ gate' = "out")
  /\ UNCHANGED <<status, signing, writes, session, storage, remote, cycle>>

\* Any account may come in, over what another has left on the device.
SignIn ==
  /\ gate = "out"
  /\ gate' = "in" /\ session' \in Accounts /\ csrf' = TRUE /\ signedOut' = FALSE
  /\ UNCHANGED <<status, signing, writes, storage, remote, cycle, bounds>>

\* The banner of a session that has ended: the login screen, nothing cleared.
\* Left out: pressing it while a sign-out, confirmed before, is under way.
SignInAgain ==
  /\ gate = "in" /\ status = "unauthenticated" /\ signing = "no"
  /\ gate' = "out"
  /\ UNCHANGED <<status, signing, signedOut, writes, cookies, storage, remote, cycle,
                 bounds>>

\* Confirmed, and logout() is on its way.
SignOutAsked ==
  /\ gate = "in" /\ signing = "no"
  /\ signing' = "asked"
  /\ signOuts < MaxSignOuts /\ signOuts' = signOuts + 1 /\ UNCHANGED <<edits, faults>>
  /\ UNCHANGED <<gate, status, signedOut, writes, cookies, storage, remote, cycle>>

\* logout() is answered, was not sent for want of a CSRF cookie, or is lost on
\* its way or on the way back; it is not asked again.
LogoutAnswered ==
  /\ signing = "asked"
  /\ signing' = "answered"
  /\ \/ csrf /\ SessionEnds /\ csrf' = FALSE /\ UNCHANGED bounds
     \/ ~csrf /\ UNCHANGED <<cookies, cycle, bounds>>
     \/ csrf /\ Fault /\ UNCHANGED <<cookies, cycle>>
     \/ csrf /\ Fault /\ SessionEnds /\ UNCHANGED csrf
  /\ UNCHANGED <<gate, status, signedOut, writes, storage, remote>>

\* The transaction of clearEverything.  It waits for no cycle and no editor.
ClearEverything ==
  /\ signing = "answered"
  /\ signing' = "cleared" /\ signedOut' = TRUE
  /\ local' = [i \in Ids |-> Missing]
  /\ cursor' = 0 /\ newer' = {}
  /\ UNCHANGED <<gate, status, writes, used, cookies, remote, cycle, bounds>>

\* onSignedOut, and the workspace is unmounted.
GateCloses ==
  /\ signing = "cleared"
  /\ signing' = "no" /\ gate' = "out"
  /\ UNCHANGED <<status, signedOut, writes, cookies, storage, remote, cycle, bounds>>

-----------------------------------------------------------------------------
CycleStep ==
  \/ StartCycle
  \/ SendBatch
  \/ SendPull
  \/ ServerAnswers
  \/ BodyArrives
  \/ Deadline

ShellNext ==
  \/ CycleStep
  \/ \E i \in Ids : Create(i) \/ CreateLands(i) \/ Edit(i) \/ EditLands(i)
                   \/ RemoteEdit(i)
  \/ Hangs \/ RequestFails \/ BodyStalls \/ CookiesLapse \/ Reload
  \/ AskMe \/ SignIn \/ SignInAgain
  \/ SignOutAsked \/ LogoutAnswered \/ ClearEverything \/ GateCloses

\* The interval keeps starting cycles while the tab is visible and online, a
\* request is answered or hangs, and the deadline of one that hangs passes.
\* Nobody has to edit, sign in or sign out.
ShellSpec == ShellInit /\ [][ShellNext]_vars /\ WF_vars(CycleStep)

-----------------------------------------------------------------------------
(* Properties.                                                             *)

\* When the indicator says idle, a row that still has to be pushed was edited
\* or made after the last cycle took its snapshot, or was refused in it as
\* another user's, which "idle" does hide (push.ts, applyNoteResult).
IdleMeansSent ==
  ~Running /\ status = "idle" =>
    \A i \in cycle.unmoved \ cycle.refused : ~Dirty(i)

\* What signing out cleared does not come back as a row to be pushed: such a
\* row was created or copied after the clear, or it is the server's and a page
\* or an answer in flight has put it back, under a write that was pending then.
\* No note the server has not had returns by a flush or by a conflict.
NothingUnsentOutlivesSignOut ==
  signedOut => \A i \in Ids : Dirty(i) => i \in newer \/ server[i].ver > 0


\* A cycle ends, whatever happens to its requests, unless the body of an
\* answer stalls after its headers.
OnlyABodyHoldsTheGuard == Running ~> (~Running \/ cycle.net = "stalled")

\* A cycle ends.  "One stalled request otherwise ends syncing permanently" is
\* what the deadline is there to close (sync/api.ts, send).
GuardIsReleased == Running ~> ~Running

\* The request of a push a row travels in.
Slice(i) ==
  Cardinality({j \in Ids : Dirty(j) /\ IsNote(j) = IsNote(i) /\ j < i}) \div BatchSize

CanSync == gate = "in" /\ session # NoOne /\ csrf

\* A row that waits for ever while the tab can sync is another user's on the
\* server, or waits behind a row the server refuses, in its own request or in an
\* earlier one; nothing else, no failure and no conflict, holds it up for good,
\* but for a cycle that is stuck.
OnlyRefusedHoldUp ==
  \A i \in Ids :
    <>[](CanSync /\ Dirty(i) /\ cycle.net # "stalled") =>
      []<>(\/ Foreign(i, session)
           \/ \E j \in Ids : /\ Dirty(j) /\ local[j].title = "over"
                              /\ Slice(j) <= Slice(i))

=============================================================================
