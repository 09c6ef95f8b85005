----------------------------- MODULE SyncServer -----------------------------
(***************************************************************************)
(* The sync half of the nefix server: the four tables a client may write,  *)
(* the per-account sequence that orders every write, and the two HTTP      *)
(* handlers that use them (server/internal/http/sync.go and the Upsert and *)
(* Since functions of server/internal/store).                              *)
(*                                                                         *)
(* A push handler applies its rows one transaction each, in the order      *)
(* classes, notebooks, notes, deadlines.  A pull handler reads the four    *)
(* tables with four separate queries in that same order and cuts one page  *)
(* out of what it read.  Handlers of several requests interleave between   *)
(* those statements; SetMaxOpenConns(1) serialises the statements only.    *)
(*                                                                         *)
(* The content of a row is one opaque body.  A batch that validation or a  *)
(* size limit refuses writes nothing and never becomes a handler here.     *)
(***************************************************************************)
EXTENDS Integers, FiniteSets

CONSTANTS
  Users,      \* accounts
  NoUser,     \* the owner of a row that does not exist
  Ids,        \* row ids, ordered as their UUIDs are
  KindOf,     \* the table each id belongs to
  Bodies,     \* contents a row may have
  NoBody,     \* the content of a row that does not exist
  Handlers,   \* goroutines serving sync requests
  Limits,     \* page sizes a pull may ask for, after clamping
  MaxSeq      \* bound: the clients of ServerNext push no row beyond this sequence

Kinds == {"class", "notebook", "note", "deadline"}

\* The order in which push writes the tables and pull reads them.
Rank == [k \in Kinds |-> CASE k = "class"    -> 1
                           [] k = "notebook" -> 2
                           [] k = "note"     -> 3
                           [] k = "deadline" -> 4]

ASSUME IdsAssumption    == Ids \subseteq Nat /\ KindOf \in [Ids -> Kinds]
ASSUME UsersAssumption  == NoUser \notin Users
ASSUME LimitsAssumption == Limits \subseteq Nat \ {0} /\ MaxSeq \in Nat

VARIABLES
  rows,     \* the four tables, keyed by id; version 0 is a row not stored
  lastSeq,  \* users.last_seq
  handler   \* what each goroutine is doing

serverVars == <<rows, lastSeq, handler>>

Row    == [owner : Users \cup {NoUser}, ver : Nat, seq : Nat,
           body : Bodies \cup {NoBody}]
Input  == [id : Ids, ver : Nat, body : Bodies]
Result == [id : Ids, status : {"accepted", "conflict", "forbidden"},
           ver : Nat, body : Bodies \cup {NoBody}]
Copy   == [id : Ids, ver : Nat, seq : Nat, body : Bodies \cup {NoBody}]

Handler == [state   : {"free", "push", "pull"},
            user    : Users \cup {NoUser},
            todo    : SUBSET Input,     \* rows of the batch not applied yet
            results : SUBSET Result,    \* the answer built so far
            since   : Nat,
            limit   : Nat,
            unread  : SUBSET Kinds,     \* tables the pull has not queried yet
            got     : SUBSET Copy,      \* rows its queries returned
            start   : Nat]              \* history: last_seq when the pull arrived

Idle == [state |-> "free", user |-> NoUser, todo |-> {}, results |-> {},
         since |-> 0, limit |-> 0, unread |-> {}, got |-> {}, start |-> 0]

ServerTypeOK ==
  /\ rows \in [Ids -> Row]
  /\ lastSeq \in [Users -> Nat]
  /\ handler \in [Handlers -> Handler]

ServerInit ==
  /\ rows = [i \in Ids |-> [owner |-> NoUser, ver |-> 0, seq |-> 0,
                            body |-> NoBody]]
  /\ lastSeq = [u \in Users |-> 0]
  /\ handler = [h \in Handlers |-> Idle]

Stored(i) == rows[i].ver > 0

-----------------------------------------------------------------------------
(* Push.                                                                   *)

PushArrives(h, u, batch) ==
  /\ handler[h].state = "free"
  /\ handler' = [handler EXCEPT ![h] =
       [Idle EXCEPT !.state = "push", !.user = u, !.todo = batch]]
  /\ UNCHANGED <<rows, lastSeq>>

Precedes(i, j) ==
  \/ Rank[KindOf[i]] < Rank[KindOf[j]]
  \/ KindOf[i] = KindOf[j] /\ i < j

\* The row of the batch the handler's loops reach next.
IsNext(h, in) ==
  /\ handler[h].state = "push"
  /\ in \in handler[h].todo
  /\ \A other \in handler[h].todo : ~Precedes(other.id, in.id)

Answer(h, in, result) ==
  handler' = [handler EXCEPT ![h].todo    = @ \ {in},
                             ![h].results = @ \cup {result}]

ServerCopy(i, status) ==
  [id |-> i, status |-> status, ver |-> rows[i].ver, body |-> rows[i].body]

\* Mutant: anybody may write any row.
NeverForbidden(u, i) == FALSE

\* Mutant: the version a client holds is not compared.
NeverConflict(u, i, base) == FALSE

IsForbidden(u, i)      == Stored(i) /\ rows[i].owner # u
IsConflict(u, i, base) == Stored(i) /\ rows[i].owner = u /\ rows[i].ver # base

NextSeq(u) == lastSeq[u] + 1

\* Mutant: the answer leaves although the transaction rolled back.
AnsweredNotCommitted(h, in) ==
  LET u == handler[h].user
  IN  /\ IsNext(h, in)
      /\ ~IsForbidden(u, in.id)
      /\ ~IsConflict(u, in.id, in.ver)
      /\ Answer(h, in, [id |-> in.id, status |-> "accepted",
                        ver |-> rows[in.id].ver + 1, body |-> in.body])
      /\ UNCHANGED <<rows, lastSeq>>

\* Mutant: nextSeq is not in the transaction of the write: another push of the
\* account may read the same last_seq in between, and write under it too.
SequenceOutsideTransaction(h, in) ==
  LET u   == handler[h].user
      seq == NextSeq(u)
      May(g, row)   == /\ IsNext(g, row)
                       /\ ~IsForbidden(u, row.id)
                       /\ ~IsConflict(u, row.id, row.ver)
      Written(row)  == [owner |-> u, ver |-> rows[row.id].ver + 1, seq |-> seq,
                        body |-> row.body]
      Done(push, row) ==
        [push EXCEPT !.todo = @ \ {row},
                     !.results = @ \cup {[id |-> row.id, status |-> "accepted",
                       ver |-> rows[row.id].ver + 1, body |-> row.body]}]
  IN  /\ May(h, in)
      /\ lastSeq' = [lastSeq EXCEPT ![u] = seq]
      /\ \/ /\ rows' = [rows EXCEPT ![in.id] = Written(in)]
            /\ handler' = [handler EXCEPT ![h] = Done(@, in)]
         \/ \E g \in {f \in Handlers \ {h} : handler[f].user = u} :
              \E on \in handler[g].todo :
                /\ May(g, on) /\ on.id # in.id
                /\ rows' = [rows EXCEPT ![in.id] = Written(in), ![on.id] = Written(on)]
                /\ handler' = [handler EXCEPT ![h] = Done(@, in), ![g] = Done(@, on)]

\* nextSeq and the INSERT or UPDATE commit together.  A row that is not
\* stored becomes version 1 whatever version the client sent.
UpsertAccepted(h, in) ==
  LET u   == handler[h].user
      seq == NextSeq(u)
      ver == rows[in.id].ver + 1
  IN  /\ IsNext(h, in)
      /\ ~IsForbidden(u, in.id)
      /\ ~IsConflict(u, in.id, in.ver)
      /\ lastSeq' = [lastSeq EXCEPT ![u] = seq]
      /\ rows' = [rows EXCEPT ![in.id] =
                    [owner |-> u, ver |-> ver, seq |-> seq, body |-> in.body]]
      /\ Answer(h, in, [id |-> in.id, status |-> "accepted", ver |-> ver,
                        body |-> in.body])

\* ErrVersionConflict: the stored row travels back and nothing is written.
UpsertConflict(h, in) ==
  /\ IsNext(h, in)
  /\ IsConflict(handler[h].user, in.id, in.ver)
  /\ Answer(h, in, ServerCopy(in.id, "conflict"))
  /\ UNCHANGED <<rows, lastSeq>>

\* ErrForbidden: the row is another account's and is not shown.
UpsertForbidden(h, in) ==
  /\ IsNext(h, in)
  /\ IsForbidden(handler[h].user, in.id)
  /\ Answer(h, in, [id |-> in.id, status |-> "forbidden", ver |-> 0,
                    body |-> NoBody])
  /\ UNCHANGED <<rows, lastSeq>>

-----------------------------------------------------------------------------
(* Pull.                                                                   *)

PullArrives(h, u, since, limit) ==
  /\ handler[h].state = "free"
  /\ handler' = [handler EXCEPT ![h] =
       [Idle EXCEPT !.state = "pull", !.user = u, !.since = since,
                    !.limit = limit, !.unread = Kinds,
                    !.start = lastSeq[u]]]
  /\ UNCHANGED <<rows, lastSeq>>

\* The n lowest sequences of a set of copies: ORDER BY seq LIMIT n.
Lowest(copies, n) ==
  {c \in copies : Cardinality({b \in copies : b.seq < c.seq}) < n}

\* What ClassesSince, NotebooksSince, NotesSince or DeadlinesSince selects.
Since(u, k, since) ==
  {[id |-> i, ver |-> rows[i].ver, seq |-> rows[i].seq, body |-> rows[i].body] :
     i \in {j \in Ids : /\ KindOf[j] = k
                        /\ rows[j].owner = u
                        /\ rows[j].seq > since}}

\* One of the four queries: one row past the limit answers has_more exactly.
ReadTable(h, k) ==
  /\ handler[h].state = "pull"
  /\ k \in handler[h].unread
  /\ \A other \in handler[h].unread : Rank[k] <= Rank[other]
  /\ handler' = [handler EXCEPT
       ![h].unread = @ \ {k},
       ![h].got = @ \cup Lowest(Since(handler[h].user, k, handler[h].since),
                                handler[h].limit + 1)]
  /\ UNCHANGED <<rows, lastSeq>>

\* The page cut from what the queries returned: the `limit` lowest sequences
\* across the tables, the highest of them as the cursor.
PageRows(h) == Lowest(handler[h].got, handler[h].limit)

\* Mutant: has_more off by one.
HasMoreLate(h) == Cardinality(handler[h].got) > handler[h].limit + 1

HasMore(h)  == Cardinality(handler[h].got) > handler[h].limit

\* Mutant: the account's last sequence as the cursor.
CursorIsLastSeq(h) == lastSeq[handler[h].user]

PageCursor(h) ==
  IF PageRows(h) = {} THEN handler[h].since
  ELSE CHOOSE s \in {c.seq : c \in PageRows(h)} :
         \A c \in PageRows(h) : c.seq <= s

-----------------------------------------------------------------------------
(* The life of a handler.                                                  *)

PushAnswered(h) == handler[h].state = "push" /\ handler[h].todo = {}
PullAnswered(h) == handler[h].state = "pull" /\ handler[h].unread = {}

\* The answer leaves, whether or not anybody still listens.
Respond(h) ==
  /\ PushAnswered(h) \/ PullAnswered(h)
  /\ handler' = [handler EXCEPT ![h] = Idle]
  /\ UNCHANGED <<rows, lastSeq>>

\* A 500 or a cancelled request context: the rows already committed stay.
HandlerFails(h) ==
  /\ handler[h].state # "free"
  /\ handler' = [handler EXCEPT ![h] = Idle]
  /\ UNCHANGED <<rows, lastSeq>>

\* The process stops and starts again; SQLite keeps what was committed.
Restart ==
  /\ \E h \in Handlers : handler[h].state # "free"
  /\ handler' = [h \in Handlers |-> Idle]
  /\ UNCHANGED <<rows, lastSeq>>

PushRow(h) ==
  \E in \in handler[h].todo :
    UpsertAccepted(h, in) \/ UpsertConflict(h, in) \/ UpsertForbidden(h, in)

Query(h) == \E k \in Kinds : ReadTable(h, k)

\* Any client of this server.  It pushes one body for each of some rows, from
\* the version the server holds at that moment or from one that is not
\* current; it pulls from any cursor the account has passed.
Promised(u) ==
  UNION {{g} \X handler[g].todo : g \in {f \in Handlers : handler[f].user = u}}

ClientPush(h) ==
  \E u \in Users, S \in (SUBSET Ids) \ {{}} :
    \E held \in [S -> BOOLEAN], body \in [S -> Bodies] :
      /\ lastSeq[u] + Cardinality(Promised(u)) + Cardinality(S) <= MaxSeq
      /\ PushArrives(h, u,
           {[id |-> i, ver |-> IF held[i] THEN rows[i].ver ELSE 0,
             body |-> body[i]] : i \in S})

ClientPull(h) ==
  \E u \in Users : \E since \in 0..lastSeq[u], limit \in Limits :
    PullArrives(h, u, since, limit)

ServerNext ==
  \/ Restart
  \/ \E h \in Handlers :
       \/ ClientPush(h)
       \/ ClientPull(h)
       \/ PushRow(h)
       \/ Query(h)
       \/ Respond(h)
       \/ HandlerFails(h)

ServerSpec == ServerInit /\ [][ServerNext]_serverVars

-----------------------------------------------------------------------------
(* Properties.                                                             *)

\* No sequence is handed out twice in one account, and none is above
\* last_seq: what makes a cursor a position (store/notes.go, nextSeq).
SeqsDistinct ==
  /\ \A i \in Ids : Stored(i) => rows[i].seq <= lastSeq[rows[i].owner]
  /\ \A i, j \in Ids :
       Stored(i) /\ Stored(j) /\ i # j /\ rows[i].owner = rows[j].owner
         => rows[i].seq # rows[j].seq

\* A page skips a row at or below its cursor only when that row was written
\* after the pull arrived: every row written before it, and not since, is in
\* the page (sync.go, pull and page).
PageMissesOnlyConcurrentWrites ==
  \A h \in Handlers, i \in Ids :
    /\ PullAnswered(h)
    /\ rows[i].owner = handler[h].user
    /\ handler[h].since < rows[i].seq
    /\ rows[i].seq <= PageCursor(h)
    /\ rows[i].seq <= handler[h].start
    => \E c \in PageRows(h) : c.id = i /\ c.seq = rows[i].seq

\* has_more = false is the truth: the page then holds every row that was
\* above the client's cursor when the pull arrived and is unchanged.
LastPageIsLast ==
  \A h \in Handlers, i \in Ids :
    /\ PullAnswered(h)
    /\ ~HasMore(h)
    /\ rows[i].owner = handler[h].user
    /\ handler[h].since < rows[i].seq
    /\ rows[i].seq <= handler[h].start
    => rows[i].seq <= PageCursor(h)

\* "A pull returns whatever changed above the cursor whatever type it is"
\* (docs/API.md, One cursor for all four types): nothing stored lies at or
\* below the cursor of an answered page without being in that page.
PageComplete ==
  \A h \in Handlers, i \in Ids :
    /\ PullAnswered(h)
    /\ rows[i].owner = handler[h].user
    /\ handler[h].since < rows[i].seq
    /\ rows[i].seq <= PageCursor(h)
    => \E c \in PageRows(h) : c.id = i /\ c.seq = rows[i].seq

\* A push answer names the state of a row at one moment: an accepted version
\* belongs to one answer only, and as long as it is the stored version the
\* stored body is the accepted one, in the account that sent it.
AcceptedIsStored ==
  \A h \in Handlers : \A r \in handler[h].results :
    r.status = "accepted" =>
      /\ r.ver <= rows[r.id].ver
      /\ r.ver = rows[r.id].ver => /\ r.body = rows[r.id].body
                                   /\ rows[r.id].owner = handler[h].user
      /\ \A g \in Handlers : \A q \in handler[g].results :
           q.status = "accepted" /\ q.id = r.id /\ q.ver = r.ver
             => g = h /\ q = r

\* One step writes at most one row, never takes a row away or moves it to
\* another account, and raises version by one and seq to a value never used:
\* the transaction of one Upsert.
WritesAdvance ==
  [][\A i \in Ids : rows'[i] # rows[i] =>
       /\ rows'[i].ver = rows[i].ver + 1
       /\ Stored(i) => rows'[i].owner = rows[i].owner
       /\ rows'[i].seq > lastSeq[rows'[i].owner]
       /\ \A j \in Ids \ {i} : rows'[j] = rows[j]]_serverVars

=============================================================================
