-------------------------- MODULE SyncServer_proofs --------------------------
(***************************************************************************)
(* Proofs about SyncServer: its type invariant, that sequences are         *)
(* positions (SeqsDistinct), what one write may change (WritesAdvance) and *)
(* what a page may miss, for any accounts, rows, handlers and page sizes.  *)
(* The lemmas speak of one action each, so that the proofs about NefixSync *)
(* can cite them for the server's half of its steps.                       *)
(***************************************************************************)
EXTENDS SyncServer, FiniteSetTheorems, WellFoundedInduction, TLAPS

\* A handler that serves a request serves it for an account: withUser puts
\* the session's user in the context before push and pull run.
HandlersHaveUsers ==
  \A h \in Handlers : handler[h].state # "free" => handler[h].user \in Users

\* A stored row belongs to an account; a row that is not stored, to nobody.
OwnersKnown ==
  \A i \in Ids : IF Stored(i) THEN rows[i].owner \in Users
                              ELSE rows[i].owner = NoUser

ServerIInv ==
  /\ ServerTypeOK
  /\ HandlersHaveUsers
  /\ OwnersKnown
  /\ SeqsDistinct

-----------------------------------------------------------------------------
(* Types of the parts of a handler, and of its answer.                     *)

LEMMA IdleIsHandler == Idle \in Handler
  BY DEF Idle, Handler

LEMMA AnswerType ==
  ASSUME NEW h \in Handlers, NEW in, NEW result \in Result,
         handler \in [Handlers -> Handler], Answer(h, in, result)
  PROVE  handler' \in [Handlers -> Handler]
  <1> DEFINE hd == handler[h]
             new == [hd EXCEPT !.todo = @ \ {in}, !.results = @ \cup {result}]
  <1>1. hd \in Handler
    OBVIOUS
  <1>2. new \in Handler
    BY <1>1 DEF Handler
  <1>3. handler' = [handler EXCEPT ![h] = new]
    BY DEF Answer
  <1> QED
    BY <1>2, <1>3

LEMMA ServerCopyType ==
  ASSUME NEW i \in Ids, ServerTypeOK
  PROVE  ServerCopy(i, "conflict") \in Result
  BY DEF ServerCopy, Result, ServerTypeOK, Row

LEMMA SinceType ==
  ASSUME NEW u, NEW k, NEW since, ServerTypeOK
  PROVE  Since(u, k, since) \subseteq Copy
  BY DEF Since, Copy, ServerTypeOK, Row

LEMMA LowestIsSubset ==
  ASSUME NEW copies, NEW n
  PROVE  Lowest(copies, n) \subseteq copies
  BY DEF Lowest

\* The row an Upsert of a batch reaches, with the types its steps need.
LEMMA PushInput ==
  ASSUME NEW h \in Handlers, NEW in \in handler[h].todo,
         ServerTypeOK, HandlersHaveUsers, IsNext(h, in)
  PROVE  /\ handler[h].user \in Users
         /\ in \in Input
         /\ in.id \in Ids /\ in.ver \in Nat /\ in.body \in Bodies
         /\ rows[in.id] \in Row
         /\ rows[in.id].ver \in Nat
         /\ lastSeq[handler[h].user] \in Nat
  <1>1. handler[h].user \in Users
    BY DEF IsNext, HandlersHaveUsers
  <1>2. handler[h] \in Handler
    BY DEF ServerTypeOK
  <1>3. in \in Input
    BY <1>2 DEF Handler
  <1>4. in.id \in Ids /\ in.ver \in Nat /\ in.body \in Bodies
    BY <1>3 DEF Input
  <1>5. rows[in.id] \in Row
    BY <1>4 DEF ServerTypeOK
  <1> QED
    BY <1>1, <1>3, <1>4, <1>5 DEF Row, ServerTypeOK

-----------------------------------------------------------------------------
(* One lemma per action: the invariant holds after it.                     *)

LEMMA PushArrivesInv ==
  ASSUME NEW h \in Handlers, NEW u \in Users, NEW batch \in SUBSET Input,
         ServerIInv, PushArrives(h, u, batch)
  PROVE  ServerIInv'
  <1> DEFINE new == [Idle EXCEPT !.state = "push", !.user = u, !.todo = batch]
  <1>1. new \in Handler /\ new.user = u
    BY DEF Idle, Handler
  <1>2. handler' = [handler EXCEPT ![h] = new] /\ UNCHANGED <<rows, lastSeq>>
    BY DEF PushArrives
  <1>3. ServerTypeOK'
    BY <1>1, <1>2 DEF ServerIInv, ServerTypeOK
  <1>4. HandlersHaveUsers'
    BY <1>1, <1>2 DEF ServerIInv, ServerTypeOK, HandlersHaveUsers
  <1> QED
    BY <1>2, <1>3, <1>4 DEF ServerIInv, OwnersKnown, SeqsDistinct, Stored

LEMMA PullArrivesInv ==
  ASSUME NEW h \in Handlers, NEW u \in Users, NEW since \in Nat,
         NEW limit \in Nat, ServerIInv, PullArrives(h, u, since, limit)
  PROVE  ServerIInv'
  <1> DEFINE new == [Idle EXCEPT !.state = "pull", !.user = u, !.since = since,
                                 !.limit = limit, !.unread = Kinds,
                                 !.start = lastSeq[u]]
  <1>1. new \in Handler /\ new.user = u
    BY DEF Idle, Handler, ServerIInv, ServerTypeOK
  <1>2. handler' = [handler EXCEPT ![h] = new] /\ UNCHANGED <<rows, lastSeq>>
    BY DEF PullArrives
  <1>3. ServerTypeOK'
    BY <1>1, <1>2 DEF ServerIInv, ServerTypeOK
  <1>4. HandlersHaveUsers'
    BY <1>1, <1>2 DEF ServerIInv, ServerTypeOK, HandlersHaveUsers
  <1> QED
    BY <1>2, <1>3, <1>4 DEF ServerIInv, OwnersKnown, SeqsDistinct, Stored

\* The answer to a row leaves everything about the handlers in order.
LEMMA AnswerUsers ==
  ASSUME NEW h \in Handlers, NEW in, NEW result,
         handler \in [Handlers -> Handler], HandlersHaveUsers,
         Answer(h, in, result)
  PROVE  HandlersHaveUsers'
  <1> SUFFICES ASSUME NEW g \in Handlers, handler'[g].state # "free"
               PROVE  handler'[g].user \in Users
    BY DEF HandlersHaveUsers
  <1>1. handler[g] \in Handler
    OBVIOUS
  <1>2. handler'[g].state = handler[g].state /\ handler'[g].user = handler[g].user
    BY <1>1 DEF Answer, Handler
  <1> QED
    BY <1>2 DEF HandlersHaveUsers

LEMMA UpsertAcceptedInv ==
  ASSUME NEW h \in Handlers, NEW in \in handler[h].todo,
         ServerIInv, UpsertAccepted(h, in)
  PROVE  ServerIInv'
  <1> DEFINE u   == handler[h].user
             i   == in.id
             new == [owner |-> u, ver |-> rows[i].ver + 1,
                     seq |-> lastSeq[u] + 1, body |-> in.body]
             result == [id |-> i, status |-> "accepted",
                        ver |-> rows[i].ver + 1, body |-> in.body]
  <1>1. /\ u \in Users
        /\ i \in Ids /\ in.body \in Bodies
        /\ rows[i].ver \in Nat /\ lastSeq[u] \in Nat
    BY PushInput DEF ServerIInv, UpsertAccepted
  <1>2. /\ lastSeq' = [lastSeq EXCEPT ![u] = lastSeq[u] + 1]
        /\ rows' = [rows EXCEPT ![i] = new]
        /\ Answer(h, in, result)
        /\ ~IsForbidden(u, i)
    BY DEF UpsertAccepted, NextSeq
  <1>3. new \in Row /\ result \in Result
    BY <1>1 DEF Row, Result
  <1>4. ServerTypeOK'
    BY <1>1, <1>2, <1>3, AnswerType DEF ServerIInv, ServerTypeOK
  <1>5. HandlersHaveUsers'
    BY <1>2, AnswerUsers DEF ServerIInv, ServerTypeOK
  <1>6. \A j \in Ids : rows'[j] = IF j = i THEN new ELSE rows[j]
    BY <1>2 DEF ServerIInv, ServerTypeOK
  <1>7. OwnersKnown'
    BY <1>1, <1>6 DEF ServerIInv, OwnersKnown, Stored
  <1>8. SeqsDistinct'
    <2>1. \A v \in Users : lastSeq'[v] = IF v = u THEN lastSeq[u] + 1 ELSE lastSeq[v]
      BY <1>2 DEF ServerIInv, ServerTypeOK
    <2>2. \A j \in Ids : rows[j].ver \in Nat /\ rows[j].seq \in Nat
      BY DEF ServerIInv, ServerTypeOK, Row
    <2>3. \A j \in Ids : Stored(j) =>
            rows[j].owner \in Users /\ rows[j].seq <= lastSeq[rows[j].owner]
      BY DEF ServerIInv, OwnersKnown, SeqsDistinct
    <2>4. \A j \in Ids : Stored(j)' => rows'[j].seq <= lastSeq'[rows'[j].owner]
      BY <1>1, <1>6, <2>1, <2>2, <2>3 DEF Stored, ServerIInv, ServerTypeOK
    <2>5. ASSUME NEW j \in Ids, NEW k \in Ids, Stored(j)', Stored(k)', j # k,
                 rows'[j].owner = rows'[k].owner
          PROVE  rows'[j].seq # rows'[k].seq
      BY <1>1, <1>6, <2>2, <2>3, <2>5 DEF Stored, ServerIInv, SeqsDistinct
    <2> QED
      BY <2>4, <2>5 DEF SeqsDistinct
  <1> QED
    BY <1>4, <1>5, <1>7, <1>8 DEF ServerIInv

LEMMA UpsertConflictInv ==
  ASSUME NEW h \in Handlers, NEW in \in handler[h].todo,
         ServerIInv, UpsertConflict(h, in)
  PROVE  ServerIInv'
  <1>1. Answer(h, in, ServerCopy(in.id, "conflict")) /\ UNCHANGED <<rows, lastSeq>>
    BY DEF UpsertConflict
  <1>2. ServerCopy(in.id, "conflict") \in Result
    BY PushInput, ServerCopyType DEF ServerIInv, UpsertConflict
  <1>3. ServerTypeOK' /\ HandlersHaveUsers'
    BY <1>1, <1>2, AnswerType, AnswerUsers DEF ServerIInv, ServerTypeOK
  <1> QED
    BY <1>1, <1>3 DEF ServerIInv, OwnersKnown, SeqsDistinct, Stored

LEMMA UpsertForbiddenInv ==
  ASSUME NEW h \in Handlers, NEW in \in handler[h].todo,
         ServerIInv, UpsertForbidden(h, in)
  PROVE  ServerIInv'
  <1> DEFINE result == [id |-> in.id, status |-> "forbidden", ver |-> 0,
                        body |-> NoBody]
  <1>1. Answer(h, in, result) /\ UNCHANGED <<rows, lastSeq>>
    BY DEF UpsertForbidden
  <1>2. result \in Result
    BY PushInput DEF ServerIInv, UpsertForbidden, Result
  <1>3. ServerTypeOK' /\ HandlersHaveUsers'
    BY <1>1, <1>2, AnswerType, AnswerUsers DEF ServerIInv, ServerTypeOK
  <1> QED
    BY <1>1, <1>3 DEF ServerIInv, OwnersKnown, SeqsDistinct, Stored

LEMMA PushRowInv ==
  ASSUME NEW h \in Handlers, ServerIInv, PushRow(h)
  PROVE  ServerIInv'
  BY UpsertAcceptedInv, UpsertConflictInv, UpsertForbiddenInv DEF PushRow

LEMMA QueryInv ==
  ASSUME NEW h \in Handlers, ServerIInv, Query(h)
  PROVE  ServerIInv'
  <1>1. PICK k \in Kinds : ReadTable(h, k)
    BY DEF Query
  <1> DEFINE hd  == handler[h]
             got == Lowest(Since(hd.user, k, hd.since), hd.limit + 1)
             new == [hd EXCEPT !.unread = @ \ {k}, !.got = @ \cup got]
  <1>2. hd \in Handler
    BY DEF ServerIInv, ServerTypeOK
  <1>3. got \subseteq Copy
    BY LowestIsSubset, SinceType DEF ServerIInv
  <1>4. new \in Handler /\ new.user = hd.user /\ new.state = hd.state
    <2> HIDE DEF got
    <2> QED BY <1>2, <1>3 DEF Handler
  <1>5. handler' = [handler EXCEPT ![h] = new] /\ UNCHANGED <<rows, lastSeq>>
    BY <1>1 DEF ReadTable
  <1>6. ServerTypeOK' /\ HandlersHaveUsers'
    <2> HIDE DEF new
    <2> QED BY <1>4, <1>5 DEF ServerIInv, ServerTypeOK, HandlersHaveUsers
  <1> QED
    BY <1>5, <1>6 DEF ServerIInv, OwnersKnown, SeqsDistinct, Stored

\* Respond and HandlerFails leave one handler idle, Restart all of them.
LEMMA ToIdleInv ==
  ASSUME ServerIInv, UNCHANGED <<rows, lastSeq>>,
         NEW H \in SUBSET Handlers,
         handler' = [h \in Handlers |-> IF h \in H THEN Idle ELSE handler[h]]
  PROVE  ServerIInv'
  <1>1. Idle \in Handler /\ Idle.state = "free"
    BY IdleIsHandler DEF Idle
  <1>2. ServerTypeOK' /\ HandlersHaveUsers'
    BY <1>1 DEF ServerIInv, ServerTypeOK, HandlersHaveUsers
  <1> QED
    BY <1>2 DEF ServerIInv, OwnersKnown, SeqsDistinct, Stored

LEMMA RespondInv ==
  ASSUME NEW h \in Handlers, ServerIInv, Respond(h) \/ HandlerFails(h)
  PROVE  ServerIInv'
  <1>1. handler' = [g \in Handlers |-> IF g \in {h} THEN Idle ELSE handler[g]]
    BY DEF Respond, HandlerFails, ServerIInv, ServerTypeOK
  <1> QED
    BY <1>1, ToIdleInv DEF Respond, HandlerFails

LEMMA RestartInv ==
  ASSUME ServerIInv, Restart
  PROVE  ServerIInv'
  <1>1. handler' = [g \in Handlers |-> IF g \in Handlers THEN Idle ELSE handler[g]]
    BY DEF Restart
  <1> QED
    BY <1>1, ToIdleInv DEF Restart

-----------------------------------------------------------------------------
LEMMA ServerInitInv == ServerInit => ServerIInv
  <1> SUFFICES ASSUME ServerInit PROVE ServerIInv
    OBVIOUS
  <1>1. ServerTypeOK
    BY IdleIsHandler DEF ServerInit, ServerTypeOK, Row
  <1>2. \A i \in Ids : ~Stored(i) /\ rows[i].owner = NoUser
    BY DEF ServerInit, Stored
  <1>3. HandlersHaveUsers
    BY DEF ServerInit, HandlersHaveUsers, Idle
  <1> QED
    BY <1>1, <1>2, <1>3 DEF ServerIInv, OwnersKnown, SeqsDistinct

\* A client pushes inputs and pulls from a sequence, with a page size.
LEMMA ClientStepsArrive ==
  ASSUME NEW h \in Handlers, ServerIInv, ClientPush(h) \/ ClientPull(h)
  PROVE  \/ \E u \in Users, batch \in SUBSET Input : PushArrives(h, u, batch)
         \/ \E u \in Users, since \in Nat, limit \in Nat :
              PullArrives(h, u, since, limit)
  <1>1. CASE ClientPush(h)
    <2>1. PICK u \in Users, S \in SUBSET Ids :
            \E held \in [S -> BOOLEAN], body \in [S -> Bodies] :
              PushArrives(h, u, {[id |-> i,
                                  ver |-> IF held[i] THEN rows[i].ver ELSE 0,
                                  body |-> body[i]] : i \in S})
      BY <1>1 DEF ClientPush
    <2>2. PICK held \in [S -> BOOLEAN], body \in [S -> Bodies] :
            PushArrives(h, u, {[id |-> i,
                                ver |-> IF held[i] THEN rows[i].ver ELSE 0,
                                body |-> body[i]] : i \in S})
      BY <2>1
    <2>3. \A i \in S : rows[i].ver \in Nat
      BY DEF ServerIInv, ServerTypeOK, Row
    <2>4. {[id |-> i, ver |-> IF held[i] THEN rows[i].ver ELSE 0,
            body |-> body[i]] : i \in S} \in SUBSET Input
      BY <2>3 DEF Input
    <2> QED
      BY <2>2, <2>4
  <1>2. CASE ClientPull(h)
    <2>1. PICK u \in Users :
            \E since \in 0..lastSeq[u], limit \in Limits :
              PullArrives(h, u, since, limit)
      BY <1>2 DEF ClientPull
    <2>2. PICK since \in 0..lastSeq[u], limit \in Limits :
            PullArrives(h, u, since, limit)
      BY <2>1
    <2>3. since \in Nat /\ limit \in Nat
      BY LimitsAssumption DEF ServerIInv, ServerTypeOK
    <2> QED
      BY <2>2, <2>3
  <1> QED
    BY <1>1, <1>2

LEMMA ServerNextInv == ServerIInv /\ [ServerNext]_serverVars => ServerIInv'
  <1> SUFFICES ASSUME ServerIInv, [ServerNext]_serverVars
               PROVE  ServerIInv'
    OBVIOUS
  <1>1. CASE Restart
    BY <1>1, RestartInv
  <1>2. ASSUME NEW h \in Handlers, ClientPush(h) \/ ClientPull(h)
        PROVE  ServerIInv'
    BY <1>2, ClientStepsArrive, PushArrivesInv, PullArrivesInv
  <1>3. ASSUME NEW h \in Handlers,
               PushRow(h) \/ Query(h) \/ Respond(h) \/ HandlerFails(h)
        PROVE  ServerIInv'
    BY <1>3, PushRowInv, QueryInv, RespondInv
  <1>4. CASE UNCHANGED serverVars
    BY <1>4 DEF serverVars, ServerIInv, ServerTypeOK, HandlersHaveUsers,
                OwnersKnown, SeqsDistinct, Stored
  <1> QED
    BY <1>1, <1>2, <1>3, <1>4 DEF ServerNext

LEMMA ServerInvariant == ServerSpec => []ServerIInv
  BY ServerInitInv, ServerNextInv, PTL DEF ServerSpec

\* The server's variables keep their types whatever its clients send.
THEOREM ServerTypeCorrect == ServerSpec => []ServerTypeOK
  <1>1. ServerIInv => ServerTypeOK
    BY DEF ServerIInv
  <1> QED
    BY <1>1, ServerInvariant, PTL

\* No two rows of an account ever share a sequence and none is above
\* last_seq, for any number of accounts, rows and concurrent pushes
\* (store/notes.go, nextSeq).
THEOREM SequencesAreDistinct == ServerSpec => []SeqsDistinct
  <1>1. ServerIInv => SeqsDistinct
    BY DEF ServerIInv
  <1> QED
    BY <1>1, ServerInvariant, PTL

-----------------------------------------------------------------------------
(* Answers and writes.                                                     *)

\* What every step but UpsertAccepted does to the rows and to the accepted
\* answers on their way: nothing, apart from forgetting answers.
Accepts(h) == {r \in handler[h].results : r.status = "accepted"}

QuietStep ==
  /\ UNCHANGED rows
  /\ \A h \in Handlers : /\ Accepts(h)' \subseteq Accepts(h)
                         /\ Accepts(h)' # {} => handler'[h].user = handler[h].user

LEMMA QuietKeepsAccepted ==
  ASSUME AcceptedIsStored, QuietStep
  PROVE  AcceptedIsStored'
  <1>1. \A h \in Handlers : \A r \in handler'[h].results :
          r.status = "accepted" => /\ r \in handler[h].results
                                   /\ handler'[h].user = handler[h].user
    BY DEF QuietStep, Accepts
  <1>2. rows' = rows
    BY DEF QuietStep
  <1> QED
    BY <1>1, <1>2 DEF AcceptedIsStored

LEMMA ArrivalIsQuiet ==
  ASSUME NEW h \in Handlers, NEW new, new.results = {}, ServerTypeOK,
         handler' = [handler EXCEPT ![h] = new], UNCHANGED rows
  PROVE  QuietStep
  BY DEF QuietStep, Accepts, ServerTypeOK

LEMMA RefusalIsQuiet ==
  ASSUME NEW h \in Handlers, NEW in, NEW result, result.status # "accepted",
         ServerTypeOK, Answer(h, in, result), UNCHANGED rows
  PROVE  QuietStep
  <1>1. ASSUME NEW g \in Handlers
        PROVE  /\ handler'[g].user = handler[g].user
               /\ handler'[g].results \subseteq handler[g].results \cup {result}
    <2>1. handler[g] \in Handler
      BY DEF ServerTypeOK
    <2> QED
      BY <2>1 DEF Answer, Handler, ServerTypeOK
  <1> QED
    BY <1>1 DEF QuietStep, Accepts

LEMMA QueryIsQuiet ==
  ASSUME NEW h \in Handlers, ServerTypeOK, Query(h)
  PROVE  QuietStep
  <1>1. ASSUME NEW g \in Handlers
        PROVE  /\ handler'[g].user = handler[g].user
               /\ handler'[g].results = handler[g].results
    <2>1. handler[g] \in Handler
      BY DEF ServerTypeOK
    <2> QED
      BY <2>1 DEF Query, ReadTable, Handler, ServerTypeOK
  <1>2. UNCHANGED rows
    BY DEF Query, ReadTable
  <1> QED
    BY <1>1, <1>2 DEF QuietStep, Accepts

LEMMA EndIsQuiet ==
  ASSUME NEW H \in SUBSET Handlers, UNCHANGED rows,
         handler' = [h \in Handlers |-> IF h \in H THEN Idle ELSE handler[h]]
  PROVE  QuietStep
  <1>1. Idle.results = {}
    BY DEF Idle
  <1> QED
    BY <1>1 DEF QuietStep, Accepts

\* The one step that writes: what it does to the row, and to the others.
LEMMA UpsertWrites ==
  ASSUME NEW h \in Handlers, NEW in \in handler[h].todo,
         ServerIInv, UpsertAccepted(h, in)
  PROVE  /\ in.id \in Ids /\ rows[in.id].ver \in Nat
         /\ rows'[in.id].ver = rows[in.id].ver + 1
         /\ rows'[in.id].body = in.body
         /\ rows'[in.id].owner = handler[h].user
         /\ Stored(in.id) => rows[in.id].owner = handler[h].user
         /\ rows'[in.id].seq > lastSeq[handler[h].user]
         /\ \A j \in Ids \ {in.id} : rows'[j] = rows[j]
  BY PushInput DEF UpsertAccepted, NextSeq, IsForbidden, ServerIInv, ServerTypeOK

LEMMA UpsertKeepsAccepted ==
  ASSUME NEW h \in Handlers, NEW in \in handler[h].todo,
         ServerIInv, AcceptedIsStored, UpsertAccepted(h, in)
  PROVE  AcceptedIsStored'
  <1> DEFINE i   == in.id
             new == [id |-> i, status |-> "accepted",
                     ver |-> rows[i].ver + 1, body |-> in.body]
  <1>1. /\ i \in Ids /\ rows[i].ver \in Nat
        /\ rows'[i].ver = rows[i].ver + 1
        /\ rows'[i].body = in.body
        /\ rows'[i].owner = handler[h].user
        /\ \A j \in Ids \ {i} : rows'[j] = rows[j]
    BY UpsertWrites
  <1>2. ASSUME NEW g \in Handlers
        PROVE  /\ handler'[g].user = handler[g].user
               /\ handler'[g].results =
                    handler[g].results \cup (IF g = h THEN {new} ELSE {})
    <2>1. handler[g] \in Handler
      BY DEF ServerIInv, ServerTypeOK
    <2> QED
      BY <2>1 DEF UpsertAccepted, Answer, Handler, ServerIInv, ServerTypeOK
  <1>3. \A g \in Handlers : \A r \in handler[g].results :
          r.id \in Ids /\ r.ver \in Nat
    BY DEF ServerIInv, ServerTypeOK, Handler, Result
  <1>4. \A g \in Handlers : \A r \in handler[g].results :
          r.status = "accepted" /\ r.id = i => r.ver <= rows[i].ver
    BY DEF AcceptedIsStored
  <1>5. new.id = i /\ new.ver = rows[i].ver + 1 /\ new.body = in.body
    OBVIOUS
  <1> HIDE DEF new
  <1> SUFFICES ASSUME NEW g \in Handlers, NEW r \in handler'[g].results,
                      r.status = "accepted"
               PROVE  /\ r.ver <= rows'[r.id].ver
                      /\ r.ver = rows'[r.id].ver =>
                           /\ r.body = rows'[r.id].body
                           /\ rows'[r.id].owner = handler'[g].user
                      /\ \A f \in Handlers : \A q \in handler'[f].results :
                           q.status = "accepted" /\ q.id = r.id /\ q.ver = r.ver
                             => f = g /\ q = r
    BY DEF AcceptedIsStored
  <1>6. CASE r \in handler[g].results
    <2>1. r.id \in Ids /\ r.ver \in Nat
      BY <1>3, <1>6
    <2>2. /\ r.ver <= rows[r.id].ver
          /\ r.ver = rows[r.id].ver => /\ r.body = rows[r.id].body
                                       /\ rows[r.id].owner = handler[g].user
      BY <1>6 DEF AcceptedIsStored
    <2>3. ASSUME NEW f \in Handlers, NEW q \in handler'[f].results,
                 q.status = "accepted", q.id = r.id, q.ver = r.ver
          PROVE  f = g /\ q = r
      <3>1. CASE q \in handler[f].results
        BY <1>6, <2>3, <3>1 DEF AcceptedIsStored
      <3>2. CASE q = new
        BY <1>1, <1>4, <1>5, <1>6, <2>1, <2>3, <3>2
      <3> QED
        BY <1>2, <3>1, <3>2
    <2>4. CASE r.id = i
      BY <1>1, <1>4, <1>6, <2>1, <2>3, <2>4
    <2>5. CASE r.id # i
      BY <1>1, <1>2, <2>1, <2>2, <2>3, <2>5
    <2> QED
      BY <2>4, <2>5
  <1>7. CASE r = new /\ g = h
    <2>1. ASSUME NEW f \in Handlers, NEW q \in handler'[f].results,
                 q.status = "accepted", q.id = r.id, q.ver = r.ver
          PROVE  f = g /\ q = r
      <3>1. CASE q \in handler[f].results
        BY <1>1, <1>3, <1>4, <1>5, <1>7, <2>1, <3>1
      <3>2. CASE q = new /\ f = h
        BY <1>7, <3>2
      <3> QED
        BY <1>2, <3>1, <3>2
    <2> QED
      BY <1>1, <1>2, <1>5, <1>7, <2>1
  <1> QED
    BY <1>2, <1>6, <1>7

LEMMA StepIsWriteOrQuiet ==
  ASSUME ServerIInv, [ServerNext]_serverVars
  PROVE  \/ QuietStep
         \/ \E h \in Handlers : \E in \in handler[h].todo : UpsertAccepted(h, in)
  <1>1. ServerTypeOK
    BY DEF ServerIInv
  <1>2. CASE Restart
    <2>1. handler' = [g \in Handlers |-> IF g \in Handlers THEN Idle ELSE handler[g]]
      BY <1>2 DEF Restart
    <2> QED
      BY <1>2, <2>1, EndIsQuiet DEF Restart
  <1>3. ASSUME NEW h \in Handlers, NEW u, NEW batch, PushArrives(h, u, batch)
        PROVE  QuietStep
    <2> DEFINE new == [Idle EXCEPT !.state = "push", !.user = u, !.todo = batch]
    <2>1. new.results = {}
      BY DEF Idle
    <2> QED
      BY <1>1, <1>3, <2>1, ArrivalIsQuiet DEF PushArrives
  <1>4. ASSUME NEW h \in Handlers, NEW u, NEW since, NEW limit,
               PullArrives(h, u, since, limit)
        PROVE  QuietStep
    <2> DEFINE new == [Idle EXCEPT !.state = "pull", !.user = u, !.since = since,
                                   !.limit = limit, !.unread = Kinds,
                                   !.start = lastSeq[u]]
    <2>1. new.results = {}
      BY DEF Idle
    <2> QED
      BY <1>1, <1>4, <2>1, ArrivalIsQuiet DEF PullArrives
  <1>5. ASSUME NEW h \in Handlers, NEW in \in handler[h].todo,
               UpsertConflict(h, in) \/ UpsertForbidden(h, in)
        PROVE  QuietStep
    BY <1>1, <1>5, RefusalIsQuiet DEF UpsertConflict, UpsertForbidden, ServerCopy
  <1>6. ASSUME NEW h \in Handlers, Respond(h) \/ HandlerFails(h)
        PROVE  QuietStep
    <2>1. handler' = [g \in Handlers |-> IF g \in {h} THEN Idle ELSE handler[g]]
      BY <1>1, <1>6 DEF Respond, HandlerFails, ServerTypeOK
    <2> QED
      BY <1>6, <2>1, EndIsQuiet DEF Respond, HandlerFails
  <1>7. CASE UNCHANGED serverVars
    BY <1>7 DEF serverVars, QuietStep, Accepts
  <1>8. ASSUME NEW h \in Handlers, ClientPush(h) \/ ClientPull(h)
        PROVE  QuietStep
    BY <1>3, <1>4, <1>8 DEF ClientPush, ClientPull
  <1>9. ASSUME NEW h \in Handlers, PushRow(h)
        PROVE  \/ QuietStep
               \/ \E in \in handler[h].todo : UpsertAccepted(h, in)
    BY <1>5, <1>9 DEF PushRow
  <1> QED
    BY <1>1, <1>2, <1>6, <1>7, <1>8, <1>9, QueryIsQuiet DEF ServerNext

\* An accepted version is handed out once, and is what the server stores
\* until the next write of that row, whatever other pushes run meanwhile.
THEOREM AcceptedVersionsAreStored == ServerSpec => []AcceptedIsStored
  <1>1. ServerInit => AcceptedIsStored
    BY DEF ServerInit, Idle, AcceptedIsStored
  <1>2. ServerIInv /\ AcceptedIsStored /\ [ServerNext]_serverVars => AcceptedIsStored'
    BY StepIsWriteOrQuiet, QuietKeepsAccepted, UpsertKeepsAccepted
  <1> QED
    BY <1>1, <1>2, ServerInvariant, PTL DEF ServerSpec

\* Every write of a row is the next version of that one row, for the account
\* that owns it, under a sequence not used before.
THEOREM EveryWriteAdvances == ServerSpec => WritesAdvance
  <1> DEFINE A == \A i \in Ids : rows'[i] # rows[i] =>
                    /\ rows'[i].ver = rows[i].ver + 1
                    /\ Stored(i) => rows'[i].owner = rows[i].owner
                    /\ rows'[i].seq > lastSeq[rows'[i].owner]
                    /\ \A j \in Ids \ {i} : rows'[j] = rows[j]
  <1>1. ServerIInv /\ [ServerNext]_serverVars => [A]_serverVars
    <2> SUFFICES ASSUME ServerIInv, [ServerNext]_serverVars PROVE A
      OBVIOUS
    <2>1. CASE QuietStep
      BY <2>1 DEF QuietStep
    <2>2. ASSUME NEW h \in Handlers, NEW in \in handler[h].todo,
                 UpsertAccepted(h, in)
          PROVE  A
      BY <2>2, UpsertWrites
    <2> QED
      BY <2>1, <2>2, StepIsWriteOrQuiet
  <1> QED
    BY <1>1, ServerInvariant, PTL DEF ServerSpec, WritesAdvance

-----------------------------------------------------------------------------
(* Pages.  A pull reads the tables one after the other while pushes go on, *)
(* and cuts its page out of the `limit + 1` lowest rows of each.           *)

\* What lies below a sequence.
Behind(copies, seq) == {c \in copies : c.seq < seq}

CopyOf(i) == [id |-> i, ver |-> rows[i].ver, seq |-> rows[i].seq,
              body |-> rows[i].body]

\* The pull read the table of row i when the row already stood where it
\* stands: it was there when the pull arrived, or a row read with it is later.
Reached(h, i) ==
  \/ rows[i].seq <= handler[h].start
  \/ \E c \in handler[h].got : KindOf[c.id] = KindOf[i] /\ rows[i].seq <= c.seq

\* A row the pull reached is among what it got, unchanged, or more rows than
\* the page can hold come before it.
GathersRow(h, i) ==
  /\ KindOf[i] \notin handler[h].unread
  /\ rows[i].owner = handler[h].user
  /\ handler[h].since < rows[i].seq
  /\ Reached(h, i)
  => \/ CopyOf(i) \in handler[h].got
     \/ Cardinality(Behind(handler[h].got, rows[i].seq)) > handler[h].limit

\* What a pull has got is finite, the account's, above the cursor it was asked
\* for and of the past; a copy out of date is of a row that moved on beyond
\* all of it.
GotOfPast(h) ==
  /\ IsFiniteSet(handler[h].got)
  /\ handler[h].start <= lastSeq[handler[h].user]
  /\ \A c \in handler[h].got : /\ handler[h].since < c.seq
                               /\ c.seq <= lastSeq[handler[h].user]
                               /\ KindOf[c.id] \notin handler[h].unread
                               /\ rows[c.id].owner = handler[h].user
                               /\ Reached(h, c.id) => c = CopyOf(c.id)

Gathers ==
  \A h \in Handlers : handler[h].state = "pull" =>
    GotOfPast(h) /\ \A i \in Ids : GathersRow(h, i)

\* A nonempty set of copies has one with the least sequence, and one with the
\* greatest where the sequences are bounded.
LEMMA LeastSeq ==
  ASSUME NEW S, S # {}, \A c \in S : c.seq \in Nat
  PROVE  \E m \in S : \A c \in S : m.seq <= c.seq
  <1> DEFINE T == {c.seq : c \in S}
  <1>1. T \subseteq Nat /\ T # {}
    OBVIOUS
  <1>2. PICK x \in T : \A y \in T : ~(<<y, x>> \in OpToRel(<, Nat))
    <2> HIDE DEF T
    <2> QED BY <1>1, NatLessThanWellFounded, WFMin, Zenon
  <1>3. \A y \in T : ~(y < x)
    <2> HIDE DEF T
    <2> QED BY <1>1, <1>2, Zenon DEF OpToRel
  <1>4. PICK m \in S : x = m.seq
    OBVIOUS
  <1>5. \A c \in S : ~(c.seq < m.seq)
    BY <1>3, <1>4
  <1> QED
    BY <1>5

LEMMA MaxExists ==
  ASSUME NEW S \in SUBSET Nat, S # {}, NEW b \in Nat, \A s \in S : s <= b
  PROVE  \E m \in S : \A s \in S : s <= m
  <1> DEFINE T == {b - s : s \in S}
  <1>1. T \subseteq Nat /\ T # {}
    <2>1. \A s \in S : b - s \in Nat
      OBVIOUS
    <2>2. PICK s \in S : TRUE
      OBVIOUS
    <2>3. b - s \in T
      BY <2>2
    <2> QED
      BY <2>1, <2>3
  <1>2. PICK x \in T : \A y \in T : ~(<<y, x>> \in OpToRel(<, Nat))
    <2> HIDE DEF T
    <2> QED BY <1>1, NatLessThanWellFounded, WFMin, Zenon
  <1>3. \A y \in T : ~(y < x)
    <2> HIDE DEF T
    <2> QED BY <1>1, <1>2, Zenon DEF OpToRel
  <1>4. PICK m \in S : x = b - m
    OBVIOUS
  <1>5. \A s \in S : ~(b - s < b - m)
    BY <1>3, <1>4
  <1> QED
    BY <1>5

\* ORDER BY seq LIMIT n leaves a row out only when n rows come before it.
LEMMA LowestLacks ==
  ASSUME NEW S, IsFiniteSet(S), \A c \in S : c.seq \in Nat, NEW n \in Nat,
         NEW x \in S, x \notin Lowest(S, n)
  PROVE  Cardinality(Behind(Lowest(S, n), x.seq)) >= n
  <1> DEFINE T == S \ Lowest(S, n)
  <1>1. PICK y \in T : \A c \in T : y.seq <= c.seq
    BY LeastSeq
  <1> DEFINE B == {b \in S : b.seq < y.seq}
             U == Behind(Lowest(S, n), x.seq)
  <1>2. B \subseteq S /\ U \subseteq S
    BY LowestIsSubset DEF Behind
  <1>3. IsFiniteSet(B) /\ Cardinality(B) \in Nat
    BY <1>2, FS_Subset, FS_CardinalityType
  <1>4. ~(Cardinality(B) < n)
    BY <1>1 DEF Lowest
  <1>5. B \subseteq U
    <2> SUFFICES ASSUME NEW b \in B PROVE b \in U
      OBVIOUS
    <2>1. b \in S /\ b.seq < y.seq /\ b.seq \in Nat /\ y.seq \in Nat /\ x.seq \in Nat
      BY <1>1
    <2>2. b \notin T
      BY <1>1, <2>1
    <2>3. y.seq <= x.seq
      BY <1>1
    <2> QED
      BY <2>1, <2>2, <2>3 DEF Behind
  <1>6. IsFiniteSet(U) /\ Cardinality(U) \in Nat
    BY <1>2, FS_Subset, FS_CardinalityType
  <1>7. Cardinality(B) <= Cardinality(U)
    <2> HIDE DEF B, U
    <2> QED BY <1>5, <1>6, FS_Subset
  <1> QED
    BY <1>3, <1>4, <1>6, <1>7

\* What one of the four queries may return: finitely many rows, as they are.
LEMMA SinceRows ==
  ASSUME ServerIInv, NEW u \in Users, NEW k, NEW since \in Nat
  PROVE  /\ \A i \in Ids : CopyOf(i) \in Since(u, k, since) <=>
              KindOf[i] = k /\ rows[i].owner = u /\ rows[i].seq > since
         /\ \A c \in Since(u, k, since) :
              /\ c.id \in Ids /\ KindOf[c.id] = k /\ c = CopyOf(c.id)
              /\ rows[c.id].owner = u
              /\ c.seq \in Nat /\ since < c.seq /\ c.seq <= lastSeq[u]
         /\ IsFiniteSet(Since(u, k, since))
  <1> DEFINE S == Since(u, k, since)
  <1>1. ASSUME NEW c \in S
        PROVE  /\ c.id \in Ids /\ KindOf[c.id] = k /\ c = CopyOf(c.id)
               /\ rows[c.id].owner = u /\ rows[c.id].seq > since
               /\ c.seq = rows[c.id].seq
    BY DEF Since, CopyOf
  <1>2. \A i \in Ids : CopyOf(i) \in S <=>
          KindOf[i] = k /\ rows[i].owner = u /\ rows[i].seq > since
    <2>1. \A i \in Ids : CopyOf(i).id = i
      BY DEF CopyOf
    <2>2. \A i \in Ids : KindOf[i] = k /\ rows[i].owner = u /\ rows[i].seq > since
            => CopyOf(i) \in S
      BY DEF Since, CopyOf
    <2> HIDE DEF S
    <2> QED BY <1>1, <2>1, <2>2
  <1>3. ASSUME NEW c \in S
        PROVE  c.seq \in Nat /\ since < c.seq /\ c.seq <= lastSeq[u] /\ Stored(c.id)
    <2>1. /\ c.id \in Ids /\ rows[c.id].owner = u /\ c.seq = rows[c.id].seq
          /\ rows[c.id].seq > since
      BY <1>1
    <2>2. rows[c.id] \in Row
      BY <2>1 DEF ServerIInv, ServerTypeOK
    <2>3. Stored(c.id)
      BY <2>1, UsersAssumption DEF ServerIInv, OwnersKnown
    <2> QED
      BY <2>1, <2>2, <2>3 DEF ServerIInv, SeqsDistinct, Row
  <1>4. IsFiniteSet(S)
    <2> DEFINE f == [c \in S |-> c.seq]
               N == 0..lastSeq[u]
    <2>1. lastSeq[u] \in Nat
      BY DEF ServerIInv, ServerTypeOK
    <2>2. f \in [S -> N]
      <3> HIDE DEF S
      <3> QED BY <1>3, <2>1
    <2>3. ASSUME NEW c \in S, NEW d \in S, f[c] = f[d]
          PROVE  c = d
      <3>1. c.seq = d.seq
        BY <2>3
      <3>2. rows[c.id].seq = rows[d.id].seq
        BY <1>1, <3>1
      <3>3. c.id = d.id
        <4>1. c.id \in Ids /\ d.id \in Ids /\ rows[c.id].owner = rows[d.id].owner
          BY <1>1
        <4>2. Stored(c.id) /\ Stored(d.id)
          BY <1>3
        <4> HIDE DEF S
        <4> QED BY <3>2, <4>1, <4>2 DEF ServerIInv, SeqsDistinct
      <3> QED
        BY <1>1, <3>3
    <2>4. f \in Injection(S, N)
      <3> HIDE DEF S
      <3> QED BY <2>2, <2>3 DEF Injection, IsInjective
    <2>5. IsFiniteSet(N)
      BY <2>1, FS_Interval
    <2> QED
      <3> HIDE DEF S, N, f
      <3> QED BY <2>4, <2>5, FS_Injection
  <1> QED
    BY <1>1, <1>2, <1>3, <1>4

LEMMA MoreBehind ==
  ASSUME NEW T, IsFiniteSet(T), NEW S \in SUBSET T, NEW q
  PROVE  /\ Cardinality(Behind(S, q)) \in Nat /\ Cardinality(Behind(T, q)) \in Nat
         /\ Cardinality(Behind(S, q)) <= Cardinality(Behind(T, q))
  <1>1. Behind(S, q) \subseteq Behind(T, q) /\ Behind(T, q) \subseteq T
    BY DEF Behind
  <1>2. IsFiniteSet(Behind(T, q))
    BY <1>1, FS_Subset
  <1>3. IsFiniteSet(Behind(S, q)) /\ Cardinality(Behind(S, q)) <= Cardinality(Behind(T, q))
    BY <1>1, <1>2, FS_Subset
  <1> QED
    BY <1>2, <1>3, FS_CardinalityType

\* One query more, whatever was written since the one before.
LEMMA QueryGathers ==
  ASSUME NEW h \in Handlers, ServerIInv, Gathers, Query(h)
  PROVE  Gathers'
  <1>1. PICK k \in Kinds : ReadTable(h, k)
    BY DEF Query
  <1> DEFINE hd  == handler[h]
             S   == Since(hd.user, k, hd.since)
             L   == Lowest(S, hd.limit + 1)
             new == [hd EXCEPT !.unread = @ \ {k}, !.got = @ \cup L]
  <1>2. /\ hd \in Handler /\ hd.state = "pull" /\ hd.user \in Users
        /\ hd.since \in Nat /\ hd.limit \in Nat /\ k \in hd.unread
    BY <1>1 DEF ServerIInv, ServerTypeOK, HandlersHaveUsers, ReadTable, Handler
  <1>3. /\ \A i \in Ids : CopyOf(i) \in S <=>
              KindOf[i] = k /\ rows[i].owner = hd.user /\ rows[i].seq > hd.since
        /\ \A c \in S : /\ c.id \in Ids /\ KindOf[c.id] = k /\ c = CopyOf(c.id)
                        /\ rows[c.id].owner = hd.user
                        /\ c.seq \in Nat /\ hd.since < c.seq
                        /\ c.seq <= lastSeq[hd.user]
        /\ IsFiniteSet(S)
    BY <1>2, SinceRows
  <1>4. L \subseteq S
    BY LowestIsSubset
  <1>5. /\ handler' = [handler EXCEPT ![h] = new]
        /\ rows' = rows /\ lastSeq' = lastSeq
    BY <1>1 DEF ReadTable
  <1>6. \A g \in Handlers : handler'[g] = IF g = h THEN new ELSE handler[g]
    BY <1>5 DEF ServerIInv, ServerTypeOK
  <1>7. /\ new.user = hd.user /\ new.since = hd.since /\ new.limit = hd.limit
        /\ new.start = hd.start /\ new.state = "pull"
        /\ new.unread = hd.unread \ {k} /\ new.got = hd.got \cup L
    <2> HIDE DEF L
    <2> QED BY <1>2 DEF Handler
  <1> HIDE DEF new, S, L
  <1>8. GotOfPast(h) /\ \A i \in Ids : GathersRow(h, i)
    BY <1>2 DEF Gathers
  <1>9. IsFiniteSet(new.got)
    BY <1>3, <1>4, <1>7, <1>8, FS_Subset, FS_Union DEF GotOfPast
  <1>10. GotOfPast(h)'
    <2>1. handler'[h] = new
      BY <1>6
    <2>2. \A c \in L : /\ hd.since < c.seq /\ c.seq <= lastSeq[hd.user]
                       /\ rows[c.id].owner = hd.user
                       /\ KindOf[c.id] = k /\ c = CopyOf(c.id)
      BY <1>3, <1>4
    <2>3. \A c \in new.got : /\ new.since < c.seq /\ c.seq <= lastSeq[new.user]
                             /\ KindOf[c.id] \notin new.unread
                             /\ rows[c.id].owner = new.user
      BY <1>7, <1>8, <2>2 DEF GotOfPast
    <2>4. new.start <= lastSeq[new.user]
      BY <1>7, <1>8 DEF GotOfPast
    <2>5. ASSUME NEW c \in new.got, Reached(h, c.id)'
          PROVE  c = CopyOf(c.id)
      <3>1. CASE c \in L
        BY <2>2, <3>1
      <3>2. CASE c \in hd.got
        <4>1. KindOf[c.id] # k
          BY <1>2, <1>8, <3>2 DEF GotOfPast
        <4>2. Reached(h, c.id)
          BY <1>5, <1>7, <2>1, <2>2, <2>5, <4>1 DEF Reached
        <4> QED
          BY <1>8, <3>2, <4>2 DEF GotOfPast
      <3> QED
        BY <1>7, <3>1, <3>2
    <2>6. \A i : CopyOf(i)' = CopyOf(i)
      BY <1>5 DEF CopyOf
    <2> QED
      BY <1>5, <1>9, <2>1, <2>3, <2>4, <2>5, <2>6 DEF GotOfPast
  <1>11. ASSUME NEW i \in Ids
         PROVE  GathersRow(h, i)'
    <2> SUFFICES ASSUME KindOf[i] \notin new.unread, rows[i].owner = hd.user,
                        hd.since < rows[i].seq, Reached(h, i)'
                 PROVE  \/ CopyOf(i) \in new.got
                        \/ Cardinality(Behind(new.got, rows[i].seq)) > hd.limit
      BY <1>5, <1>6, <1>7 DEF GathersRow, CopyOf
    <2> DEFINE q == rows[i].seq
    <2>1. CASE KindOf[i] = k
      <3>1. CopyOf(i) \in S /\ q \in Nat /\ CopyOf(i).seq = q
        BY <1>2, <1>3, <2>1 DEF ServerIInv, ServerTypeOK, Row, CopyOf
      <3>2. CASE CopyOf(i) \in L
        BY <1>7, <3>2
      <3>3. CASE CopyOf(i) \notin L
        <4>1. hd.limit + 1 \in Nat
          BY <1>2
        <4>2. Cardinality(Behind(L, q)) >= hd.limit + 1
          BY <1>3, <3>1, <3>3, <4>1, LowestLacks DEF L
        <4>3. /\ Cardinality(Behind(L, q)) \in Nat
              /\ Cardinality(Behind(new.got, q)) \in Nat
              /\ Cardinality(Behind(L, q)) <= Cardinality(Behind(new.got, q))
          BY <1>7, <1>9, MoreBehind
        <4> QED
          BY <1>2, <4>2, <4>3
      <3> QED
        BY <3>2, <3>3
    <2>2. CASE KindOf[i] # k
      <3>1. KindOf[i] \notin hd.unread
        BY <1>7, <2>2
      <3>2. Reached(h, i)
        BY <1>3, <1>4, <1>5, <1>6, <1>7, <2>2 DEF Reached
      <3>3. CopyOf(i) \in hd.got \/ Cardinality(Behind(hd.got, q)) > hd.limit
        BY <1>8, <3>1, <3>2 DEF GathersRow
      <3>4. /\ Cardinality(Behind(hd.got, q)) \in Nat
            /\ Cardinality(Behind(new.got, q)) \in Nat
            /\ Cardinality(Behind(hd.got, q)) <= Cardinality(Behind(new.got, q))
        BY <1>7, <1>9, MoreBehind
      <3> QED
        BY <1>2, <1>7, <3>3, <3>4
    <2> QED
      BY <2>1, <2>2
  <1>12. ASSUME NEW g \in Handlers, g # h, handler[g].state = "pull"
         PROVE  GotOfPast(g)' /\ \A i \in Ids : GathersRow(g, i)'
    <2>1. GotOfPast(g) /\ \A i \in Ids : GathersRow(g, i)
      BY <1>12 DEF Gathers
    <2>2. handler'[g] = handler[g]
      BY <1>6, <1>12
    <2> QED
      BY <1>5, <2>1, <2>2 DEF GotOfPast, GathersRow, Reached, CopyOf
  <1> QED
    BY <1>6, <1>7, <1>10, <1>11, <1>12 DEF Gathers

\* Every other step: pulls begin, end, or stay as they are, and a row that is
\* written gets a sequence above everything any of them has seen.
LEMMA GathersStays ==
  ASSUME ServerIInv, ServerTypeOK', Gathers,
         \A u \in Users : lastSeq[u] <= lastSeq'[u],
         \A i \in Ids : \/ rows'[i] = rows[i]
                        \/ /\ rows'[i].seq > lastSeq[rows'[i].owner]
                           /\ Stored(i) => rows'[i].owner = rows[i].owner,
         \A h \in Handlers : handler'[h].state = "pull" =>
           \/ handler'[h] = handler[h]
           \/ /\ handler'[h].got = {} /\ handler'[h].unread = Kinds
              /\ handler'[h].start <= lastSeq'[handler'[h].user]
  PROVE  Gathers'
  <1> SUFFICES ASSUME NEW h \in Handlers, handler'[h].state = "pull"
               PROVE  GotOfPast(h)' /\ \A i \in Ids : GathersRow(h, i)'
    BY DEF Gathers
  <1>1. CASE handler'[h] = handler[h]
    <2> DEFINE hd == handler[h]
               u  == hd.user
    <2>1. u \in Users /\ hd.start \in Nat /\ lastSeq[u] \in Nat /\ lastSeq'[u] \in Nat
      BY <1>1 DEF ServerIInv, ServerTypeOK, HandlersHaveUsers, Handler
    <2>2. GotOfPast(h) /\ \A i \in Ids : GathersRow(h, i)
      BY <1>1 DEF Gathers
    <2>3. \A c \in hd.got : c.seq \in Nat
      BY DEF ServerIInv, ServerTypeOK, Handler, Copy
    <2>4. ASSUME NEW i \in Ids, Reached(h, i)', rows'[i].owner = u
          PROVE  rows'[i] = rows[i] /\ Reached(h, i)
      <3>1. CASE rows'[i] = rows[i]
        BY <1>1, <2>4, <3>1 DEF Reached
      <3>2. CASE rows'[i].seq > lastSeq[u]
        <4>1. rows'[i].seq \in Nat
          BY DEF ServerTypeOK, Row
        <4>2. ~(rows'[i].seq <= hd.start)
          BY <2>1, <2>2, <3>2, <4>1 DEF GotOfPast
        <4>3. \A c \in hd.got : ~(rows'[i].seq <= c.seq)
          BY <2>1, <2>2, <2>3, <3>2, <4>1 DEF GotOfPast
        <4> QED
          BY <1>1, <2>4, <4>2, <4>3 DEF Reached
      <3> QED
        BY <2>4, <3>1, <3>2
    <2>5. GotOfPast(h)'
      <3>1. hd.start <= lastSeq'[u] /\ \A c \in hd.got : c.seq <= lastSeq'[u]
        BY <2>1, <2>2, <2>3 DEF GotOfPast
      <3>2. ASSUME NEW c \in hd.got
            PROVE  c.id \in Ids /\ rows'[c.id].owner = u
        <4>1. c.id \in Ids /\ rows[c.id].owner = u
          BY <2>2 DEF GotOfPast, ServerIInv, ServerTypeOK, Handler, Copy
        <4>2. Stored(c.id)
          BY <2>1, <4>1, UsersAssumption DEF ServerIInv, OwnersKnown
        <4> QED
          BY <4>1, <4>2
      <3>3. ASSUME NEW c \in hd.got, Reached(h, c.id)'
            PROVE  c = CopyOf(c.id)'
        BY <2>2, <2>4, <3>2, <3>3 DEF GotOfPast, CopyOf
      <3> QED
        BY <1>1, <2>2, <3>1, <3>2, <3>3 DEF GotOfPast
    <2>6. ASSUME NEW i \in Ids
          PROVE  GathersRow(h, i)'
      BY <1>1, <2>2, <2>4 DEF GathersRow, CopyOf
    <2> QED
      BY <2>5, <2>6
  <1>2. CASE /\ handler'[h].got = {} /\ handler'[h].unread = Kinds
             /\ handler'[h].start <= lastSeq'[handler'[h].user]
    <2>1. \A i \in Ids : KindOf[i] \in Kinds
      BY IdsAssumption
    <2> QED
      BY <1>2, <2>1, FS_EmptySet DEF GotOfPast, GathersRow
  <1> QED
    BY <1>1, <1>2

LEMMA SeqsAreNat ==
  ASSUME ServerTypeOK
  PROVE  \A u \in Users : lastSeq[u] \in Nat /\ lastSeq[u] <= lastSeq[u]
  BY DEF ServerTypeOK

LEMMA PushArrivesGathers ==
  ASSUME NEW h \in Handlers, NEW u \in Users, NEW batch \in SUBSET Input,
         ServerIInv, Gathers, PushArrives(h, u, batch)
  PROVE  Gathers'
  <1> DEFINE new == [Idle EXCEPT !.state = "push", !.user = u, !.todo = batch]
  <1>1. new.state = "push"
    BY DEF Idle
  <1>2. \A g \in Handlers : handler'[g] = IF g = h THEN new ELSE handler[g]
    BY DEF PushArrives, ServerIInv, ServerTypeOK
  <1>3. \A g \in Handlers : handler'[g].state = "pull" => handler'[g] = handler[g]
    <2> HIDE DEF new
    <2> QED BY <1>1, <1>2
  <1>4. ServerTypeOK' /\ ServerTypeOK
    BY PushArrivesInv DEF ServerIInv
  <1> QED
    BY <1>3, <1>4, GathersStays, SeqsAreNat DEF PushArrives

LEMMA PullArrivesGathers ==
  ASSUME NEW h \in Handlers, NEW u \in Users, NEW since \in Nat,
         NEW limit \in Nat, ServerIInv, Gathers, PullArrives(h, u, since, limit)
  PROVE  Gathers'
  <1> DEFINE new == [Idle EXCEPT !.state = "pull", !.user = u, !.since = since,
                                 !.limit = limit, !.unread = Kinds,
                                 !.start = lastSeq[u]]
  <1>1. /\ new.got = {} /\ new.unread = Kinds
        /\ new.start = lastSeq[u] /\ new.user = u
    BY DEF Idle
  <1>2. \A g \in Handlers : handler'[g] = IF g = h THEN new ELSE handler[g]
    BY DEF PullArrives, ServerIInv, ServerTypeOK
  <1>3. ServerTypeOK' /\ ServerTypeOK /\ rows' = rows /\ lastSeq' = lastSeq
    <2>1. ServerIInv'
      BY PullArrivesInv
    <2> QED
      BY <2>1 DEF ServerIInv, PullArrives
  <1>4. \A g \in Handlers : handler'[g].state = "pull" =>
          \/ handler'[g] = handler[g]
          \/ /\ handler'[g].got = {} /\ handler'[g].unread = Kinds
             /\ handler'[g].start <= lastSeq'[handler'[g].user]
    <2> HIDE DEF new
    <2> QED BY <1>1, <1>2, <1>3, SeqsAreNat
  <1> QED
    BY <1>3, <1>4, GathersStays, SeqsAreNat

LEMMA AnswerKeepsPulls ==
  ASSUME NEW h \in Handlers, NEW in, NEW result, ServerTypeOK,
         handler[h].state = "push", Answer(h, in, result)
  PROVE  \A g \in Handlers : handler'[g].state = "pull" => handler'[g] = handler[g]
  <1> SUFFICES ASSUME NEW g \in Handlers, handler'[g] # handler[g]
               PROVE  handler'[g].state # "pull"
    OBVIOUS
  <1>1. g = h
    BY DEF Answer, ServerTypeOK
  <1>2. handler'[h].state = handler[h].state
    BY DEF Answer, ServerTypeOK, Handler
  <1> QED
    BY <1>1, <1>2

LEMMA PushRowGathers ==
  ASSUME NEW h \in Handlers, ServerIInv, Gathers, PushRow(h)
  PROVE  Gathers'
  <1>1. PICK in \in handler[h].todo : \/ UpsertAccepted(h, in)
                                      \/ UpsertConflict(h, in)
                                      \/ UpsertForbidden(h, in)
    BY DEF PushRow
  <1>2. handler[h].state = "push"
    BY <1>1 DEF UpsertAccepted, UpsertConflict, UpsertForbidden, IsNext
  <1>3. ServerTypeOK
    BY DEF ServerIInv
  <1>4. \A g \in Handlers : handler'[g].state = "pull" => handler'[g] = handler[g]
    <2>1. CASE UpsertAccepted(h, in)
      BY <1>2, <1>3, <2>1, AnswerKeepsPulls DEF UpsertAccepted
    <2>2. CASE UpsertConflict(h, in)
      BY <1>2, <1>3, <2>2, AnswerKeepsPulls DEF UpsertConflict
    <2>3. CASE UpsertForbidden(h, in)
      BY <1>2, <1>3, <2>3, AnswerKeepsPulls DEF UpsertForbidden
    <2> QED
      BY <1>1, <2>1, <2>2, <2>3
  <1>5. ServerTypeOK' /\ ServerTypeOK
    BY PushRowInv DEF ServerIInv
  <1>6. CASE UpsertAccepted(h, in)
    <2>1. /\ rows'[in.id].owner = handler[h].user
          /\ Stored(in.id) => rows[in.id].owner = handler[h].user
          /\ rows'[in.id].seq > lastSeq[handler[h].user]
          /\ \A j \in Ids \ {in.id} : rows'[j] = rows[j]
      BY <1>6, UpsertWrites
    <2>2. \A i \in Ids : \/ rows'[i] = rows[i]
                        \/ /\ rows'[i].seq > lastSeq[rows'[i].owner]
                           /\ Stored(i) => rows'[i].owner = rows[i].owner
      BY <2>1
    <2>3. lastSeq' = [lastSeq EXCEPT ![handler[h].user] = @ + 1]
      BY <1>6 DEF UpsertAccepted, NextSeq
    <2>4. \A u \in Users : lastSeq[u] <= lastSeq'[u]
      BY <1>5, <2>3 DEF ServerTypeOK
    <2> QED
      BY <1>4, <1>5, <2>2, <2>4, GathersStays
  <1>7. CASE UpsertConflict(h, in) \/ UpsertForbidden(h, in)
    BY <1>4, <1>5, <1>7, GathersStays, SeqsAreNat
       DEF UpsertConflict, UpsertForbidden
  <1> QED
    BY <1>1, <1>6, <1>7

LEMMA ToIdleGathers ==
  ASSUME ServerIInv, Gathers, UNCHANGED <<rows, lastSeq>>,
         NEW H \in SUBSET Handlers,
         handler' = [h \in Handlers |-> IF h \in H THEN Idle ELSE handler[h]]
  PROVE  Gathers'
  <1>1. \A g \in Handlers : handler'[g].state = "pull" => handler'[g] = handler[g]
    BY DEF Idle
  <1>2. ServerTypeOK' /\ ServerTypeOK
    BY ToIdleInv DEF ServerIInv
  <1> QED
    BY <1>1, <1>2, GathersStays, SeqsAreNat

LEMMA RespondGathers ==
  ASSUME NEW h \in Handlers, ServerIInv, Gathers, Respond(h) \/ HandlerFails(h)
  PROVE  Gathers'
  <1>1. handler' = [g \in Handlers |-> IF g \in {h} THEN Idle ELSE handler[g]]
    BY DEF Respond, HandlerFails, ServerIInv, ServerTypeOK
  <1> QED
    BY <1>1, ToIdleGathers DEF Respond, HandlerFails

LEMMA RestartGathers ==
  ASSUME ServerIInv, Gathers, Restart
  PROVE  Gathers'
  <1>1. handler' = [g \in Handlers |-> IF g \in Handlers THEN Idle ELSE handler[g]]
    BY DEF Restart
  <1> QED
    BY <1>1, ToIdleGathers DEF Restart

LEMMA GathersUnchanged ==
  ASSUME Gathers, UNCHANGED serverVars
  PROVE  Gathers'
  BY DEF Gathers, GotOfPast, GathersRow, Reached, CopyOf, serverVars

LEMMA NextGathers == ServerIInv /\ Gathers /\ [ServerNext]_serverVars => Gathers'
  <1> SUFFICES ASSUME ServerIInv, Gathers, [ServerNext]_serverVars
               PROVE  Gathers'
    OBVIOUS
  <1>1. ASSUME NEW h \in Handlers, ClientPush(h) \/ ClientPull(h)
        PROVE  Gathers'
    BY <1>1, ClientStepsArrive, PushArrivesGathers, PullArrivesGathers
  <1>2. ASSUME NEW h \in Handlers,
               PushRow(h) \/ Query(h) \/ Respond(h) \/ HandlerFails(h)
        PROVE  Gathers'
    BY <1>2, PushRowGathers, QueryGathers, RespondGathers
  <1> QED
    BY <1>1, <1>2, RestartGathers, GathersUnchanged DEF ServerNext

LEMMA InitGathers == ServerInit => Gathers
  BY DEF ServerInit, Gathers, Idle


LEMMA PagesGather == ServerSpec => [](ServerIInv /\ Gathers)
  BY InitGathers, NextGathers, ServerInvariant, PTL DEF ServerSpec

\* What the cursor of a page is: the client's when the page is empty, else the
\* sequence of its last row.
LEMMA PageCursorIsLast ==
  ASSUME NEW h \in Handlers, ServerIInv, Gathers, handler[h].state = "pull"
  PROVE  /\ PageRows(h) \subseteq handler[h].got
         /\ PageRows(h) = {} => PageCursor(h) = handler[h].since
         /\ \A c \in PageRows(h) : c.seq <= PageCursor(h)
         /\ PageRows(h) # {} =>
              \E c \in PageRows(h) : c.seq = PageCursor(h)
         /\ PageCursor(h) \in Nat
  <1>1. handler[h] \in Handler /\ handler[h].user \in Users
    BY DEF ServerIInv, ServerTypeOK, HandlersHaveUsers
  <1>2. PageRows(h) \subseteq handler[h].got
    BY LowestIsSubset DEF PageRows
  <1>3. CASE PageRows(h) = {}
    BY <1>1, <1>3 DEF PageCursor, Handler
  <1>4. CASE PageRows(h) # {}
    <2> DEFINE S == {c.seq : c \in PageRows(h)}
               b == lastSeq[handler[h].user]
    <2>1. b \in Nat
      BY <1>1 DEF ServerIInv, ServerTypeOK
    <2>2. \A c \in PageRows(h) : c.seq \in Nat /\ c.seq <= b
      BY <1>1, <1>2 DEF Gathers, GotOfPast, Handler, Copy
    <2>3. S \in SUBSET Nat /\ S # {} /\ \A s \in S : s <= b
      BY <1>4, <2>2
    <2>4. PICK m \in S : \A s \in S : s <= m
      <3> HIDE DEF S, b
      <3> QED BY <2>1, <2>3, MaxExists
    <2>5. \A c \in PageRows(h) : c.seq <= m
      BY <2>4
    <2>6. PageCursor(h) \in S /\ \A c \in PageRows(h) : c.seq <= PageCursor(h)
      BY <1>4, <2>5 DEF PageCursor
    <2> QED
      BY <1>2, <1>4, <2>3, <2>6
  <1> QED
    BY <1>2, <1>3, <1>4

\* A row the pull reached, at or below the cursor, is in the page: what is
\* left out for want of room comes after everything the page holds.
LEMMA ReachedIsInPage ==
  ASSUME NEW h \in Handlers, NEW i \in Ids, ServerIInv, Gathers,
         PullAnswered(h), rows[i].owner = handler[h].user,
         handler[h].since < rows[i].seq, rows[i].seq <= PageCursor(h),
         Reached(h, i)
  PROVE  CopyOf(i) \in PageRows(h)
  <1> DEFINE hd == handler[h]
             q  == rows[i].seq
  <1>1. /\ hd \in Handler /\ hd.limit \in Nat /\ hd.since \in Nat /\ q \in Nat
        /\ hd.state = "pull"
    BY DEF ServerIInv, ServerTypeOK, PullAnswered, Handler, Row
  <1>2. /\ PageRows(h) \subseteq hd.got
        /\ PageRows(h) = {} => PageCursor(h) = hd.since
        /\ PageRows(h) # {} => \E c \in PageRows(h) : c.seq = PageCursor(h)
    BY <1>1, PageCursorIsLast
  <1>3. PICK m \in PageRows(h) : m.seq = PageCursor(h)
    BY <1>1, <1>2
  <1>4. m \in hd.got /\ m.seq \in Nat /\ q <= m.seq
    BY <1>1, <1>2, <1>3 DEF Handler, Copy
  <1>5. IsFiniteSet(hd.got) /\ GathersRow(h, i)
    BY <1>1 DEF Gathers, GotOfPast
  <1>6. /\ Cardinality(Behind(hd.got, q)) \in Nat
        /\ Cardinality(Behind(hd.got, q)) < hd.limit
    <2>1. \A c \in hd.got : c.seq \in Nat
      BY <1>1 DEF Handler, Copy
    <2>2. Behind(hd.got, q) \subseteq Behind(hd.got, m.seq)
      BY <1>1, <1>4, <2>1 DEF Behind
    <2>3. Behind(hd.got, m.seq) \subseteq hd.got
      BY DEF Behind
    <2>4. IsFiniteSet(Behind(hd.got, m.seq))
      BY <1>5, <2>3, FS_Subset
    <2>5. /\ IsFiniteSet(Behind(hd.got, q))
          /\ Cardinality(Behind(hd.got, q)) <= Cardinality(Behind(hd.got, m.seq))
      BY <2>2, <2>4, FS_Subset
    <2>6. Cardinality(Behind(hd.got, m.seq)) < hd.limit
      BY <1>3 DEF PageRows, Lowest, Behind
    <2> QED
      BY <1>1, <2>4, <2>5, <2>6, FS_CardinalityType
  <1>7. CopyOf(i) \in hd.got
    BY <1>1, <1>5, <1>6 DEF GathersRow, PullAnswered
  <1>8. CopyOf(i).seq = q
    BY DEF CopyOf
  <1> QED
    BY <1>6, <1>7, <1>8 DEF PageRows, Lowest, Behind

\* With no more to come, the page is everything the pull got.
LEMMA LastPageIsAll ==
  ASSUME NEW h \in Handlers, ServerIInv, Gathers, PullAnswered(h), ~HasMore(h)
  PROVE  PageRows(h) = handler[h].got
  <1> DEFINE got == handler[h].got
  <1>1. handler[h] \in Handler /\ handler[h].limit \in Nat /\ IsFiniteSet(got)
    BY DEF ServerIInv, ServerTypeOK, Gathers, GotOfPast, PullAnswered, Handler
  <1>2. Cardinality(got) \in Nat /\ Cardinality(got) <= handler[h].limit
    BY <1>1, FS_CardinalityType DEF HasMore
  <1>3. ASSUME NEW c \in got
        PROVE  c \in PageRows(h)
    <2> DEFINE B == {b \in got : b.seq < c.seq}
    <2>1. c.seq \in Nat
      BY <1>1 DEF Handler, Copy
    <2>2. c \notin B
      BY <2>1
    <2>3. B \subseteq got /\ B # got
      BY <2>2
    <2>4. /\ IsFiniteSet(B) /\ Cardinality(B) <= Cardinality(got)
          /\ Cardinality(B) # Cardinality(got)
      <3> HIDE DEF B, got
      <3> QED BY <1>1, <2>3, FS_Subset
    <2>5. Cardinality(B) \in Nat
      BY <2>4, FS_CardinalityType
    <2> QED
      BY <1>1, <1>2, <2>4, <2>5 DEF PageRows, Lowest
  <1> QED
    BY <1>3, LowestIsSubset DEF PageRows

LEMMA GatheredPagesAreComplete ==
  ASSUME ServerIInv, Gathers
  PROVE  PageMissesOnlyConcurrentWrites
  <1>1. \A i \in Ids : CopyOf(i).id = i /\ CopyOf(i).seq = rows[i].seq
    BY DEF CopyOf
  <1> QED
    BY <1>1, ReachedIsInPage DEF PageMissesOnlyConcurrentWrites, Reached

LEMMA GatheredLastPageIsLast ==
  ASSUME ServerIInv, Gathers
  PROVE  LastPageIsLast
  <1> SUFFICES ASSUME NEW h \in Handlers, NEW i \in Ids,
                      PullAnswered(h), ~HasMore(h),
                      rows[i].owner = handler[h].user,
                      handler[h].since < rows[i].seq,
                      rows[i].seq <= handler[h].start
               PROVE  rows[i].seq <= PageCursor(h)
    BY DEF LastPageIsLast
  <1> DEFINE hd == handler[h]
             q  == rows[i].seq
  <1>1. hd \in Handler /\ hd.limit \in Nat /\ hd.state = "pull"
    BY DEF ServerIInv, ServerTypeOK, PullAnswered, Handler
  <1>2. IsFiniteSet(hd.got) /\ GathersRow(h, i)
    BY <1>1 DEF Gathers, GotOfPast
  <1>3. /\ Cardinality(Behind(hd.got, q)) \in Nat /\ Cardinality(hd.got) \in Nat
        /\ Cardinality(Behind(hd.got, q)) <= Cardinality(hd.got)
    <2>1. Behind(hd.got, q) \subseteq hd.got
      BY DEF Behind
    <2> QED
      BY <1>2, <2>1, FS_Subset, FS_CardinalityType
  <1>4. ~(Cardinality(Behind(hd.got, q)) > hd.limit)
    BY <1>1, <1>3 DEF HasMore
  <1>5. CopyOf(i) \in hd.got
    BY <1>2, <1>4 DEF GathersRow, Reached, PullAnswered
  <1>6. CopyOf(i) \in PageRows(h) /\ CopyOf(i).seq = q
    BY <1>5, LastPageIsAll DEF CopyOf
  <1> QED
    BY <1>1, <1>6, PageCursorIsLast

\* Whatever other clients write between the four queries, a page holds every
\* row at or below its cursor that was written before the pull arrived and has
\* not been written since: for any page size and any number of concurrent
\* pushes (sync.go, pull and page).
THEOREM PagesMissOnlyConcurrentWrites ==
  ServerSpec => []PageMissesOnlyConcurrentWrites
  BY PagesGather, GatheredPagesAreComplete, PTL

\* A page that says it is the last one is: no row that was above the client's
\* cursor when the pull arrived, and unchanged since, lies beyond the page's
\* own cursor (sync.go, hasMore).
THEOREM HasMoreIsTrue == ServerSpec => []LastPageIsLast
  BY PagesGather, GatheredLastPageIsLast, PTL

=============================================================================
