------------------------- MODULE NefixSync_conflicts -------------------------
(***************************************************************************)
(* Proof that a conflict is somebody else's write, for any devices, rows,  *)
(* accounts, handlers, batch and page sizes and any number of edits, as    *)
(* long as no request, answer or tab was lost: with one tab on a device    *)
(* and distinct stamps, applyConflict of push.ts never forks, or throws    *)
(* away, a device's own work.                                              *)
(*                                                                         *)
(* The argument is about who holds which edit.  An edit that the server    *)
(* does not have is on one device only (EditsPrivate), and a device that   *)
(* has something to push has such an edit (PushesAddSomething).  So every  *)
(* accepted write brings an edit no other device has: whoever holds a row  *)
(* at an older version lacks something of the stored one, unless it is the *)
(* writer itself and has still to hear of it (OldRowsLack), and in that    *)
(* case the row is not sent again before its answer is applied.            *)
(***************************************************************************)
EXTENDS NefixSync_proofs

-----------------------------------------------------------------------------
(* The inductive invariant, on top of IInv.                                *)

\* Edits are numbered in the order they are made.
EditsPast ==
  /\ \A i \in Ids : rows[i].body \subseteq 1..edits
  /\ \A d \in Devices, i \in Ids : local[d][i].body \subseteq 1..edits

\* The stamp of a row to push is the number of an edit it carries.
StampsIn ==
  \A d \in Devices, i \in Ids :
    local[d][i].here /\ local[d][i].dirty => local[d][i].stamp \in local[d][i].body

\* A row that got another stamp since its snapshot got an edit with it.
StampsTell ==
  \A t \in Tabs : \A s \in Pending(t) :
    LET row == local[Dev(t)][s.id]
    IN  row.stamp \in s.body => row.stamp = s.stamp

\* What is to be pushed over the stored version adds something to it.
Adds(i, ver, body) == ver = rows[i].ver => ~(body \subseteq rows[i].body)

PushesAddSomething ==
  /\ \A d \in Devices, i \in Ids :
       local[d][i].here /\ local[d][i].dirty
         => Adds(i, local[d][i].ver, local[d][i].body)
  /\ \A t \in Tabs : \A s \in Pending(t) : Adds(s.id, s.ver, s.body)

\* What two devices both have, the server has.
EditsPrivate ==
  \A c, d \in Devices, i \in Ids :
    c # d /\ local[c][i].here /\ local[d][i].here
      => local[c][i].body \cap local[d][i].body \subseteq rows[i].body

\* A copy the server made is of what is stored, or of less.
Past(c) ==
  /\ c.body \subseteq rows[c.id].body
  /\ c.ver = rows[c.id].ver \/ ~(rows[c.id].body \subseteq c.body)

CopiesPast ==
  /\ \A h \in Handlers : \A c \in handler[h].got : Past(c)
  /\ \A t \in Tabs : \A r \in Heard(t) : r.status = "conflict" => Past(r)

\* Device d is about to hear that the stored version of row i is its own.
HearsOwn(d, i) ==
  \E t \in Tabs : \E r \in Heard(t) :
    Dev(t) = d /\ r.id = i /\ r.status = "accepted" /\ r.ver = rows[i].ver

OldRowsLack ==
  \A d \in Devices, i \in Ids :
    local[d][i].here /\ local[d][i].ver < rows[i].ver /\ ~HearsOwn(d, i)
      => ~(rows[i].body \subseteq local[d][i].body)

HeardForeign ==
  \A t \in Tabs : \A r \in Heard(t) :
    r.status = "conflict" => ~(r.body \subseteq local[Dev(t)][r.id].body)

\* Every request has a tab that waits for it, and every row of a push is in
\* the batch that tab sent.
Sends(t, h) ==
  /\ tab[t].pc = "sent" /\ tab[t].request = h
  /\ \A in \in handler[h].todo :
       \E s \in tab[t].batch : s.id = in.id /\ s.ver = in.ver /\ s.body = in.body

Accompanied ==
  \A h \in Handlers :
    /\ handler[h].state = "push" => \E t \in Tabs : Sends(t, h)
    /\ handler[h].state = "pull"
         => \E t \in Tabs : tab[t].pc = "wait" /\ tab[t].request = h

\* Answers are applied before anything else is asked for.
Resting ==
  \A t \in Tabs : tab[t].pc # "push" => tab[t].results = {}

ForeignInv ==
  /\ EditsPast /\ StampsIn /\ StampsTell
  /\ PushesAddSomething /\ EditsPrivate
  /\ CopiesPast /\ OldRowsLack /\ HeardForeign
  /\ Accompanied /\ Resting

-----------------------------------------------------------------------------
(* What the steps of a cycle do to the tab and to the handlers.            *)

OthersServe(h) == \A g \in Handlers \ {h} : handler'[g] = handler[g]

Started(t) ==
  /\ tab[t].pc = "idle"
  /\ tab'[t].pc = "push"
  /\ tab'[t].queue = DirtyRows(Dev(t))
  /\ tab'[t].batch = {} /\ tab'[t].results = {}
  /\ UNCHANGED <<rows, handler, local>>

Sent(t, h) ==
  /\ h \in Handlers
  /\ tab[t].pc = "push" /\ tab[t].results = {}
  /\ tab'[t].pc = "sent" /\ tab'[t].request = h
  /\ tab'[t].queue \subseteq tab[t].queue
  /\ tab'[t].batch \subseteq tab[t].queue
  /\ tab'[t].results = {}
  /\ handler[h].state = "free"
  /\ handler'[h].state = "push" /\ handler'[h].results = {}
  /\ handler'[h].got = {}
  /\ \A in \in handler'[h].todo :
       \E s \in tab'[t].batch : s.id = in.id /\ s.ver = in.ver /\ s.body = in.body
  /\ OthersServe(h)

Received(t) ==
  /\ tab[t].request \in Handlers
  /\ tab[t].pc = "sent"
  /\ tab'[t].pc = "push"
  /\ tab'[t].results = handler[tab[t].request].results
  /\ tab'[t].queue = tab[t].queue /\ tab'[t].batch = tab[t].batch
  /\ handler'[tab[t].request] = Idle
  /\ OthersServe(tab[t].request)

Applied(t, r) ==
  /\ tab[t].pc = "push"
  /\ r \in tab[t].results
  /\ tab'[t].pc = "push"
  /\ tab'[t].results = tab[t].results \ {r}
  /\ tab'[t].queue = tab[t].queue /\ tab'[t].batch = tab[t].batch
  /\ UNCHANGED handler

Asked(t, h) ==
  /\ h \in Handlers
  /\ tab[t].pc \in {"push", "pull"}
  /\ tab[t].pc = "push" => tab[t].results = {}
  /\ tab'[t].pc = "wait" /\ tab'[t].request = h
  /\ tab'[t].queue = {} /\ tab'[t].batch = {} /\ tab'[t].results = {}
  /\ handler[h].state = "free"
  /\ handler'[h].state = "pull" /\ handler'[h].got = {}
  /\ OthersServe(h)

Paged(t) ==
  /\ tab[t].request \in Handlers
  /\ tab[t].pc = "wait"
  /\ tab'[t].pc \in {"idle", "pull"}
  /\ tab'[t].queue = {} /\ tab'[t].batch = {} /\ tab'[t].results = {}
  /\ handler'[tab[t].request] = Idle
  /\ OthersServe(tab[t].request)

Applies(t, r, sent) ==
  \/ ApplyAccepted(t, r, sent)
  \/ ApplyNoteConflict(t, r, sent)
  \/ ApplyContainerConflict(t, r, sent)
  \/ ApplyForbidden(t, r, sent)

LEMMA StartedBy ==
  ASSUME Typed, NEW t \in Tabs, StartCycle(t)
  PROVE  Started(t)
  <1> DEFINE new == [NoCycle EXCEPT !.pc = "push", !.queue = DirtyRows(Dev(t))]
  <1>1. /\ new.pc = "push" /\ new.queue = DirtyRows(Dev(t))
        /\ new.batch = {} /\ new.results = {}
    BY DEF NoCycle
  <1>2. /\ tab[t].pc = "idle" /\ tab' = [tab EXCEPT ![t] = new]
        /\ UNCHANGED <<rows, handler, local>>
    BY DEF StartCycle, serverVars
  <1> HIDE DEF new
  <1>3. tab'[t] = new
    BY <1>2 DEF Typed, TypeOK
  <1> QED
    BY <1>1, <1>2, <1>3 DEF Started

LEMMA SentBy ==
  ASSUME Typed, NEW t \in Tabs, NEW h \in Handlers, SendBatch(t, h)
  PROVE  Sent(t, h)
  <1> DEFINE batch == NextBatch(tab[t].queue)
             ins   == {[id |-> s.id, ver |-> s.ver, body |-> s.body] : s \in batch}
             new   == [tab[t] EXCEPT !.pc = "sent", !.queue = @ \ batch,
                                     !.batch = batch, !.request = h]
             hd    == [Idle EXCEPT !.state = "push", !.user = account[Dev(t)],
                                   !.todo = ins]
  <1>1. /\ tab[t].pc = "push" /\ tab[t].results = {}
        /\ tab' = [tab EXCEPT ![t] = new]
        /\ handler[h].state = "free"
        /\ handler' = [handler EXCEPT ![h] = hd]
    BY DEF SendBatch, PushArrives, Typed, TypeOK
  <1>2. batch \subseteq tab[t].queue
    BY DEF NextBatch
  <1>3. /\ new.pc = "sent" /\ new.request = h /\ new.results = tab[t].results
        /\ new.queue \subseteq tab[t].queue /\ new.batch = batch
    BY DEF Typed, TypeOK, Tab
  <1>4. hd.state = "push" /\ hd.results = {} /\ hd.got = {} /\ hd.todo = ins
    BY DEF Idle
  <1>5. \A in \in ins : \E s \in batch : s.id = in.id /\ s.ver = in.ver /\ s.body = in.body
    OBVIOUS
  <1> HIDE DEF batch, ins, new, hd
  <1>6. tab'[t] = new /\ handler'[h] = hd
    BY <1>1 DEF Typed, TypeOK, ServerTypeOK
  <1>7. OthersServe(h)
    BY <1>1 DEF OthersServe, Typed, TypeOK, ServerTypeOK
  <1> QED
    BY <1>1, <1>2, <1>3, <1>4, <1>5, <1>6, <1>7 DEF Sent

LEMMA RespondEnds ==
  ASSUME Typed, NEW h \in Handlers, Respond(h)
  PROVE  handler'[h] = Idle /\ OthersServe(h)
  BY DEF Respond, OthersServe, Typed, TypeOK, ServerTypeOK

LEMMA ReceivedBy ==
  ASSUME Typed, NEW t \in Tabs, ReceiveResults(t)
  PROVE  Received(t)
  <1> DEFINE h   == tab[t].request
             new == [tab[t] EXCEPT !.pc = "push", !.results = handler[h].results,
                                   !.request = NoHandler]
  <1>1. /\ tab[t].pc = "sent" /\ Respond(h)
        /\ tab' = [tab EXCEPT ![t] = new]
    BY DEF ReceiveResults, Typed, TypeOK
  <1>2. h \in Handlers
    BY <1>1 DEF Typed, RequestsKnown, Waits
  <1>3. /\ new.pc = "push" /\ new.results = handler[h].results
        /\ new.queue = tab[t].queue /\ new.batch = tab[t].batch
    BY DEF Typed, TypeOK, Tab
  <1> HIDE DEF new
  <1>4. tab'[t] = new
    BY <1>1 DEF Typed, TypeOK
  <1> QED
    BY <1>1, <1>2, <1>3, <1>4, RespondEnds DEF Received

LEMMA AppliedBy ==
  ASSUME Typed, NEW t \in Tabs, NEW r, ResultApplied(t, r), UNCHANGED serverVars,
         tab[t].pc = "push", r \in tab[t].results
  PROVE  Applied(t, r)
  <1> DEFINE new == [tab[t] EXCEPT !.results = @ \ {r}]
  <1>1. tab' = [tab EXCEPT ![t] = new]
    BY DEF ResultApplied, Typed, TypeOK
  <1>2. /\ new.pc = tab[t].pc /\ new.results = tab[t].results \ {r}
        /\ new.queue = tab[t].queue /\ new.batch = tab[t].batch
    BY DEF Typed, TypeOK, Tab
  <1> HIDE DEF new
  <1>3. tab'[t] = new
    BY <1>1 DEF Typed, TypeOK
  <1> QED
    BY <1>2, <1>3 DEF Applied, serverVars

LEMMA AskedBy ==
  ASSUME Typed, NEW t \in Tabs, NEW h \in Handlers,
         AskFirstPage(t, h) \/ AskNextPage(t, h)
  PROVE  Asked(t, h)
  <1>1. PICK since : AskPage(t, h, since)
    BY DEF AskFirstPage, AskNextPage
  <1> DEFINE new == [NoCycle EXCEPT !.pc = "wait", !.pages = tab[t].pages,
                                    !.request = h]
             hd  == [Idle EXCEPT !.state = "pull", !.user = account[Dev(t)],
                       !.since = since, !.limit = PageSize, !.unread = Kinds,
                       !.start = lastSeq[account[Dev(t)]]]
  <1>2. /\ tab[t].pc \in {"push", "pull"}
        /\ tab[t].pc = "push" => tab[t].results = {}
    BY DEF AskFirstPage, AskNextPage
  <1>3. /\ tab' = [tab EXCEPT ![t] = new]
        /\ handler[h].state = "free"
        /\ handler' = [handler EXCEPT ![h] = hd]
    BY <1>1 DEF AskPage, PullArrives
  <1>4. /\ new.pc = "wait" /\ new.request = h
        /\ new.queue = {} /\ new.batch = {} /\ new.results = {}
    BY DEF NoCycle
  <1>5. hd.state = "pull" /\ hd.got = {}
    BY DEF Idle
  <1> HIDE DEF new, hd
  <1>6. tab'[t] = new /\ handler'[h] = hd
    BY <1>3 DEF Typed, TypeOK, ServerTypeOK
  <1>7. OthersServe(h)
    BY <1>3 DEF OthersServe, Typed, TypeOK, ServerTypeOK
  <1> QED
    BY <1>2, <1>3, <1>4, <1>5, <1>6, <1>7 DEF Asked

LEMMA PagedBy ==
  ASSUME Typed, NEW t \in Tabs, ApplyPage(t)
  PROVE  Paged(t)
  <1> DEFINE h    == tab[t].request
             more == [NoCycle EXCEPT !.pc = "pull", !.since = PageCursor(h),
                                     !.pages = tab[t].pages + 1]
             new  == IF HasMore(h) /\ tab[t].pages + 1 < MaxPages THEN more ELSE NoCycle
  <1>1. /\ tab[t].pc = "wait" /\ Respond(h)
        /\ tab' = [tab EXCEPT ![t] = new]
    BY DEF ApplyPage
  <1>2. h \in Handlers
    BY <1>1 DEF Typed, RequestsKnown, Waits
  <1>3. /\ new.pc \in {"idle", "pull"}
        /\ new.queue = {} /\ new.batch = {} /\ new.results = {}
    BY DEF NoCycle
  <1> HIDE DEF new
  <1>4. tab'[t] = new
    BY <1>1 DEF Typed, TypeOK
  <1> QED
    BY <1>1, <1>2, <1>3, <1>4, RespondEnds DEF Paged

LEMMA CycleMoves ==
  ASSUME Typed, NEW t \in Tabs, CycleStep(t)
  PROVE  \/ Started(t)
         \/ Received(t)
         \/ (Paged(t) /\ ApplyPage(t))
         \/ \E h \in Handlers : Sent(t, h) \/ Asked(t, h)
         \/ \E r \in tab[t].results, sent \in tab[t].batch :
              Applied(t, r) /\ Applies(t, r, sent)
  <1>1. ASSUME NEW r \in tab[t].results, NEW sent \in tab[t].batch, Applies(t, r, sent)
        PROVE  Applied(t, r)
    BY <1>1, AppliedBy DEF Applies, ApplyAccepted, ApplyNoteConflict,
       ApplyContainerConflict, ApplyForbidden, IsNextResult
  <1>2. ASSUME ApplyResult(t)
        PROVE  \E r \in tab[t].results, sent \in tab[t].batch :
                 Applied(t, r) /\ Applies(t, r, sent)
    <2>1. \E r \in tab[t].results, sent \in tab[t].batch : Applies(t, r, sent)
      BY <1>2, Zenon DEF ApplyResult, Applies
    <2> QED
      BY <1>1, <2>1
  <1> QED
    BY <1>2, StartedBy, ReceivedBy, PagedBy, SentBy, AskedBy DEF CycleStep

-----------------------------------------------------------------------------
(* Without a fault nothing is on its way that nobody waits for.            *)

LEMMA FaultlessSteps ==
  ASSUME Typed, Accompanied, [Next]_vars, UNCHANGED faults
  PROVE  \/ \E h \in Handlers : (PushRow(h) \/ Query(h)) /\ UNCHANGED clientVars
         \/ \E t \in Tabs : CycleStep(t)
         \/ UNCHANGED <<serverVars, tab>>
  <1>1. ~Fault
    BY DEF Fault, Typed, TypeOK
  <1>2. ASSUME NEW h \in Handlers, Cancel(h)
        PROVE  FALSE
    <2>1. handler[h].state \in {"push", "pull"}
      BY <1>2 DEF Cancel, HandlerFails, Typed, TypeOK, ServerTypeOK, Handler
    <2>2. \E t \in Tabs : tab[t].request = h
      BY <2>1 DEF Accompanied, Sends
    <2> QED
      BY <1>2, <2>2 DEF Cancel, Unheard
  <1>3. ASSUME NEW d \in Devices, NEW i \in Ids, Create(d, i) \/ Edit(d, i)
        PROVE  UNCHANGED <<serverVars, tab>>
    BY <1>3, Zenon DEF Create, Edit
  <1>4. ASSUME NEW d \in Devices, NEW u \in Users, SignInAs(d, u)
        PROVE  UNCHANGED <<serverVars, tab>>
    BY <1>4 DEF SignInAs
  <1>5. UNCHANGED vars => UNCHANGED <<serverVars, tab>>
    BY DEF vars, clientVars
  <1>6. ASSUME NEW h \in Handlers, ServerStep(h) \/ ServerError(h)
        PROVE  (PushRow(h) \/ Query(h)) /\ UNCHANGED clientVars
    BY <1>1, <1>2, <1>6 DEF ServerStep, ServerError
  <1>7. ~ServerRestart /\ \A t \in Tabs : ~GiveUp(t)
    BY <1>1 DEF ServerRestart, GiveUp
  <1>8. CASE Next
    BY <1>3, <1>4, <1>6, <1>7, <1>8, Zenon DEF Next
  <1>9. CASE UNCHANGED vars
    BY <1>5, <1>9
  <1> QED
    BY <1>8, <1>9

LEMMA TabSteps ==
  ASSUME Typed, Accompanied, [Next]_vars, UNCHANGED faults, NEW t \in Tabs
  PROVE  tab'[t] = tab[t] \/ CycleStep(t)
  BY FaultlessSteps, OtherTabsStay DEF clientVars

\* A handler that goes on keeps its answers and takes on no more rows.
LEMMA TurnKeeps ==
  ASSUME Typed, NEW g \in Handlers, PushRow(g) \/ Query(g), NEW h \in Handlers
  PROVE  /\ handler'[h].state = handler[h].state
         /\ handler'[h].todo \subseteq handler[h].todo
         /\ handler[h].results \subseteq handler'[h].results
  <1>0. handler \in [Handlers -> Handler]
    BY DEF Typed, TypeOK, ServerTypeOK
  <1>1. CASE PushRow(g)
    <2>1. PICK in, result : Answer(g, in, result)
      BY <1>1 DEF PushRow, UpsertAccepted, UpsertConflict, UpsertForbidden
    <2> QED
      BY <1>0, <2>1 DEF Answer, Handler
  <1>2. CASE Query(g)
    <2>1. PICK k \in Kinds : ReadTable(g, k)
      BY <1>2 DEF Query
    <2> DEFINE L   == Lowest(Since(handler[g].user, k, handler[g].since),
                             handler[g].limit + 1)
               new == [handler[g] EXCEPT !.unread = @ \ {k}, !.got = @ \cup L]
    <2>2. handler' = [handler EXCEPT ![g] = new]
      BY <1>0, <2>1 DEF ReadTable
    <2>3. /\ new.state = handler[g].state /\ new.todo = handler[g].todo
          /\ new.results = handler[g].results
      BY <1>0 DEF Handler
    <2> HIDE DEF new
    <2> QED
      BY <1>0, <2>2, <2>3
  <1> QED
    BY <1>1, <1>2

LEMMA RestingStays ==
  ASSUME Typed, Accompanied, Resting, [Next]_vars, UNCHANGED faults
  PROVE  Resting'
  <1> SUFFICES ASSUME NEW t \in Tabs, tab'[t].pc # "push"
               PROVE  tab'[t].results = {}
    BY DEF Resting
  <1>1. CASE tab'[t] = tab[t]
    BY <1>1 DEF Resting
  <1>2. CASE CycleStep(t)
    BY <1>2, CycleMoves DEF Started, Received, Paged, Sent, Asked, Applied
  <1> QED
    BY <1>1, <1>2, TabSteps

\* What the steps of a cycle leave of the other requests.
LEMMA OwnersStay ==
  ASSUME Typed, Accompanied, NEW t \in Tabs, CycleStep(t),
         NEW h \in Handlers, handler'[h] = handler[h],
         tab[t].pc \in {"sent", "wait"} => tab[t].request # h
  PROVE  /\ handler'[h].state = "push" => \E s \in Tabs : Sends(s, h)'
         /\ handler'[h].state = "pull"
              => \E s \in Tabs : tab'[s].pc = "wait" /\ tab'[s].request = h
  <1>1. \A s \in Tabs : s # t => tab'[s] = tab[s]
    BY OtherTabsStay
  <1>2. ASSUME NEW s \in Tabs, Sends(s, h)
        PROVE  Sends(s, h)'
    <2>1. s # t
      BY <1>2 DEF Sends
    <2>2. tab'[s] = tab[s]
      BY <1>1, <2>1
    <2> QED
      BY <1>2, <2>2 DEF Sends
  <1>3. ASSUME NEW s \in Tabs, tab[s].pc = "wait", tab[s].request = h
        PROVE  tab'[s].pc = "wait" /\ tab'[s].request = h
    BY <1>1, <1>3
  <1> QED
    BY <1>2, <1>3 DEF Accompanied

LEMMA AccompaniedStays ==
  ASSUME Typed, Accompanied, [Next]_vars, UNCHANGED faults
  PROVE  Accompanied'
  <1> SUFFICES ASSUME NEW h \in Handlers
               PROVE  /\ handler'[h].state = "push" => \E t \in Tabs : Sends(t, h)'
                      /\ handler'[h].state = "pull"
                           => \E t \in Tabs : tab'[t].pc = "wait" /\ tab'[t].request = h
    BY DEF Accompanied
  <1>1. CASE UNCHANGED <<serverVars, tab>>
    BY <1>1 DEF serverVars, Accompanied, Sends
  <1>2. ASSUME NEW g \in Handlers, PushRow(g) \/ Query(g), UNCHANGED clientVars
        PROVE  /\ handler'[h].state = "push" => \E t \in Tabs : Sends(t, h)'
               /\ handler'[h].state = "pull"
                    => \E t \in Tabs : tab'[t].pc = "wait" /\ tab'[t].request = h
    <2>1. /\ handler'[h].state = handler[h].state
          /\ handler'[h].todo \subseteq handler[h].todo
          /\ tab' = tab
      BY <1>2, TurnKeeps DEF clientVars
    <2> QED
      BY <2>1 DEF Accompanied, Sends
  <1>3. ASSUME NEW t \in Tabs, CycleStep(t)
        PROVE  /\ handler'[h].state = "push" => \E s \in Tabs : Sends(s, h)'
               /\ handler'[h].state = "pull"
                    => \E s \in Tabs : tab'[s].pc = "wait" /\ tab'[s].request = h
    <2>1. ASSUME Started(t) \/ \E r : Applied(t, r)
          PROVE  handler'[h] = handler[h] /\ tab[t].pc \notin {"sent", "wait"}
      BY <2>1 DEF Started, Applied
    <2>2. ASSUME Received(t) \/ Paged(t)
          PROVE  \/ handler'[h].state = "free"
                 \/ handler'[h] = handler[h] /\ tab[t].request # h
      BY <2>2 DEF Received, Paged, OthersServe, Idle
    <2>3. ASSUME NEW g \in Handlers, Sent(t, g)
          PROVE  \/ Sends(t, h)' /\ handler'[h].state = "push"
                 \/ handler'[h] = handler[h] /\ tab[t].pc \notin {"sent", "wait"}
      BY <2>3 DEF Sent, Sends, OthersServe
    <2>4. ASSUME NEW g \in Handlers, Asked(t, g)
          PROVE  \/ /\ tab'[t].pc = "wait" /\ tab'[t].request = h
                    /\ handler'[h].state = "pull"
                 \/ handler'[h] = handler[h] /\ tab[t].pc \notin {"sent", "wait"}
      BY <2>4 DEF Asked, OthersServe
    <2>5. \/ handler'[h].state = "free"
          \/ Sends(t, h)' /\ handler'[h].state = "push"
          \/ /\ tab'[t].pc = "wait" /\ tab'[t].request = h
             /\ handler'[h].state = "pull"
          \/ /\ handler'[h] = handler[h]
             /\ tab[t].pc \in {"sent", "wait"} => tab[t].request # h
      BY <1>3, <2>1, <2>2, <2>3, <2>4, CycleMoves
    <2> QED
      BY <1>3, <2>5, OwnersStay
  <1> QED
    BY <1>1, <1>2, <1>3, FaultlessSteps


LEMMA ResultsStay ==
  ASSUME Typed, IInv, IInv', [Next]_vars, NEW t \in Tabs,
         tab[t].pc = "sent", tab'[t] = tab[t]
  PROVE  handler[tab[t].request].results \subseteq handler'[tab[t].request].results
  <1> DEFINE h == tab[t].request
  <1>0. handler \in [Handlers -> Handler]
    BY DEF Typed, TypeOK, ServerTypeOK
  <1>1. /\ h \in Handlers
        /\ handler[h].state = "push" /\ handler'[h].state = "push"
    BY DEF IInv, RequestsServed, TabServed, Serves
  <1> HIDE DEF h
  <1>2. CASE UNCHANGED serverVars
    BY <1>2 DEF serverVars, h
  <1>3. CASE Restart
    BY <1>1, <1>3 DEF Restart, Idle
  <1>4. ASSUME NEW g \in Handlers, \/ PushRow(g) \/ Query(g)
                                   \/ Respond(g) \/ HandlerFails(g)
                                   \/ Arrives(g)
        PROVE  handler[h].results \subseteq handler'[h].results
    <2>1. CASE PushRow(g) \/ Query(g)
      BY <1>1, <2>1, TurnKeeps
    <2>2. CASE Respond(g) \/ HandlerFails(g)
      <3>1. handler' = [handler EXCEPT ![g] = Idle]
        BY <2>2 DEF Respond, HandlerFails
      <3>2. g # h
        BY <1>0, <1>1, <3>1 DEF Idle
      <3> QED
        BY <1>0, <1>1, <3>1, <3>2
    <2>3. CASE Arrives(g)
      BY <1>1, <2>3 DEF Arrives
    <2> QED
      BY <1>4, <2>1, <2>2, <2>3
  <1> QED
    BY <1>2, <1>3, <1>4, ServerMoves DEF h

\* An answer goes unheard only by being applied.
LEMMA HeardStays ==
  ASSUME Typed, IInv, IInv', Accompanied, Resting, [Next]_vars, UNCHANGED faults,
         NEW t \in Tabs, NEW r \in Heard(t), r \notin Heard(t)'
  PROVE  /\ r \in tab[t].results
         /\ \E sent \in tab[t].batch : Applies(t, r, sent)
  <1>1. ASSUME tab'[t] = tab[t]
        PROVE  FALSE
    <2>1. tab[t].pc = "sent" =>
            handler[tab[t].request].results \subseteq handler'[tab[t].request].results
      BY <1>1, ResultsStay
    <2> QED
      BY <1>1, <2>1 DEF Heard
  <1>2. CASE CycleStep(t)
    <2>1. ~Started(t)
      BY DEF Started, Heard, Resting
    <2>2. ~Received(t)
      BY DEF Received, Heard, Resting
    <2>3. ~Paged(t)
      BY DEF Paged, Heard, Resting
    <2>4. \A h \in Handlers : ~Sent(t, h) /\ ~Asked(t, h)
      BY DEF Sent, Asked, Heard, Resting
    <2>5. PICK q \in tab[t].results, sent \in tab[t].batch :
            Applied(t, q) /\ Applies(t, q, sent)
      BY <1>2, <2>1, <2>2, <2>3, <2>4, CycleMoves
    <2>6. q = r
      BY <2>5 DEF Applied, Heard
    <2> QED
      BY <2>5, <2>6
  <1> QED
    BY <1>1, <1>2, TabSteps

\* A snapshot to push was there before, or was just taken.
LEMMA PendingSteps ==
  ASSUME Typed, IInv, IInv', Accompanied, [Next]_vars, UNCHANGED faults,
         NEW t \in Tabs, NEW s \in Pending(t)'
  PROVE  \/ s \in Pending(t)
         \/ s \in DirtyRows(Dev(t)) /\ UNCHANGED <<rows, local>>
  <1>1. CASE tab'[t] = tab[t]
    BY <1>1 DEF Pending
  <1>2. CASE CycleStep(t)
    <2>1. Started(t) => s \in DirtyRows(Dev(t)) /\ UNCHANGED <<rows, local>>
      BY DEF Started, Pending
    <2>2. Received(t) => s \in Pending(t)
      BY DEF Received, Pending
    <2>3. ~Paged(t)
      BY DEF Paged, Pending
    <2>4. ASSUME NEW h \in Handlers, Sent(t, h)
          PROVE  s \in Pending(t)
      BY <2>4 DEF Sent, Pending
    <2>5. \A h \in Handlers : ~Asked(t, h)
      BY DEF Asked, Pending
    <2>6. ASSUME NEW r \in tab[t].results, Applied(t, r)
          PROVE  s \in Pending(t)
      BY <2>6 DEF Applied, Pending
    <2> QED
      BY <1>2, <2>1, <2>2, <2>3, <2>4, <2>5, <2>6, CycleMoves
  <1> QED
    BY <1>1, <1>2, TabSteps

-----------------------------------------------------------------------------
(* Writes.                                                                 *)

LEMMA CycleKeepsRows ==
  ASSUME NEW t \in Tabs, CycleStep(t)
  PROVE  UNCHANGED rows
  <1>1. StartCycle(t) => UNCHANGED rows
    BY DEF StartCycle, serverVars
  <1>2. ReceiveResults(t) \/ ApplyPage(t) => UNCHANGED rows
    BY DEF ReceiveResults, ApplyPage, Respond
  <1>3. ApplyResult(t) => UNCHANGED rows
    BY DEF ApplyResult, ApplyAccepted, ApplyNoteConflict, ApplyContainerConflict,
       ApplyForbidden, serverVars
  <1>4. ASSUME NEW h \in Handlers, SendBatch(t, h)
        PROVE  UNCHANGED rows
    BY <1>4 DEF SendBatch, PushArrives
  <1>5. ASSUME NEW h \in Handlers, AskFirstPage(t, h) \/ AskNextPage(t, h)
        PROVE  UNCHANGED rows
    BY <1>5 DEF AskFirstPage, AskNextPage, AskPage, PullArrives
  <1> QED
    BY <1>1, <1>2, <1>3, <1>4, <1>5 DEF CycleStep

LEMMA RowSteps ==
  ASSUME Typed, Accompanied, [Next]_vars, UNCHANGED faults
  PROVE  \/ UNCHANGED rows
         \/ \E h \in Handlers : \E in \in handler[h].todo :
              UpsertAccepted(h, in) /\ UNCHANGED clientVars
  <1>1. ASSUME NEW h \in Handlers, PushRow(h) \/ Query(h), UNCHANGED clientVars
        PROVE  \/ UNCHANGED rows
               \/ \E in \in handler[h].todo : UpsertAccepted(h, in) /\ UNCHANGED clientVars
    <2>1. Query(h) => UNCHANGED rows
      BY DEF Query, ReadTable
    <2>2. ASSUME NEW in \in handler[h].todo,
                 UpsertConflict(h, in) \/ UpsertForbidden(h, in)
          PROVE  UNCHANGED rows
      BY <2>2 DEF UpsertConflict, UpsertForbidden
    <2> QED
      BY <1>1, <2>1, <2>2 DEF PushRow
  <1>2. UNCHANGED <<serverVars, tab>> => UNCHANGED rows
    BY DEF serverVars
  <1> QED
    BY <1>1, <1>2, CycleKeepsRows, FaultlessSteps

\* A row the server is about to write is one that its device still has to push.
LEMMA PushSource ==
  ASSUME Typed, IInv, ForeignInv, NEW h \in Handlers, NEW in \in handler[h].todo,
         handler[h].state = "push"
  PROVE  \E t \in Tabs : \E s \in Pending(t) :
           /\ tab[t].pc = "sent" /\ tab[t].request = h
           /\ s.id = in.id /\ s.ver = in.ver /\ s.body = in.body
           /\ Held(Dev(t), s)
  <1>1. PICK t \in Tabs : Sends(t, h)
    BY DEF ForeignInv, Accompanied
  <1>2. PICK s \in tab[t].batch : s.id = in.id /\ s.ver = in.ver /\ s.body = in.body
    BY <1>1 DEF Sends
  <1>3. s \in Pending(t)
    BY <1>1, <1>2 DEF Sends, Pending
  <1>4. Held(Dev(t), s)
    BY <1>3 DEF IInv, SnapshotsHeld
  <1> QED
    BY <1>1, <1>2, <1>3, <1>4 DEF Sends

\* Every accepted write adds something, and nothing another device has.
LEMMA WriteAdds ==
  ASSUME Typed, IInv, ForeignInv, NEW h \in Handlers, NEW in \in handler[h].todo,
         UpsertAccepted(h, in)
  PROVE  /\ in.id \in Ids
         /\ rows[in.id].body \subseteq in.body /\ ~(in.body \subseteq rows[in.id].body)
         /\ \E d \in Devices : /\ local[d][in.id].here
                               /\ in.body \subseteq local[d][in.id].body
                               /\ \E t \in Tabs : /\ Dev(t) = d
                                                  /\ tab[t].pc = "sent"
                                                  /\ tab[t].request = h
  <1>1. handler[h].state = "push"
    BY DEF UpsertAccepted, IsNext
  <1>2. PICK t \in Tabs : \E s \in Pending(t) :
           /\ tab[t].pc = "sent" /\ tab[t].request = h
           /\ s.id = in.id /\ s.ver = in.ver /\ s.body = in.body
           /\ Held(Dev(t), s)
    BY <1>1, PushSource
  <1>3. PICK s \in Pending(t) :
           /\ tab[t].pc = "sent" /\ tab[t].request = h
           /\ s.id = in.id /\ s.ver = in.ver /\ s.body = in.body
           /\ Held(Dev(t), s)
    BY <1>2
  <1>4. /\ in.id \in Ids /\ rows'[in.id].body = in.body
        /\ rows[in.id].ver \in Nat
    BY UpsertWrites DEF Typed
  <1>5. rows[in.id].body \subseteq in.body
    BY <1>4, UpsertGrows DEF Grows
  <1>6. in.ver = rows[in.id].ver
    <2>1. Based(in.id, in.ver, in.body) /\ in.ver \in Nat
      BY <1>1, PushInput DEF IInv, ServerKnows, HandlerKnows, Typed, ServerIInv,
         UpsertAccepted
    <2> QED
      BY <1>4, <2>1 DEF Based, UpsertAccepted, IsForbidden, IsConflict, Stored
  <1>7. ~(in.body \subseteq rows[in.id].body)
    BY <1>3, <1>6 DEF ForeignInv, PushesAddSomething, Adds
  <1>8. Dev(t) \in Devices
    BY Types DEF Typed
  <1> QED
    BY <1>3, <1>4, <1>5, <1>7, <1>8 DEF Held


LEMMA RowStep ==
  ASSUME Typed, Accompanied, [Next]_vars, UNCHANGED faults, NEW i \in Ids
  PROVE  \/ rows'[i] = rows[i]
         \/ \E h \in Handlers : \E in \in handler[h].todo :
              /\ in.id = i
              /\ UpsertAccepted(h, in) /\ UNCHANGED clientVars
              /\ rows'[i].ver = rows[i].ver + 1
              /\ rows'[i].body = in.body
  <1>1. ASSUME NEW h \in Handlers, NEW in \in handler[h].todo, UpsertAccepted(h, in)
        PROVE  /\ in.id \in Ids
               /\ rows'[in.id].ver = rows[in.id].ver + 1
               /\ rows'[in.id].body = in.body
               /\ \A j \in Ids \ {in.id} : rows'[j] = rows[j]
    BY <1>1, UpsertWrites DEF Typed
  <1> QED
    BY <1>1, RowSteps

LEMMA RowsGrow ==
  ASSUME Typed, IInv, Accompanied, [Next]_vars, UNCHANGED faults
  PROVE  Grows
  BY RowSteps, SameGrows, UpsertGrows DEF Typed

LEMMA EditsGrow ==
  ASSUME Typed, Typed', [Next]_vars
  PROVE  edits \in Nat /\ edits' \in Nat /\ edits <= edits'
  <1>1. edits \in Nat /\ edits' \in Nat
    BY DEF Typed, TypeOK
  <1>2. ASSUME NEW d \in Devices, NEW i \in Ids, Create(d, i) \/ Edit(d, i)
        PROVE  edits' = edits + 1
    <2>1. Authored(i)
      BY <1>2, Zenon DEF Create, Edit
    <2> QED
      BY <2>1 DEF Authored
  <1>3. ASSUME NEW t \in Tabs, CycleStep(t)
        PROVE  edits' = edits
    <2>1. StartCycle(t) \/ ReceiveResults(t) \/ ApplyPage(t) => edits' = edits
      BY DEF StartCycle, ReceiveResults, ApplyPage
    <2>2. ApplyResult(t) => edits' = edits
      BY DEF ApplyResult, ApplyAccepted, ApplyNoteConflict, ApplyContainerConflict,
         ApplyForbidden
    <2>3. ASSUME NEW h \in Handlers,
                 SendBatch(t, h) \/ AskFirstPage(t, h) \/ AskNextPage(t, h)
          PROVE  edits' = edits
      BY <2>3 DEF SendBatch, AskFirstPage, AskNextPage, AskPage
    <2> QED
      BY <1>3, <2>1, <2>2, <2>3 DEF CycleStep
  <1>4. ASSUME NEW t \in Tabs, GiveUp(t)
        PROVE  edits' = edits
    BY <1>4 DEF GiveUp
  <1>5. ASSUME NEW h \in Handlers, ServerStep(h) \/ ServerError(h)
        PROVE  edits' = edits
    BY <1>5 DEF ServerStep, Cancel, ServerError, clientVars
  <1>6. ServerRestart => edits' = edits
    BY DEF ServerRestart
  <1>7. ASSUME NEW d \in Devices, NEW u \in Users, SignInAs(d, u)
        PROVE  edits' = edits
    BY <1>7 DEF SignInAs
  <1>8. UNCHANGED vars => edits' = edits
    BY DEF vars, clientVars
  <1>9. edits' = edits \/ edits' = edits + 1
    BY <1>2, <1>3, <1>4, <1>5, <1>6, <1>7, <1>8 DEF Next
  <1> QED
    BY <1>1, <1>9

-----------------------------------------------------------------------------
(* What a row of a device has become.                                      *)

\* An id that was not handed out has no row anywhere.
LEMMA RowNew ==
  ASSUME Typed, IInv, NEW i \in Ids, i \notin used
  PROVE  /\ rows[i].ver = 0 /\ rows[i].body = {}
         /\ \A d \in Devices : ~local[d][i].here
  BY Types DEF Typed, IInv, Fresh, ServerKnows, UnstoredEmpty, Stored

LEMMA CopyTaken ==
  ASSUME Typed, ForeignInv, NEW d \in Devices, NEW i \in Ids,
         Replaced(d, i) \/ Pulled(d, i)
  PROVE  LET new == local'[d][i]
         IN  /\ new.here /\ ~new.dirty /\ new.stamp = 0
             /\ new.body \subseteq rows[i].body
             /\ new.ver = rows[i].ver \/ ~(rows[i].body \subseteq new.body)
  <1>1. CASE Replaced(d, i)
    <2>1. PICK t \in Tabs : \E r \in tab[t].results :
            /\ r.status = "conflict" /\ r.id = i
            /\ local'[d][i] = FromWire(r.ver, r.body)
      BY <1>1 DEF Replaced, ApplyNoteConflict, ApplyContainerConflict
    <2>2. PICK r \in tab[t].results :
            /\ r.status = "conflict" /\ r.id = i
            /\ local'[d][i] = FromWire(r.ver, r.body)
      BY <2>1
    <2>3. Past(r)
      BY <2>2 DEF ForeignInv, CopiesPast, Heard
    <2> QED
      BY <2>2, <2>3 DEF Past, FromWire
  <1>2. CASE Pulled(d, i)
    <2>1. PICK t \in Tabs : \E c \in PageRows(tab[t].request) :
            /\ ApplyPage(t)
            /\ c.id = i /\ local'[d][i] = FromWire(c.ver, c.body)
      BY <1>2 DEF Pulled
    <2>2. PICK c \in PageRows(tab[t].request) :
            c.id = i /\ local'[d][i] = FromWire(c.ver, c.body)
      BY <2>1
    <2>3. tab[t].request \in Handlers
      BY <2>1 DEF ApplyPage, Typed, RequestsKnown, Waits
    <2>4. Past(c)
      BY <2>2, <2>3, LowestIsSubset DEF PageRows, ForeignInv, CopiesPast
    <2> QED
      BY <2>2, <2>4 DEF Past, FromWire
  <1> QED
    BY <1>1, <1>2

LEMMA RowConfirmed ==
  ASSUME Typed, IInv, NEW d \in Devices, NEW i \in Ids, Confirmed(d, i)
  PROVE  LET old == local[d][i]
             new == local'[d][i]
         IN  /\ old.here /\ old.dirty /\ new.here
             /\ new.body = old.body /\ new.stamp = old.stamp
             /\ \E t \in Tabs : \E r \in tab[t].results, sent \in Pending(t) :
                  /\ Dev(t) = d /\ r.id = i /\ sent.id = i
                  /\ r.status = "accepted" /\ r.body = sent.body
                  /\ ResultKnown(r)
                  /\ Held(d, sent)
                  /\ new.ver = r.ver
                  /\ new.dirty = (old.stamp # sent.stamp)
  <1>0. PICK t \in Tabs : \E r \in tab[t].results, sent \in tab[t].batch :
          /\ ApplyAccepted(t, r, sent)
          /\ Dev(t) = d /\ r.id = i
          /\ local'[d][i] = Accepted(local[d][i], r, sent)
    BY DEF Confirmed
  <1>1. PICK r \in tab[t].results, sent \in tab[t].batch :
          /\ ApplyAccepted(t, r, sent)
          /\ Dev(t) = d /\ r.id = i
          /\ local'[d][i] = Accepted(local[d][i], r, sent)
    BY <1>0
  <1>2. IsNextResult(t, r, sent) /\ r.status = "accepted"
    BY <1>1 DEF ApplyAccepted
  <1>3. /\ Held(d, sent) /\ r.id = sent.id
        /\ ResultKnown(r) /\ r.body = sent.body
    BY <1>1, <1>2, ResultHeld
  <1>4. sent \in Pending(t)
    BY <1>2, <1>3 DEF IsNextResult, Pending
  <1>5. local[d][i] \in LocalRow
    BY Types DEF Typed
  <1>6. local[d][i].here /\ local[d][i].dirty
    BY <1>1, <1>3 DEF Held
  <1>7. LET new == local'[d][i]
        IN  /\ new.here = local[d][i].here
            /\ new.body = local[d][i].body /\ new.stamp = local[d][i].stamp
            /\ new.ver = r.ver /\ new.dirty = (local[d][i].stamp # sent.stamp)
    BY <1>1, <1>5 DEF Accepted, LocalRow
  <1> QED
    BY <1>0, <1>1, <1>2, <1>3, <1>4, <1>6, <1>7

LEMMA RowForked ==
  ASSUME Typed, NEW d \in Devices, NEW i \in Ids, Forked(d, i)
  PROVE  /\ i \notin used
         /\ local'[d][i].here /\ local'[d][i].dirty /\ local'[d][i].ver = 0
         /\ \E j \in Ids : /\ local[d][j].here /\ local[d][j].dirty
                           /\ local'[d][i].stamp = local[d][j].stamp
                           /\ local'[d][i].body = local[d][j].body
  <1>1. PICK j \in Ids : /\ local[d][j].here /\ local[d][j].dirty
                         /\ local'[d][i] = Fork(local[d][j])
    BY DEF Forked
  <1>2. local[d][j] \in LocalRow
    BY Types DEF Typed
  <1>3. /\ local'[d][i].here = local[d][j].here /\ local'[d][i].dirty
        /\ local'[d][i].ver = 0 /\ local'[d][i].stamp = local[d][j].stamp
        /\ local'[d][i].body = local[d][j].body
    BY <1>1, <1>2 DEF Fork, LocalRow
  <1> QED
    BY <1>1, <1>3 DEF Forked


-----------------------------------------------------------------------------
(* The invariant, part by part.                                            *)

LEMMA EditsPastStays ==
  ASSUME FineClock, Typed, Typed', IInv, ForeignInv, [Next]_vars, UNCHANGED faults
  PROVE  EditsPast'
  <1>1. EditsPast
    BY DEF ForeignInv
  <1>2. 1..edits \subseteq 1..edits'
    BY EditsGrow
  <1>3. ASSUME NEW i \in Ids
        PROVE  rows'[i].body \subseteq 1..edits'
    <2>1. CASE rows'[i] = rows[i]
      BY <1>1, <1>2, <2>1 DEF EditsPast
    <2>2. CASE rows'[i] # rows[i]
      <3>1. PICK h \in Handlers : \E in \in handler[h].todo :
              in.id = i /\ UpsertAccepted(h, in) /\ rows'[i].body = in.body
        BY <2>2, RowStep DEF ForeignInv
      <3>2. \E d \in Devices : rows'[i].body \subseteq local[d][i].body
        BY <3>1, WriteAdds
      <3> QED
        BY <1>1, <1>2, <3>2 DEF EditsPast
    <2> QED
      BY <2>1, <2>2
  <1>4. ASSUME NEW d \in Devices, NEW i \in Ids
        PROVE  local'[d][i].body \subseteq 1..edits'
    <2>1. CASE local'[d][i] = local[d][i]
      BY <1>1, <1>2, <2>1 DEF EditsPast
    <2>2. CASE Created(d, i) \/ Edited(d, i)
      BY <1>1, <2>2, EditsGrow DEF EditsPast, Created, Edited
    <2>3. CASE Confirmed(d, i)
      BY <1>1, <1>2, <2>3, RowConfirmed DEF EditsPast
    <2>4. CASE Replaced(d, i) \/ Pulled(d, i)
      BY <1>1, <1>2, <2>4, CopyTaken DEF EditsPast
    <2>5. CASE Forked(d, i)
      BY <1>1, <1>2, <2>5, RowForked DEF EditsPast
    <2> QED
      BY <2>1, <2>2, <2>3, <2>4, <2>5, EachRowMoves DEF RowMoves
  <1> QED
    BY <1>3, <1>4 DEF EditsPast

LEMMA StampsInStays ==
  ASSUME FineClock, Typed, IInv, ForeignInv, [Next]_vars
  PROVE  StampsIn'
  <1> SUFFICES ASSUME NEW d \in Devices, NEW i \in Ids,
                      local'[d][i].here, local'[d][i].dirty
               PROVE  local'[d][i].stamp \in local'[d][i].body
    BY DEF StampsIn
  <1>1. StampsIn
    BY DEF ForeignInv
  <1>2. CASE local'[d][i] = local[d][i]
    BY <1>1, <1>2 DEF StampsIn
  <1>3. CASE Created(d, i) \/ Edited(d, i)
    BY <1>3 DEF Created, Edited
  <1>4. CASE Confirmed(d, i)
    BY <1>1, <1>4, RowConfirmed DEF StampsIn
  <1>5. CASE Forked(d, i)
    BY <1>1, <1>5, RowForked DEF StampsIn
  <1>6. ~Replaced(d, i) /\ ~Pulled(d, i)
    BY CopyTaken
  <1> QED
    BY <1>2, <1>3, <1>4, <1>5, <1>6, EachRowMoves DEF RowMoves

\* A row with a snapshot on its way is neither new nor forked.
LEMMA SentIsOld ==
  ASSUME Typed, IInv, NEW t \in Tabs, NEW s \in Pending(t)
  PROVE  /\ s.id \in Ids /\ Dev(t) \in Devices /\ Held(Dev(t), s)
         /\ s.id \in used
         /\ s.ver <= rows[s.id].ver
  <1>1. s.id \in Ids /\ Dev(t) \in Devices
    BY PendingType, Types DEF Typed, Snapshot
  <1>2. Held(Dev(t), s)
    BY DEF IInv, SnapshotsHeld
  <1>3. s.id \in used
    BY <1>1, <1>2, RowNew DEF Held
  <1>4. Based(s.id, local[Dev(t)][s.id].ver, local[Dev(t)][s.id].body)
    BY <1>1, <1>2 DEF Held, IInv, DevicesKnow, RowKnows
  <1> QED
    BY <1>1, <1>2, <1>3, <1>4 DEF Held, Based

LEMMA StampsTellStays ==
  ASSUME FineClock, Typed, IInv, IInv', ForeignInv, [Next]_vars, UNCHANGED faults
  PROVE  StampsTell'
  <1> SUFFICES ASSUME NEW t \in Tabs, NEW s \in Pending(t)',
                      local'[Dev(t)][s.id].stamp \in s.body
               PROVE  local'[Dev(t)][s.id].stamp = s.stamp
    BY DEF StampsTell, Dev
  <1> DEFINE d == Dev(t)
             i == s.id
  <1>1. CASE s \in DirtyRows(d) /\ UNCHANGED <<rows, local>>
    BY <1>1 DEF DirtyRows
  <1>2. CASE s \in Pending(t)
    <2>1. /\ i \in Ids /\ d \in Devices /\ i \in used
          /\ s.body \subseteq local[d][i].body
      BY <1>2, SentIsOld DEF Held
    <2>2. s.body \subseteq 1..edits
      BY <2>1 DEF ForeignInv, EditsPast
    <2>3. CASE local'[d][i].stamp = local[d][i].stamp
      BY <1>2, <2>3 DEF ForeignInv, StampsTell
    <2>4. ~Edited(d, i)
      BY <2>2 DEF Edited, Typed, TypeOK
    <2>5. ~Created(d, i) /\ ~Forked(d, i)
      BY <2>1 DEF Created, Forked
    <2>6. ~Replaced(d, i) /\ ~Pulled(d, i)
      BY <2>1, <2>2, CopyTaken
    <2>7. Confirmed(d, i) => local'[d][i].stamp = local[d][i].stamp
      BY <2>1, RowConfirmed
    <2> QED
      BY <2>1, <2>3, <2>4, <2>5, <2>6, <2>7, EachRowMoves DEF RowMoves
  <1> QED
    BY <1>1, <1>2, PendingSteps DEF ForeignInv


LEMMA DirtyRowAdds ==
  ASSUME FineClock, Typed, IInv, ForeignInv, [Next]_vars,
         NEW d \in Devices, NEW i \in Ids, rows'[i] = rows[i],
         local'[d][i].here, local'[d][i].dirty
  PROVE  Adds(i, local[d][i].ver, local[d][i].body)'
  <1> SUFFICES ASSUME local'[d][i].ver = rows[i].ver
               PROVE  ~(local'[d][i].body \subseteq rows[i].body)
    BY DEF Adds
  <1>1. CASE local'[d][i] = local[d][i]
    BY <1>1 DEF ForeignInv, PushesAddSomething, Adds
  <1>2. CASE Created(d, i)
    BY <1>2, RowNew DEF Created
  <1>3. CASE Edited(d, i)
    <2>1. edits + 1 \notin rows[i].body
      BY DEF ForeignInv, EditsPast, Typed, TypeOK
    <2> QED
      BY <1>3, <2>1 DEF Edited
  <1>4. CASE Confirmed(d, i)
    <2> DEFINE old == local[d][i]
               new == local'[d][i]
    <2>1. /\ old.here /\ old.dirty /\ new.body = old.body
          /\ \E t \in Tabs : \E r \in tab[t].results, sent \in Pending(t) :
               /\ Dev(t) = d /\ r.id = i /\ sent.id = i
               /\ r.status = "accepted" /\ r.body = sent.body
               /\ ResultKnown(r)
               /\ Held(d, sent)
               /\ new.ver = r.ver
               /\ new.dirty = (old.stamp # sent.stamp)
      BY <1>4, RowConfirmed
    <2>2. PICK t \in Tabs : \E r \in tab[t].results, sent \in Pending(t) :
               /\ Dev(t) = d /\ r.id = i /\ sent.id = i
               /\ r.status = "accepted" /\ r.body = sent.body
               /\ ResultKnown(r)
               /\ Held(d, sent)
               /\ new.ver = r.ver
               /\ new.dirty = (old.stamp # sent.stamp)
      BY <2>1
    <2>3. PICK r \in tab[t].results, sent \in Pending(t) :
               /\ Dev(t) = d /\ r.id = i /\ sent.id = i
               /\ r.status = "accepted" /\ r.body = sent.body
               /\ ResultKnown(r)
               /\ Held(d, sent)
               /\ new.ver = r.ver
               /\ new.dirty = (old.stamp # sent.stamp)
      BY <2>2
    <2>4. rows[i].body = sent.body
      BY <2>3 DEF ResultKnown, Known
    <2>5. old.stamp \notin sent.body
      <3>1. old.stamp # sent.stamp
        BY <2>3
      <3> QED
        BY <2>3, <3>1 DEF ForeignInv, StampsTell
    <2>6. old.stamp \in old.body
      BY <2>1 DEF ForeignInv, StampsIn
    <2> QED
      BY <2>1, <2>4, <2>5, <2>6
  <1>5. CASE Forked(d, i)
    <2>1. rows[i].body = {}
      BY <1>5, RowForked, RowNew
    <2>2. local'[d][i].body # {}
      BY <1>5, RowForked DEF ForeignInv, StampsIn
    <2> QED
      BY <2>1, <2>2
  <1>6. ~Replaced(d, i) /\ ~Pulled(d, i)
    BY CopyTaken
  <1> QED
    BY <1>1, <1>2, <1>3, <1>4, <1>5, <1>6, EachRowMoves DEF RowMoves

LEMMA PushesAddStays ==
  ASSUME FineClock, Typed, Typed', IInv, IInv', ForeignInv, [Next]_vars, UNCHANGED faults
  PROVE  PushesAddSomething'
  <1>0. Accompanied
    BY DEF ForeignInv
  <1>1. ASSUME NEW i \in Ids, rows'[i] # rows[i]
        PROVE  UNCHANGED local /\ rows'[i].ver = rows[i].ver + 1 /\ rows[i].ver \in Nat
    BY <1>0, <1>1, RowStep, Types DEF clientVars, Typed
  <1>2. ASSUME NEW d \in Devices, NEW i \in Ids, local'[d][i].here, local'[d][i].dirty
        PROVE  Adds(i, local[d][i].ver, local[d][i].body)'
    <2>1. CASE rows'[i] # rows[i]
      <3>1. local[d][i].ver <= rows[i].ver /\ local[d][i].ver \in Nat
        BY <1>1, <1>2, <2>1, Types DEF IInv, DevicesKnow, RowKnows, Based, Typed, LocalRow
      <3> QED
        BY <1>1, <2>1, <3>1 DEF Adds
    <2> QED
      BY <1>2, <2>1, DirtyRowAdds
  <1>3. ASSUME NEW t \in Tabs, NEW s \in Pending(t)'
        PROVE  Adds(s.id, s.ver, s.body)'
    <2>1. CASE s \in DirtyRows(Dev(t)) /\ UNCHANGED <<rows, local>>
      <3>1. Dev(t) \in Devices
        BY Types DEF Typed
      <3> QED
        BY <2>1, <3>1 DEF DirtyRows, ForeignInv, PushesAddSomething, Adds
    <2>2. CASE s \in Pending(t)
      <3>1. s.id \in Ids /\ s.ver <= rows[s.id].ver
        BY <2>2, SentIsOld
      <3>2. CASE rows'[s.id] = rows[s.id]
        BY <2>2, <3>2 DEF ForeignInv, PushesAddSomething, Adds
      <3>3. CASE rows'[s.id] # rows[s.id]
        <4>1. s.ver \in Nat
          BY <2>2, PendingType DEF Typed, Snapshot
        <4> QED
          BY <1>1, <3>1, <3>3, <4>1 DEF Adds
      <3> QED
        BY <3>2, <3>3
    <2> QED
      BY <1>0, <2>1, <2>2, PendingSteps
  <1> QED
    BY <1>2, <1>3 DEF PushesAddSomething, Adds

\* What one device does to a row tells another one nothing.
LEMMA EditsStayPrivate ==
  ASSUME FineClock, Typed, IInv, ForeignInv, Grows, [Next]_vars,
         NEW c \in Devices, NEW d \in Devices, NEW i \in Ids, c # d,
         local'[d][i] = local[d][i], local[d][i].here, local'[c][i].here
  PROVE  local'[c][i].body \cap local[d][i].body \subseteq rows'[i].body
  <1>1. rows[i].body \subseteq rows'[i].body
    BY DEF Grows
  <1>2. local[c][i].here =>
          local[c][i].body \cap local[d][i].body \subseteq rows[i].body
    BY DEF ForeignInv, EditsPrivate
  <1>3. CASE local'[c][i] = local[c][i]
    BY <1>1, <1>2, <1>3
  <1>4. CASE Edited(c, i)
    <2>1. edits + 1 \notin local[d][i].body
      BY DEF ForeignInv, EditsPast, Typed, TypeOK
    <2> QED
      BY <1>1, <1>2, <1>4, <2>1 DEF Edited
  <1>5. CASE Confirmed(c, i)
    BY <1>1, <1>2, <1>5, RowConfirmed
  <1>6. CASE Replaced(c, i) \/ Pulled(c, i)
    BY <1>1, <1>6, CopyTaken
  <1>7. ~Created(c, i) /\ ~Forked(c, i)
    BY RowNew DEF Created, Forked
  <1> QED
    BY <1>3, <1>4, <1>5, <1>6, <1>7, EachRowMoves DEF RowMoves

LEMMA EditsPrivateStays ==
  ASSUME FineClock, Typed, IInv, ForeignInv, [Next]_vars, UNCHANGED faults
  PROVE  EditsPrivate'
  <1> SUFFICES ASSUME NEW c \in Devices, NEW d \in Devices, NEW i \in Ids, c # d,
                      local'[c][i].here, local'[d][i].here
               PROVE  local'[c][i].body \cap local'[d][i].body \subseteq rows'[i].body
    BY DEF EditsPrivate
  <1>1. Grows
    BY RowsGrow DEF ForeignInv
  <1>2. local'[c][i] = local[c][i] \/ local'[d][i] = local[d][i]
    BY LocalMoves DEF OnlyAt
  <1>3. CASE local'[d][i] = local[d][i]
    BY <1>1, <1>3, EditsStayPrivate
  <1>4. CASE local'[c][i] = local[c][i]
    <2>1. local'[d][i].body \cap local[c][i].body \subseteq rows'[i].body
      BY <1>1, <1>4, EditsStayPrivate
    <2> QED
      BY <1>4, <2>1
  <1> QED
    BY <1>2, <1>3, <1>4


LEMMA PastStays ==
  ASSUME Typed, IInv, ForeignInv, [Next]_vars, UNCHANGED faults,
         NEW c, c.id \in Ids, Past(c)
  PROVE  Past(c)'
  <1>1. CASE rows'[c.id] = rows[c.id]
    BY <1>1 DEF Past
  <1>2. CASE rows'[c.id] # rows[c.id]
    <2>1. PICK h \in Handlers : \E in \in handler[h].todo :
            in.id = c.id /\ UpsertAccepted(h, in) /\ rows'[c.id].body = in.body
      BY <1>2, RowStep DEF ForeignInv
    <2>2. /\ rows[c.id].body \subseteq rows'[c.id].body
          /\ ~(rows'[c.id].body \subseteq rows[c.id].body)
      BY <2>1, WriteAdds
    <2> QED
      BY <2>2 DEF Past
  <1> QED
    BY <1>1, <1>2

\* A copy in a page was there before, or is of what is stored right now.
LEMMA GotSteps ==
  ASSUME Typed, [Next]_vars, NEW h \in Handlers, NEW c \in handler'[h].got
  PROVE  \/ c \in handler[h].got
         \/ UNCHANGED rows /\ c.id \in Ids /\ c.ver = rows[c.id].ver
                           /\ c.body = rows[c.id].body
  <1>0. handler \in [Handlers -> Handler]
    BY DEF Typed, TypeOK, ServerTypeOK
  <1>1. CASE UNCHANGED serverVars
    BY <1>1 DEF serverVars
  <1>2. ~Restart
    BY DEF Restart, Idle
  <1>3. ASSUME NEW g \in Handlers, PushRow(g)
        PROVE  c \in handler[h].got
    <2>1. PICK in, result : Answer(g, in, result)
      BY <1>3 DEF PushRow, UpsertAccepted, UpsertConflict, UpsertForbidden
    <2> QED
      BY <1>0, <2>1 DEF Answer, Handler
  <1>4. ASSUME NEW g \in Handlers, Query(g), c \notin handler[h].got
        PROVE  UNCHANGED rows /\ c.id \in Ids /\ c.ver = rows[c.id].ver
                              /\ c.body = rows[c.id].body
    <2>1. PICK k \in Kinds : ReadTable(g, k)
      BY <1>4 DEF Query
    <2> DEFINE S   == Since(handler[g].user, k, handler[g].since)
               L   == Lowest(S, handler[g].limit + 1)
               new == [handler[g] EXCEPT !.unread = @ \ {k}, !.got = @ \cup L]
    <2>2. handler' = [handler EXCEPT ![g] = new] /\ UNCHANGED rows
      BY <1>0, <2>1 DEF ReadTable
    <2>3. new.got = handler[g].got \cup L
      BY <1>0 DEF Handler
    <2>4. L \subseteq S
      BY LowestIsSubset
    <2> HIDE DEF new, L, S
    <2>5. c \in S
      BY <1>0, <1>4, <2>2, <2>3, <2>4
    <2>6. handler[g].user \in Users /\ handler[g].since \in Nat
      BY <1>0, <2>1 DEF ReadTable, Typed, ServerIInv, HandlersHaveUsers, Handler
    <2>7. c.id \in Ids /\ c = CopyOf(c.id)
      BY <2>5, <2>6, SinceRows DEF S, Typed
    <2> QED
      BY <2>2, <2>7 DEF CopyOf
  <1>5. ASSUME NEW g \in Handlers, Respond(g) \/ HandlerFails(g)
        PROVE  c \in handler[h].got
    BY <1>0, <1>5 DEF Respond, HandlerFails, Idle
  <1>6. ASSUME NEW g \in Handlers, Arrives(g)
        PROVE  c \in handler[h].got
    BY <1>6 DEF Arrives
  <1> QED
    BY <1>1, <1>2, <1>3, <1>4, <1>5, <1>6, ServerMoves

LEMMA HeardType ==
  ASSUME Typed, NEW t \in Tabs, NEW r \in Heard(t)
  PROVE  r \in Result
  <1>1. tab[t].results \subseteq Result
    BY Types DEF Typed, Tab
  <1>2. tab[t].pc = "sent" => handler[tab[t].request].results \subseteq Result
    BY Types DEF Typed, RequestsKnown, Waits, Handler
  <1> QED
    BY <1>1, <1>2 DEF Heard

LEMMA CopiesPastStay ==
  ASSUME Typed, IInv, ForeignInv, [Next]_vars, UNCHANGED faults
  PROVE  CopiesPast'
  <1>1. ASSUME NEW h \in Handlers, NEW c \in handler'[h].got
        PROVE  Past(c)'
    <2>1. CASE c \in handler[h].got
      <3>1. c.id \in Ids
        BY <2>1, Types DEF Typed, Handler, Copy
      <3>2. Past(c)
        BY <2>1 DEF ForeignInv, CopiesPast
      <3> QED
        BY <3>1, <3>2, PastStays
    <2> QED
      BY <2>1, GotSteps DEF Past
  <1>2. ASSUME NEW t \in Tabs, NEW r \in Heard(t)', r.status = "conflict"
        PROVE  Past(r)'
    <2>1. CASE r \in Heard(t)
      <3>1. r.id \in Ids
        BY <2>1, HeardType DEF Result
      <3>2. Past(r)
        BY <1>2, <2>1 DEF ForeignInv, CopiesPast
      <3> QED
        BY <3>1, <3>2, PastStays
    <2>2. CASE r \notin Heard(t)
      <3>1. PICK in : AnswerMade(tab[t].request, in, r)
        BY <2>2, HeardMade
      <3>2. UNCHANGED rows /\ r = ServerCopy(in.id, "conflict")
        BY <1>2, <3>1 DEF AnswerMade, UpsertConflict
      <3> QED
        BY <3>2 DEF Past, ServerCopy
    <2> QED
      BY <2>1, <2>2
  <1> QED
    BY <1>1, <1>2 DEF CopiesPast


\* The device that hears of its own write knows the version once it is applied.
LEMMA OwnIsHeard ==
  ASSUME Typed, IInv, IInv', ForeignInv, [Next]_vars, UNCHANGED faults,
         NEW d \in Devices, NEW i \in Ids, rows'[i] = rows[i],
         HearsOwn(d, i), ~HearsOwn(d, i)'
  PROVE  local'[d][i].ver = rows[i].ver
  <1>1. PICK t \in Tabs : \E r \in Heard(t) :
          Dev(t) = d /\ r.id = i /\ r.status = "accepted" /\ r.ver = rows[i].ver
    BY DEF HearsOwn
  <1>2. PICK r \in Heard(t) :
          Dev(t) = d /\ r.id = i /\ r.status = "accepted" /\ r.ver = rows[i].ver
    BY <1>1
  <1>3. r \notin Heard(t)'
    BY <1>2 DEF HearsOwn, Dev
  <1>4. r \in tab[t].results /\ \E sent \in tab[t].batch : Applies(t, r, sent)
    BY <1>3, HeardStays DEF ForeignInv
  <1>5. PICK sent \in tab[t].batch : ApplyAccepted(t, r, sent)
    BY <1>2, <1>4 DEF Applies, ApplyNoteConflict, ApplyContainerConflict, ApplyForbidden
  <1>6. Held(d, sent) /\ sent.id = i
    BY <1>2, <1>5, ResultHeld DEF ApplyAccepted
  <1>7. local' = [local EXCEPT ![d][i] = Accepted(local[d][i], r, sent)]
    BY <1>2, <1>5, <1>6 DEF ApplyAccepted, Held
  <1>8. local'[d][i] = Accepted(local[d][i], r, sent)
    BY <1>7 DEF Typed, TypeOK
  <1>9. local[d][i] \in LocalRow
    BY Types DEF Typed
  <1> QED
    BY <1>2, <1>8, <1>9 DEF Accepted, LocalRow

\* Whoever writes a row hears of it, and the others lack what was written.
LEMMA WriteLeavesOthers ==
  ASSUME Typed, IInv, ForeignInv,
         NEW h \in Handlers, NEW in \in handler[h].todo,
         UpsertAccepted(h, in), UNCHANGED clientVars,
         NEW d \in Devices, local[d][in.id].here, ~HearsOwn(d, in.id)'
  PROVE  ~(in.body \subseteq local[d][in.id].body)
  <1> DEFINE i == in.id
  <1>1. /\ i \in Ids /\ ~(in.body \subseteq rows[i].body)
        /\ \E c \in Devices : /\ local[c][i].here
                              /\ in.body \subseteq local[c][i].body
                              /\ \E t \in Tabs : /\ Dev(t) = c
                                                 /\ tab[t].pc = "sent"
                                                 /\ tab[t].request = h
    BY WriteAdds
  <1>2. PICK c \in Devices : /\ local[c][i].here
                             /\ in.body \subseteq local[c][i].body
                             /\ \E t \in Tabs : /\ Dev(t) = c
                                                /\ tab[t].pc = "sent"
                                                /\ tab[t].request = h
    BY <1>1
  <1>3. PICK t \in Tabs : Dev(t) = c /\ tab[t].pc = "sent" /\ tab[t].request = h
    BY <1>2
  <1> DEFINE r == [id |-> i, status |-> "accepted", ver |-> rows[i].ver + 1,
                   body |-> in.body]
  <1>4. r \in handler'[h].results
    BY DEF UpsertAccepted, Answer, Typed, TypeOK, ServerTypeOK, Handler
  <1>5. rows'[i].ver = rows[i].ver + 1
    BY UpsertWrites DEF Typed
  <1>6. tab' = tab
    BY DEF clientVars
  <1>7. r \in Heard(t)'
    BY <1>3, <1>4, <1>6 DEF Heard
  <1>8. HearsOwn(c, i)'
    BY <1>3, <1>5, <1>7 DEF HearsOwn, Dev
  <1>9. local[c][i].body \cap local[d][i].body \subseteq rows[i].body
    BY <1>1, <1>2, <1>8 DEF ForeignInv, EditsPrivate
  <1> QED
    BY <1>1, <1>2, <1>9

LEMMA OldRowsLackStay ==
  ASSUME FineClock, Typed, IInv, IInv', ForeignInv, [Next]_vars, UNCHANGED faults
  PROVE  OldRowsLack'
  <1> SUFFICES ASSUME NEW d \in Devices, NEW i \in Ids,
                      local'[d][i].here, local'[d][i].ver < rows'[i].ver,
                      ~HearsOwn(d, i)'
               PROVE  ~(rows'[i].body \subseteq local'[d][i].body)
    BY DEF OldRowsLack
  <1> DEFINE old == local[d][i]
             new == local'[d][i]
  <1>1. CASE rows'[i] # rows[i]
    <2>1. PICK h \in Handlers : \E in \in handler[h].todo :
            /\ in.id = i
            /\ UpsertAccepted(h, in) /\ UNCHANGED clientVars
            /\ rows'[i].body = in.body
      BY <1>1, RowStep DEF ForeignInv
    <2>2. PICK in \in handler[h].todo :
            /\ in.id = i
            /\ UpsertAccepted(h, in) /\ UNCHANGED clientVars
            /\ rows'[i].body = in.body
      BY <2>1
    <2>3. local'[d][i] = local[d][i]
      BY <2>2 DEF clientVars
    <2> QED
      BY <2>2, <2>3, WriteLeavesOthers
  <1>2. CASE rows'[i] = rows[i]
    <2>0. rows[i].ver \in Nat /\ old.ver \in Nat
      BY Types DEF Typed, LocalRow
    <2>1. ~HearsOwn(d, i)
      BY <1>2, <2>0, OwnIsHeard
    <2>2. old.here /\ old.ver < rows[i].ver => ~(rows[i].body \subseteq old.body)
      BY <2>1 DEF ForeignInv, OldRowsLack
    <2>3. CASE new = old
      BY <1>2, <2>2, <2>3
    <2>4. CASE Edited(d, i)
      <3>1. edits + 1 \notin rows[i].body
        BY DEF ForeignInv, EditsPast, Typed, TypeOK
      <3> QED
        BY <1>2, <2>2, <2>4, <3>1 DEF Edited
    <2>5. CASE Confirmed(d, i)
      <3>1. /\ old.here /\ new.body = old.body
            /\ \E t \in Tabs : \E r \in tab[t].results, sent \in Pending(t) :
                 /\ Dev(t) = d /\ r.id = i /\ sent.id = i
                 /\ r.status = "accepted" /\ r.body = sent.body
                 /\ ResultKnown(r)
                 /\ Held(d, sent)
                 /\ new.ver = r.ver
                 /\ new.dirty = (old.stamp # sent.stamp)
        BY <2>5, RowConfirmed
      <3>2. PICK t \in Tabs : \E r \in tab[t].results, sent \in Pending(t) :
              /\ r.id = i /\ sent.id = i
              /\ r.status = "accepted" /\ r.body = sent.body
              /\ ResultKnown(r)
              /\ Held(d, sent)
        BY <3>1
      <3>3. PICK r \in tab[t].results, sent \in Pending(t) :
              /\ r.id = i /\ sent.id = i
              /\ r.status = "accepted" /\ r.body = sent.body
              /\ ResultKnown(r)
              /\ Held(d, sent)
        BY <3>2
      <3>4. sent.body \subseteq rows[i].body
        BY <3>3 DEF ResultKnown
      <3>5. old.ver # rows[i].ver
        BY <3>3, <3>4 DEF ForeignInv, PushesAddSomething, Adds, Held
      <3>6. old.ver <= rows[i].ver
        BY <3>1 DEF IInv, DevicesKnow, RowKnows, Based
      <3> QED
        BY <1>2, <2>0, <2>2, <3>1, <3>5, <3>6
    <2>6. CASE Replaced(d, i) \/ Pulled(d, i)
      BY <1>2, <2>0, <2>6, CopyTaken
    <2>7. ~Created(d, i) /\ ~Forked(d, i)
      BY <1>2, RowNew, RowForked DEF Created
    <2> QED
      BY <2>3, <2>4, <2>5, <2>6, <2>7, EachRowMoves DEF RowMoves
  <1> QED
    BY <1>1, <1>2


\* An answer is only made while the device that waits for it stands still.
LEMMA AnswerMadeAlone ==
  ASSUME Typed, Accompanied, [Next]_vars, UNCHANGED faults,
         NEW t \in Tabs, NEW r \in Heard(t)', r \notin Heard(t)
  PROVE  /\ UNCHANGED clientVars
         /\ tab[t].pc = "sent" /\ tab[t].request \in Handlers
         /\ \E in : AnswerMade(tab[t].request, in, r)
  <1> DEFINE h == tab[t].request
  <1>1. /\ tab[t].pc = "sent" /\ h \in Handlers /\ tab'[t] = tab[t]
        /\ \E in : AnswerMade(h, in, r)
    BY HeardMade
  <1>2. r \in handler'[h].results /\ r \notin handler[h].results
    BY <1>1 DEF Heard
  <1>3. ASSUME NEW s \in Tabs, CycleStep(s)
        PROVE  FALSE
    <2>1. ~Started(s) /\ \A q : ~Applied(s, q)
      BY <1>2 DEF Started, Applied
    <2>2. ~Received(s) /\ ~Paged(s)
      BY <1>1, <1>2 DEF Received, Paged, OthersServe, Idle
    <2>3. \A g \in Handlers : ~Sent(s, g)
      BY <1>1, <1>2 DEF Sent, OthersServe
    <2>4. ASSUME NEW g \in Handlers, Asked(s, g)
          PROVE  FALSE
      <3>1. handler'[g].state = "pull" /\ OthersServe(g) /\ handler[g].state = "free"
        BY <2>4 DEF Asked
      <3>2. h = g
        BY <1>1, <1>2, <3>1 DEF OthersServe
      <3>3. handler[h].state = "push"
        BY <1>1 DEF AnswerMade, UpsertAccepted, UpsertConflict, UpsertForbidden, IsNext
      <3> QED
        BY <3>1, <3>2, <3>3
    <2> QED
      BY <1>3, <2>1, <2>2, <2>3, <2>4, CycleMoves
  <1>4. ~(UNCHANGED <<serverVars, tab>>)
    BY <1>2 DEF serverVars
  <1> QED
    BY <1>1, <1>3, <1>4, FaultlessSteps

LEMMA NewConflictIsForeign ==
  ASSUME OneTabEach, Typed, IInv, ForeignInv, [Next]_vars, UNCHANGED faults,
         NEW t \in Tabs, NEW r \in Heard(t)', r \notin Heard(t), r.status = "conflict"
  PROVE  ~(r.body \subseteq local'[Dev(t)][r.id].body)
  <1> DEFINE d == Dev(t)
             h == tab[t].request
  <1>1. /\ UNCHANGED clientVars
        /\ tab[t].pc = "sent" /\ h \in Handlers
        /\ \E in : AnswerMade(h, in, r)
    BY AnswerMadeAlone DEF ForeignInv
  <1>2. PICK in \in handler[h].todo :
          UpsertConflict(h, in) /\ r = ServerCopy(in.id, "conflict")
    BY <1>1 DEF AnswerMade
  <1>3. handler[h].state = "push" /\ rows[in.id].ver # in.ver
    BY <1>2 DEF UpsertConflict, IsNext, IsConflict
  <1>4. PICK s \in Tabs : \E q \in Pending(s) :
           /\ tab[s].pc = "sent" /\ tab[s].request = h
           /\ q.id = in.id /\ q.ver = in.ver /\ q.body = in.body
           /\ Held(Dev(s), q)
    BY <1>1, <1>3, PushSource
  <1>5. s = t
    <2>1. h # NoHandler
      BY <1>1, DevicesAssumption
    <2> QED
      BY <1>4, <2>1 DEF IInv, RequestsServed
  <1>6. PICK q \in Pending(t) : q.id = in.id /\ q.ver = in.ver /\ Held(d, q)
    BY <1>4, <1>5
  <1>7. /\ in.id \in Ids /\ d \in Devices
        /\ local[d][in.id].here /\ local[d][in.id].ver = in.ver
        /\ in.ver <= rows[in.id].ver
    BY <1>6, SentIsOld DEF Held
  <1>8. local[d][in.id].ver < rows[in.id].ver
    <2>1. rows[in.id].ver \in Nat /\ local[d][in.id].ver \in Nat
      BY <1>7, Types DEF Typed, LocalRow
    <2> QED
      BY <1>3, <1>7, <2>1
  <1>9. ~HearsOwn(d, in.id)
    <2>1. ASSUME NEW u \in Tabs, NEW p \in Heard(u), Dev(u) = d, p.id = in.id
          PROVE  FALSE
      <3>1. u = t
        BY <2>1 DEF OneTabEach
      <3>2. p \in handler[h].results
        BY <1>1, <2>1, <3>1 DEF ForeignInv, Resting, Heard
      <3>3. Serves(h, tab[t].batch)
        BY <1>1 DEF IInv, RequestsServed, TabServed
      <3> QED
        BY <1>2, <2>1, <3>2, <3>3 DEF Serves
    <2> QED
      BY <2>1 DEF HearsOwn
  <1>10. ~(rows[in.id].body \subseteq local[d][in.id].body)
    BY <1>7, <1>8, <1>9 DEF ForeignInv, OldRowsLack
  <1>11. local' = local
    BY <1>1 DEF clientVars
  <1> QED
    BY <1>2, <1>10, <1>11 DEF ServerCopy

LEMMA HeardForeignStays ==
  ASSUME OneTabEach, FineClock, Typed, IInv, ForeignInv, [Next]_vars, UNCHANGED faults
  PROVE  HeardForeign'
  <1> SUFFICES ASSUME NEW t \in Tabs, NEW r \in Heard(t)', r.status = "conflict"
               PROVE  ~(r.body \subseteq local'[Dev(t)][r.id].body)
    BY DEF HeardForeign, Dev
  <1> DEFINE d == Dev(t)
             i == r.id
  <1>1. CASE r \in Heard(t)
    <2>1. i \in Ids /\ d \in Devices
      BY <1>1, HeardType, Types DEF Typed, Result
    <2>2. ~(r.body \subseteq local[d][i].body) /\ r.body \subseteq rows[i].body
      BY <1>1 DEF ForeignInv, HeardForeign, CopiesPast, Past
    <2>3. CASE local'[d][i] = local[d][i]
      BY <2>2, <2>3
    <2>4. CASE Edited(d, i)
      <3>1. edits + 1 \notin rows[i].body
        BY <2>1 DEF ForeignInv, EditsPast, Typed, TypeOK
      <3> QED
        BY <2>2, <2>4, <3>1 DEF Edited
    <2>5. CASE Confirmed(d, i)
      BY <2>1, <2>2, <2>5, RowConfirmed
    <2>6. ~Created(d, i) /\ ~Forked(d, i)
      BY <2>1, <2>2, RowNew DEF Created, Forked
    <2>7. ASSUME Replaced(d, i)
          PROVE  FALSE
      <3>1. PICK u \in Tabs : \E q \in tab[u].results, sent \in tab[u].batch :
              /\ ApplyNoteConflict(u, q, sent) \/ ApplyContainerConflict(u, q, sent)
              /\ Dev(u) = d /\ q.id = i
        BY <2>7 DEF Replaced
      <3>2. u = t
        BY <3>1 DEF OneTabEach
      <3>3. PICK q \in tab[t].results, sent \in tab[t].batch :
              /\ ApplyNoteConflict(t, q, sent) \/ ApplyContainerConflict(t, q, sent)
              /\ q.id = i
        BY <3>1, <3>2
      <3>4. ResultApplied(t, q) /\ UNCHANGED serverVars /\ tab[t].pc = "push"
        BY <3>3 DEF ApplyNoteConflict, ApplyContainerConflict, IsNextResult
      <3>5. Applied(t, q)
        BY <3>3, <3>4, AppliedBy
      <3>6. r \in tab[t].results
        BY <1>1, <3>4 DEF Heard
      <3>7. r = q
        BY <3>3, <3>6 DEF IInv, CyclesOrderly, Orderly
      <3> QED
        BY <3>5, <3>7 DEF Applied, Heard
    <2>8. ASSUME Pulled(d, i)
          PROVE  FALSE
      <3>1. ApplyPage(t)
        BY <2>8 DEF Pulled, OneTabEach
      <3> QED
        BY <1>1, <3>1 DEF ApplyPage, ForeignInv, Resting, Heard
    <2> QED
      BY <2>1, <2>3, <2>4, <2>5, <2>6, <2>7, <2>8, EachRowMoves DEF RowMoves
  <1> QED
    BY <1>1, NewConflictIsForeign


-----------------------------------------------------------------------------
(* Together.                                                               *)

LEMMA InitForeignInv == Init => ForeignInv
  <1> SUFFICES ASSUME Init PROVE ForeignInv
    OBVIOUS
  <1>1. \A i \in Ids : rows[i].body = {} /\ rows[i].ver = 0
    BY ContentAssumption DEF Init, ServerInit
  <1>2. \A h \in Handlers : handler[h].got = {} /\ handler[h].state = "free"
    BY DEF Init, ServerInit, Idle
  <1>3. \A d \in Devices, i \in Ids : ~local[d][i].here /\ local[d][i].body = {}
    BY DEF Init, Missing
  <1>4. \A t \in Tabs : Heard(t) = {} /\ Pending(t) = {} /\ tab[t].results = {}
    BY DEF Init, NoCycle, Heard, Pending
  <1>5. EditsPast /\ StampsIn /\ StampsTell
    BY <1>1, <1>3, <1>4 DEF EditsPast, StampsIn, StampsTell
  <1>6. PushesAddSomething /\ EditsPrivate
    BY <1>3, <1>4 DEF PushesAddSomething, EditsPrivate
  <1>7. CopiesPast /\ OldRowsLack /\ HeardForeign
    BY <1>2, <1>3, <1>4 DEF CopiesPast, OldRowsLack, HeardForeign
  <1>8. Accompanied /\ Resting
    BY <1>2, <1>4 DEF Accompanied, Resting
  <1> QED
    BY <1>5, <1>6, <1>7, <1>8 DEF ForeignInv

LEMMA ForeignStep ==
  ASSUME OneTabEach, FineClock, Typed, Typed', IInv, IInv', ForeignInv,
         [Next]_vars, UNCHANGED faults
  PROVE  ForeignInv'
  <1>1. EditsPast' /\ StampsIn' /\ StampsTell'
    BY EditsPastStays, StampsInStays, StampsTellStays
  <1>2. PushesAddSomething' /\ EditsPrivate'
    BY PushesAddStays, EditsPrivateStays
  <1>3. CopiesPast' /\ OldRowsLack' /\ HeardForeign'
    BY CopiesPastStay, OldRowsLackStay, HeardForeignStays
  <1>4. Accompanied' /\ Resting'
    BY AccompaniedStays, RestingStays DEF ForeignInv
  <1> QED
    BY <1>1, <1>2, <1>3, <1>4 DEF ForeignInv

\* What was lost stays lost.
LEMMA FaultsCount ==
  ASSUME Typed, [Next]_vars
  PROVE  faults' = faults \/ faults' = faults + 1
  <1>1. ASSUME NEW d \in Devices, NEW i \in Ids, Create(d, i) \/ Edit(d, i)
        PROVE  faults' = faults
    BY <1>1, Zenon DEF Create, Edit
  <1>2. ASSUME NEW t \in Tabs, CycleStep(t)
        PROVE  faults' = faults
    <2>1. StartCycle(t) \/ ReceiveResults(t) \/ ApplyPage(t) => faults' = faults
      BY DEF StartCycle, ReceiveResults, ApplyPage
    <2>2. ApplyResult(t) => faults' = faults
      BY DEF ApplyResult, ApplyAccepted, ApplyNoteConflict, ApplyContainerConflict,
         ApplyForbidden
    <2>3. ASSUME NEW h \in Handlers,
                 SendBatch(t, h) \/ AskFirstPage(t, h) \/ AskNextPage(t, h)
          PROVE  faults' = faults
      BY <2>3 DEF SendBatch, AskFirstPage, AskNextPage, AskPage
    <2> QED
      BY <1>2, <2>1, <2>2, <2>3 DEF CycleStep
  <1>3. ASSUME NEW t \in Tabs, GiveUp(t)
        PROVE  faults' = faults + 1
    BY <1>3 DEF GiveUp, Fault
  <1>4. ASSUME NEW h \in Handlers, ServerStep(h) \/ ServerError(h)
        PROVE  faults' = faults \/ faults' = faults + 1
    BY <1>4 DEF ServerStep, Cancel, ServerError, Fault, clientVars
  <1>5. ServerRestart => faults' = faults + 1
    BY DEF ServerRestart, Fault
  <1>6. ASSUME NEW d \in Devices, NEW u \in Users, SignInAs(d, u)
        PROVE  faults' = faults
    BY <1>6 DEF SignInAs
  <1>7. UNCHANGED vars => faults' = faults
    BY DEF vars, clientVars
  <1> QED
    BY <1>1, <1>2, <1>3, <1>4, <1>5, <1>6, <1>7 DEF Next

\* With one tab on a device, as long as no request, answer or tab was lost, a
\* conflict brings an edit the device has not seen: applyConflict (push.ts) forks
\* a note, or replaces a class, notebook or deadline, over somebody else's write
\* and never over the device's own.
THEOREM ConflictsAreForeign ==
  ASSUME OneTabEach, FineClock
  PROVE  Spec => [](faults = 0 => ConflictIsForeign)
  <1> DEFINE Inv == faults = 0 => ForeignInv
  <1>1. Init => Inv
    BY InitForeignInv
  <1>2. Typed /\ Typed' /\ IInv /\ IInv' /\ Inv /\ [Next]_vars => Inv'
    <2> SUFFICES ASSUME Typed, Typed', IInv, IInv', Inv, [Next]_vars, faults' = 0
                 PROVE  ForeignInv'
      OBVIOUS
    <2>1. faults = 0
      BY FaultsCount DEF Typed, TypeOK
    <2> QED
      BY <2>1, ForeignStep
  <1>3. Inv => (faults = 0 => ConflictIsForeign)
    BY DEF ForeignInv, HeardForeign, Heard, ConflictIsForeign
  <1> HIDE DEF Inv
  <1> QED
    BY <1>1, <1>2, <1>3, Invariant, TypedInvariant, PTL DEF Spec

=============================================================================
