-------------------------- MODULE NefixSync_proofs --------------------------
(***************************************************************************)
(* Proofs about NefixSync, for any devices, rows, handlers, batch and page *)
(* sizes and any number of edits and faults, where every device has one    *)
(* tab and no two edits of a row share a millisecond: nothing accepted is  *)
(* undone, no edit of a note is lost, and a clean row matches the server.  *)
(* Where the rows are of one kind and accounts stay, a device also has     *)
(* every row at or below its cursor.                                       *)
(*                                                                         *)
(* None of these is inductive.  The argument is about copies: every copy   *)
(* of a row, wherever it travels, names a version the server has had; if   *)
(* that version is still the stored one, the copy holds at least what the  *)
(* server stores (Based), and exactly that if nobody edited it since       *)
(* (Known).  A write is accepted only over the version it names, so it     *)
(* only ever adds edits; therefore an accepted answer, however late, is    *)
(* about edits the server still has.  What a page says about its cursor    *)
(* holds, when it is applied, of the device (CursorInv).                   *)
(***************************************************************************)
EXTENDS NefixSync, SyncServer_proofs

-----------------------------------------------------------------------------
(* Types, for every instance, with what the server's half keeps: the       *)
(* invariant of SyncServer, and that the pages a pull gathers are complete *)
(* up to their cursor (Gathers).  The cursor of a page has a type only     *)
(* because of the latter: it is the highest sequence of a set of rows of   *)
(* the past.                                                               *)

\* A tab that waits for an answer waits for a handler.
Waits(c) == c.pc \in {"sent", "wait"} => c.request \in Handlers
RequestsKnown == \A t \in Tabs : Waits(tab[t])

Typed == TypeOK /\ ServerIInv /\ Gathers /\ RequestsKnown

\* The cursor of a page is the sequence of one of its rows, or the client's.
LEMMA PageCursorType ==
  ASSUME NEW h \in Handlers, Typed, PullAnswered(h)
  PROVE  PageCursor(h) \in Nat
  BY PageCursorIsLast DEF Typed, PullAnswered

\* What the proofs below use of the types.
LEMMA Types ==
  ASSUME TypeOK
  PROVE  /\ \A t \in Tabs : Dev(t) \in Devices /\ tab[t] \in Tab
         /\ \A d \in Devices, i \in Ids : local[d][i] \in LocalRow
         /\ \A d \in Devices : account[d] \in Users
         /\ \A h \in Handlers : handler[h] \in Handler
         /\ \A i \in Ids : rows[i] \in Row
         /\ \A i \in Ids : rows[i].body \subseteq Edits /\ rows[i].ver \in Nat
  <1>1. \A i \in Ids : rows[i] \in Row
    BY DEF TypeOK, ServerTypeOK
  <1>2. \A i \in Ids : rows[i].body \subseteq Edits /\ rows[i].ver \in Nat
    BY <1>1, ContentAssumption DEF Row
  <1> QED
    BY <1>1, <1>2, DevicesAssumption DEF TypeOK, ServerTypeOK, Dev

\* Snapshots are also what a push sends, with another record around them.
LEMMA WireType ==
  ASSUME NEW batch \in SUBSET Snapshot
  PROVE  {[id |-> s.id, ver |-> s.ver, body |-> s.body] : s \in batch} \in SUBSET Input
  BY ContentAssumption DEF Snapshot, Input

LEMMA FromWireType ==
  ASSUME NEW ver \in Nat, NEW body \in Bodies \cup {NoBody}
  PROVE  FromWire(ver, body) \in LocalRow
  BY ContentAssumption, BoundsAssumption DEF FromWire, LocalRow

LEMMA NoCycleType == NoCycle \in Tab /\ Waits(NoCycle)
  BY DEF NoCycle, Tab, Waits

-----------------------------------------------------------------------------
(* Steps.                                                                  *)

LEMMA ArrivesTyped ==
  ASSUME Typed, NEW h \in Handlers, NEW u \in Users,
         NEW batch \in SUBSET Input, NEW since \in Nat, NEW limit \in Nat,
         PushArrives(h, u, batch) \/ PullArrives(h, u, since, limit)
  PROVE  ServerIInv' /\ Gathers'
  BY PushArrivesInv, PullArrivesInv, PushArrivesGathers, PullArrivesGathers DEF Typed

LEMMA EndsTyped ==
  ASSUME Typed,
         \/ Restart
         \/ \E h \in Handlers : Respond(h) \/ HandlerFails(h)
  PROVE  ServerIInv' /\ Gathers'
  BY RestartInv, RespondInv, RestartGathers, RespondGathers DEF Typed

LEMMA PushRowTyped ==
  ASSUME Typed, NEW h \in Handlers, PushRow(h)
  PROVE  ServerIInv' /\ Gathers'
  BY PushRowInv, PushRowGathers DEF Typed

LEMMA QueryTyped ==
  ASSUME Typed, NEW h \in Handlers, Query(h)
  PROVE  ServerIInv' /\ Gathers'
  BY QueryInv, QueryGathers DEF Typed

-----------------------------------------------------------------------------
\* A row of a device, and the cycle of a tab, replaced by a typed one.
LEMMA LocalType ==
  ASSUME TypeOK, NEW d \in Devices, NEW i \in Ids, NEW new \in LocalRow
  PROVE  [local EXCEPT ![d][i] = new] \in [Devices -> [Ids -> LocalRow]]
  BY DEF TypeOK

\* The variables of the browsers alone.
ClientTypeOK ==
  /\ local \in [Devices -> [Ids -> LocalRow]]
  /\ cursor \in [Devices -> Nat]
  /\ tab \in [Tabs -> Tab]
  /\ account \in [Devices -> Users]
  /\ used \subseteq Ids
  /\ edits \in 0..MaxEdits
  /\ noteEdits \subseteq 1..edits
  /\ faults \in 0..MaxFaults
  /\ RequestsKnown

LEMMA TypedParts == Typed <=> ClientTypeOK /\ ServerIInv /\ Gathers
  BY DEF Typed, TypeOK, ClientTypeOK, ServerIInv

LEMMA ServerSame ==
  ASSUME Typed, UNCHANGED serverVars
  PROVE  ServerIInv' /\ Gathers'
  BY GathersUnchanged DEF Typed, serverVars, ServerIInv, ServerTypeOK,
         HandlersHaveUsers, OwnersKnown, SeqsDistinct, Stored

LEMMA FaultType == Typed /\ Fault => faults' \in 0..MaxFaults
  BY BoundsAssumption DEF Typed, TypeOK, Fault

LEMMA AuthoredType ==
  ASSUME Typed, NEW i \in Ids, Authored(i)
  PROVE  /\ edits \in Nat /\ edits + 1 \in Edits /\ edits' \in 0..MaxEdits
         /\ noteEdits' \subseteq 1..edits'
  <1>1. edits \in Nat /\ edits < MaxEdits /\ MaxEdits \in Nat
        /\ noteEdits \subseteq 1..edits
    BY BoundsAssumption DEF Authored, Typed, TypeOK
  <1>2. edits' = edits + 1 /\ noteEdits' \subseteq noteEdits \cup {edits + 1}
    BY DEF Authored
  <1> QED
    BY <1>1, <1>2 DEF Edits

LEMMA CreateTyped ==
  ASSUME Typed, NEW d \in Devices, NEW i \in Ids, Create(d, i)
  PROVE  ClientTypeOK'
  <1> DEFINE new == [here |-> TRUE, ver |-> 0, dirty |-> TRUE,
                     stamp |-> edits + 1, body |-> {edits + 1}]
  <1>1. new \in LocalRow
    BY AuthoredType DEF Create, LocalRow, Edits
  <1>2. local' \in [Devices -> [Ids -> LocalRow]]
    BY <1>1, LocalType DEF Create, Typed
  <1> QED
    BY <1>2, AuthoredType DEF Create, Typed, TypeOK, ClientTypeOK, RequestsKnown

LEMMA EditTyped ==
  ASSUME Typed, NEW d \in Devices, NEW i \in Ids, Edit(d, i)
  PROVE  ClientTypeOK'
  <1> DEFINE row == local[d][i]
  <1>1. PICK stamp \in {edits + 1} \cup
                        (IF CoarseClock /\ row.stamp # 0 THEN {row.stamp} ELSE {}) :
          local' = [local EXCEPT ![d][i] =
                      [row EXCEPT !.dirty = TRUE, !.stamp = stamp,
                                  !.body = @ \cup {edits + 1}]]
    BY DEF Edit
  <1>2. row \in LocalRow
    BY Types DEF Typed
  <1>3. stamp \in 0..MaxEdits
    BY <1>2, AuthoredType DEF Edit, LocalRow, Edits
  <1>4. [row EXCEPT !.dirty = TRUE, !.stamp = stamp, !.body = @ \cup {edits + 1}]
          \in LocalRow
    BY <1>2, <1>3, AuthoredType DEF Edit, LocalRow
  <1>5. local' \in [Devices -> [Ids -> LocalRow]]
    BY <1>1, <1>4, LocalType DEF Typed
  <1> QED
    BY <1>5, AuthoredType DEF Edit, Typed, TypeOK, ClientTypeOK, RequestsKnown

\* The steps of a cycle change one tab; what they leave alone keeps its type.
LEMMA DirtyRowsType ==
  ASSUME Typed, NEW d \in Devices
  PROVE  DirtyRows(d) \subseteq Snapshot
  BY Types DEF Typed, DirtyRows, Snapshot, LocalRow

LEMMA CycleTyped ==
  ASSUME Typed, NEW t \in Tabs, NEW new \in Tab, Waits(new),
         tab' = [tab EXCEPT ![t] = new],
         local' \in [Devices -> [Ids -> LocalRow]],
         cursor' \in [Devices -> Nat],
         used' \subseteq Ids,
         UNCHANGED <<account, edits, noteEdits>>,
         UNCHANGED faults \/ Fault
  PROVE  ClientTypeOK'
  BY FaultType DEF Typed, TypeOK, ClientTypeOK, RequestsKnown

LEMMA StartCycleTyped ==
  ASSUME Typed, NEW t \in Tabs, StartCycle(t)
  PROVE  ClientTypeOK'
  <1> DEFINE new == [NoCycle EXCEPT !.pc = "push", !.queue = DirtyRows(Dev(t))]
  <1>1. new \in Tab /\ Waits(new)
    BY Types, DirtyRowsType, NoCycleType DEF Typed, Tab, Waits, NoCycle
  <1> HIDE DEF new
  <1>2. tab' = [tab EXCEPT ![t] = new]
    BY DEF StartCycle, new
  <1> QED
    BY <1>1, <1>2, CycleTyped DEF StartCycle, Typed, TypeOK

LEMMA SendBatchTyped ==
  ASSUME Typed, NEW t \in Tabs, NEW h \in Handlers, SendBatch(t, h)
  PROVE  ClientTypeOK' /\ ServerIInv' /\ Gathers'
  <1> DEFINE batch == NextBatch(tab[t].queue)
             sent  == {[id |-> s.id, ver |-> s.ver, body |-> s.body] : s \in batch}
             new   == [tab[t] EXCEPT !.pc = "sent", !.queue = @ \ batch,
                                     !.batch = batch, !.request = h]
  <1>1. tab[t] \in Tab /\ Dev(t) \in Devices /\ account[Dev(t)] \in Users
    BY Types DEF Typed
  <1>2. batch \subseteq tab[t].queue
    BY DEF NextBatch
  <1>3. batch \in SUBSET Snapshot
    BY <1>1, <1>2 DEF Tab
  <1>4. PushArrives(h, account[Dev(t)], sent)
    BY DEF SendBatch
  <1>5. sent \in SUBSET Input
    <2> HIDE DEF batch
    <2> QED BY <1>3, WireType
  <1>6. ServerIInv' /\ Gathers'
    <2> HIDE DEF sent
    <2>1. 0 \in Nat
      OBVIOUS
    <2> QED BY <1>1, <1>4, <1>5, <2>1, ArrivesTyped
  <1>7. new \in Tab /\ Waits(new)
    <2> HIDE DEF batch
    <2> QED BY <1>1, <1>3 DEF Tab, Waits
  <1>8. tab' = [tab EXCEPT ![t] = new]
    BY DEF SendBatch
  <1>9. ClientTypeOK'
    <2> HIDE DEF new
    <2> QED BY <1>7, <1>8, CycleTyped DEF SendBatch, Typed, TypeOK
  <1> QED
    BY <1>6, <1>9

LEMMA ReceiveResultsTyped ==
  ASSUME Typed, NEW t \in Tabs, ReceiveResults(t)
  PROVE  ClientTypeOK' /\ ServerIInv' /\ Gathers'
  <1> DEFINE h   == tab[t].request
             new == [tab[t] EXCEPT !.pc = "push", !.results = handler[h].results,
                                   !.request = NoHandler]
  <1>0. h \in Handlers
    BY DEF ReceiveResults, Typed, RequestsKnown, Waits
  <1>1. ServerIInv' /\ Gathers'
    BY <1>0, EndsTyped DEF ReceiveResults
  <1>2. new \in Tab /\ Waits(new)
    BY Types, <1>0 DEF Typed, Handler, Tab, Waits
  <1>3. tab' = [tab EXCEPT ![t] = new]
    BY DEF ReceiveResults
  <1>4. ClientTypeOK'
    <2> HIDE DEF new
    <2> QED BY <1>2, <1>3, CycleTyped DEF ReceiveResults, Typed, TypeOK
  <1> QED
    BY <1>1, <1>4

LEMMA ResultAppliedType ==
  ASSUME Typed, NEW t \in Tabs, NEW r, ResultApplied(t, r),
         local' \in [Devices -> [Ids -> LocalRow]],
         used' \subseteq Ids,
         UNCHANGED <<cursor, account, edits, noteEdits, faults>>
  PROVE  ClientTypeOK'
  <1> DEFINE new == [tab[t] EXCEPT !.results = @ \ {r}]
  <1>1. new \in Tab /\ Waits(new)
    BY Types DEF Typed, Tab, Waits, RequestsKnown
  <1>2. tab' = [tab EXCEPT ![t] = new]
    BY DEF ResultApplied
  <1> HIDE DEF new
  <1> QED
    BY <1>1, <1>2, CycleTyped DEF Typed, TypeOK

\* The answer the loop is at and the row that was sent for it.
LEMMA NextResultType ==
  ASSUME Typed, NEW t \in Tabs, NEW r, NEW sent, IsNextResult(t, r, sent)
  PROVE  /\ Dev(t) \in Devices
         /\ r \in Result /\ sent \in Snapshot
         /\ r.id \in Ids /\ r.ver \in Nat /\ r.body \in Bodies \cup {NoBody}
         /\ local[Dev(t)][r.id] \in LocalRow
  <1>1. Dev(t) \in Devices /\ r \in Result /\ sent \in Snapshot
    BY Types DEF Typed, IsNextResult, Tab
  <1>2. r.id \in Ids /\ r.ver \in Nat /\ r.body \in Bodies \cup {NoBody}
    BY <1>1 DEF Result
  <1> QED
    BY <1>1, <1>2, Types DEF Typed

LEMMA ApplyResultTyped ==
  ASSUME Typed, NEW t \in Tabs, ApplyResult(t)
  PROVE  ClientTypeOK'
  <1>1. PICK r \in tab[t].results, sent \in tab[t].batch :
          \/ ApplyAccepted(t, r, sent)
          \/ ApplyNoteConflict(t, r, sent)
          \/ ApplyContainerConflict(t, r, sent)
          \/ ApplyForbidden(t, r, sent)
    BY DEF ApplyResult
  <1> DEFINE d == Dev(t)
             i == r.id
             current == local[d][i]
             server == FromWire(r.ver, r.body)
  <1>2. /\ d \in Devices /\ i \in Ids /\ r.ver \in Nat
        /\ current \in LocalRow
        /\ r.body \in Bodies \cup {NoBody}
    BY <1>1, NextResultType DEF ApplyAccepted, ApplyNoteConflict,
       ApplyContainerConflict, ApplyForbidden
  <1>3. server \in LocalRow
    BY <1>2, FromWireType
  <1>4. CASE ApplyAccepted(t, r, sent)
    <2>1. Accepted(current, r, sent) \in LocalRow
      BY <1>2 DEF Accepted, LocalRow
    <2>2. [local EXCEPT ![d][i] = Accepted(current, r, sent)]
            \in [Devices -> [Ids -> LocalRow]]
      BY <1>2, <2>1, LocalType DEF Typed
    <2>3. local' \in [Devices -> [Ids -> LocalRow]]
      BY <1>4, <2>2 DEF ApplyAccepted, Typed, TypeOK
    <2> QED
      BY <1>4, <2>3, ResultAppliedType DEF ApplyAccepted, Typed, TypeOK
  <1>5. CASE ApplyNoteConflict(t, r, sent)
    <2>1. CASE ~current.here
      BY <1>5, <2>1, ResultAppliedType DEF ApplyNoteConflict, Typed, TypeOK
    <2>2. CASE current.here
      <3>1. PICK fork \in Ids :
              /\ used' = used \cup {fork}
              /\ local' = [local EXCEPT ![d][fork] = Fork(current),
                                        ![d][i] = server]
        BY <1>5, <2>2 DEF ApplyNoteConflict
      <3>2. Fork(current) \in LocalRow
        BY <1>2 DEF Fork, LocalRow
      <3>3. local' \in [Devices -> [Ids -> LocalRow]]
        <4> HIDE DEF server, current, d, i
        <4> QED BY <1>2, <1>3, <3>1, <3>2 DEF Typed, TypeOK
      <3> QED
        BY <1>5, <3>1, <3>3, ResultAppliedType DEF ApplyNoteConflict, Typed, TypeOK
    <2> QED
      BY <2>1, <2>2
  <1>6. CASE ApplyContainerConflict(t, r, sent)
    <2>1. local' \in [Devices -> [Ids -> LocalRow]]
      BY <1>2, <1>3, <1>6, LocalType DEF ApplyContainerConflict, Typed
    <2> QED
      BY <1>6, <2>1, ResultAppliedType DEF ApplyContainerConflict, Typed, TypeOK
  <1>7. CASE ApplyForbidden(t, r, sent)
    BY <1>7, ResultAppliedType DEF ApplyForbidden, Typed, TypeOK
  <1> QED
    BY <1>1, <1>4, <1>5, <1>6, <1>7

LEMMA AskPageTyped ==
  ASSUME Typed, NEW t \in Tabs, NEW h \in Handlers, NEW since \in Nat,
         AskPage(t, h, since)
  PROVE  ClientTypeOK' /\ ServerIInv' /\ Gathers'
  <1> DEFINE new == [NoCycle EXCEPT !.pc = "wait", !.pages = tab[t].pages,
                                    !.request = h]
  <1>1. PullArrives(h, account[Dev(t)], since, PageSize)
    BY DEF AskPage
  <1>2. account[Dev(t)] \in Users /\ PageSize \in Nat
    BY Types, BoundsAssumption DEF Typed
  <1>3. {} \in SUBSET Input
    OBVIOUS
  <1>4. ServerIInv' /\ Gathers'
    BY <1>1, <1>2, <1>3, ArrivesTyped
  <1>5. new \in Tab /\ Waits(new)
    BY Types, NoCycleType DEF Typed, Tab, Waits, NoCycle
  <1>6. tab' = [tab EXCEPT ![t] = new]
    BY DEF AskPage
  <1>7. ClientTypeOK'
    <2> HIDE DEF new
    <2> QED BY <1>5, <1>6, CycleTyped DEF AskPage, Typed, TypeOK
  <1> QED
    BY <1>4, <1>7

LEMMA ApplyPageTyped ==
  ASSUME Typed, NEW t \in Tabs, ApplyPage(t)
  PROVE  ClientTypeOK' /\ ServerIInv' /\ Gathers'
  <1> DEFINE d == Dev(t)
             h == tab[t].request
             pages == tab[t].pages + 1
             Remote(i) == {c \in PageRows(h) : c.id = i}
             more == [NoCycle EXCEPT !.pc = "pull", !.since = PageCursor(h),
                                     !.pages = pages]
             new == IF HasMore(h) /\ pages < MaxPages THEN more ELSE NoCycle
  <1>0. h \in Handlers
    BY DEF ApplyPage, Typed, RequestsKnown, Waits
  <1>1. ServerIInv' /\ Gathers'
    BY <1>0, EndsTyped DEF ApplyPage
  <1>2. PageCursor(h) \in Nat /\ pages \in Nat /\ d \in Devices
    BY <1>0, PageCursorType, Types DEF Typed, Tab, ApplyPage
  <1>3. more \in Tab /\ Waits(more)
    <2> HIDE DEF pages
    <2> QED BY <1>2, NoCycleType DEF Tab, Waits, NoCycle
  <1>4. new \in Tab /\ Waits(new)
    <2> HIDE DEF more
    <2> QED BY <1>3, NoCycleType
  <1>5. tab' = [tab EXCEPT ![t] = new]
    BY DEF ApplyPage
  <1>6. cursor' \in [Devices -> Nat]
    BY <1>2 DEF ApplyPage, Typed, TypeOK
  <1>7. \A i \in Ids : \A c \in Remote(i) : FromWire(c.ver, c.body) \in LocalRow
    <2>1. PageRows(h) \subseteq Copy
      BY <1>0, LowestIsSubset, Types DEF PageRows, Typed, Handler
    <2> QED
      BY <2>1, FromWireType DEF Copy
  <1>8. \A i \in Ids :
          (IF Remote(i) = {} \/ KeepsLocal(local[d][i]) THEN local[d][i]
           ELSE LET c == CHOOSE c \in Remote(i) : TRUE
                IN  FromWire(c.ver, c.body)) \in LocalRow
    <2> SUFFICES ASSUME NEW i \in Ids, Remote(i) # {}
                 PROVE  LET c == CHOOSE c \in Remote(i) : TRUE
                        IN  FromWire(c.ver, c.body) \in LocalRow
      BY <1>2, Types DEF Typed
    <2>1. (CHOOSE c \in Remote(i) : TRUE) \in Remote(i)
      <3> HIDE DEF Remote
      <3> QED OBVIOUS
    <2> QED
      BY <1>7, <2>1
  <1>9. local' \in [Devices -> [Ids -> LocalRow]]
    BY <1>2, <1>8 DEF ApplyPage, Typed, TypeOK
  <1>10. ClientTypeOK'
    <2> HIDE DEF new
    <2> QED BY <1>4, <1>5, <1>6, <1>9, CycleTyped DEF ApplyPage, Typed, TypeOK
  <1> QED
    BY <1>1, <1>10

LEMMA GiveUpTyped ==
  ASSUME Typed, NEW t \in Tabs, GiveUp(t)
  PROVE  ClientTypeOK'
  BY NoCycleType, CycleTyped DEF GiveUp, Typed, TypeOK

\* A server that fails ends the cycles that wait for it.
LEMMA TabsEndTyped ==
  ASSUME Typed, Fault, NEW T,
         tab' = [t \in Tabs |-> IF t \in T THEN NoCycle ELSE tab[t]],
         UNCHANGED <<local, cursor, account, used, edits, noteEdits>>
  PROVE  ClientTypeOK'
  BY NoCycleType, FaultType DEF Typed, TypeOK, ClientTypeOK, RequestsKnown

LEMMA ServerErrorTyped ==
  ASSUME Typed, NEW h \in Handlers, ServerError(h)
  PROVE  ClientTypeOK' /\ ServerIInv' /\ Gathers'
  <1> DEFINE T == {t \in Tabs : tab[t].request = h}
  <1>1. tab' = [t \in Tabs |-> IF t \in T THEN NoCycle ELSE tab[t]]
    BY DEF ServerError
  <1> HIDE DEF T
  <1> QED
    BY <1>1, TabsEndTyped, EndsTyped DEF ServerError

LEMMA ServerRestartTyped ==
  ASSUME Typed, ServerRestart
  PROVE  ClientTypeOK' /\ ServerIInv' /\ Gathers'
  <1> DEFINE T == {t \in Tabs : tab[t].request # NoHandler}
  <1>1. tab' = [t \in Tabs |-> IF t \in T THEN NoCycle ELSE tab[t]]
    BY DEF ServerRestart
  <1> HIDE DEF T
  <1> QED
    BY <1>1, TabsEndTyped, EndsTyped DEF ServerRestart

LEMMA ClientSame ==
  ASSUME Typed, UNCHANGED <<local, cursor, tab, used, edits, noteEdits, faults>>,
         account' \in [Devices -> Users]
  PROVE  ClientTypeOK'
  BY DEF Typed, TypeOK, ClientTypeOK, RequestsKnown, Waits

LEMMA InitTyped == Init => Typed
  <1> SUFFICES ASSUME Init PROVE Typed
    OBVIOUS
  <1>1. ServerIInv
    BY ServerInitInv DEF Init
  <1>2. Gathers
    BY InitGathers DEF Init
  <1>3. Missing \in LocalRow
    BY BoundsAssumption DEF Missing, LocalRow
  <1>4. ClientTypeOK
    BY <1>3, NoCycleType, BoundsAssumption DEF Init, ClientTypeOK, RequestsKnown
  <1> QED
    BY <1>1, <1>2, <1>4, TypedParts

\* The devices' half of Next: what it leaves of the server, and what not.
LEMMA TypedStep == Typed /\ [Next]_vars => Typed'
  <1> SUFFICES ASSUME Typed, [Next]_vars
               PROVE  ClientTypeOK' /\ ServerIInv' /\ Gathers'
    BY DEF Typed, TypeOK, ClientTypeOK, ServerIInv
  <1>1. ASSUME NEW d \in Devices, NEW i \in Ids, Create(d, i) \/ Edit(d, i)
        PROVE  ClientTypeOK' /\ ServerIInv' /\ Gathers'
    BY <1>1, CreateTyped, EditTyped, ServerSame DEF Create, Edit
  <1>2. ASSUME NEW t \in Tabs, CycleStep(t)
        PROVE  ClientTypeOK' /\ ServerIInv' /\ Gathers'
    <2>1. CASE StartCycle(t)
      BY <2>1, StartCycleTyped, ServerSame DEF StartCycle
    <2>2. CASE ReceiveResults(t)
      BY <2>2, ReceiveResultsTyped
    <2>3. CASE ApplyResult(t)
      <3>1. UNCHANGED serverVars
        BY <2>3 DEF ApplyResult, ApplyAccepted, ApplyNoteConflict,
                    ApplyContainerConflict, ApplyForbidden
      <3> QED
        BY <2>3, <3>1, ApplyResultTyped, ServerSame
    <2>4. CASE ApplyPage(t)
      BY <2>4, ApplyPageTyped
    <2>5. ASSUME NEW h \in Handlers,
                 SendBatch(t, h) \/ AskFirstPage(t, h) \/ AskNextPage(t, h)
          PROVE  ClientTypeOK' /\ ServerIInv' /\ Gathers'
      <3>1. cursor[Dev(t)] \in Nat /\ tab[t].since \in Nat
        BY Types DEF Typed, TypeOK, Tab
      <3> QED
        BY <2>5, <3>1, SendBatchTyped, AskPageTyped DEF AskFirstPage, AskNextPage
    <2> QED
      BY <1>2, <2>1, <2>2, <2>3, <2>4, <2>5 DEF CycleStep
  <1>3. ASSUME NEW t \in Tabs, GiveUp(t)
        PROVE  ClientTypeOK' /\ ServerIInv' /\ Gathers'
    BY <1>3, GiveUpTyped, ServerSame DEF GiveUp
  <1>4. ASSUME NEW h \in Handlers, ServerStep(h)
        PROVE  ClientTypeOK' /\ ServerIInv' /\ Gathers'
    <2>1. UNCHANGED clientVars
      BY <1>4 DEF ServerStep, Cancel
    <2>2. ClientTypeOK'
      BY <2>1, ClientSame DEF clientVars, Typed, TypeOK
    <2> QED
      BY <1>4, <2>2, PushRowTyped, QueryTyped, EndsTyped DEF ServerStep, Cancel
  <1>5. ASSUME NEW h \in Handlers, ServerError(h)
        PROVE  ClientTypeOK' /\ ServerIInv' /\ Gathers'
    BY <1>5, ServerErrorTyped
  <1>6. CASE ServerRestart
    BY <1>6, ServerRestartTyped
  <1>7. ASSUME NEW d \in Devices, NEW u \in Users, SignInAs(d, u)
        PROVE  ClientTypeOK' /\ ServerIInv' /\ Gathers'
    <2>1. account' \in [Devices -> Users]
      BY <1>7 DEF SignInAs, Typed, TypeOK
    <2> QED
      BY <1>7, <2>1, ClientSame, ServerSame DEF SignInAs
  <1>8. CASE UNCHANGED vars
    BY <1>8, ClientSame, ServerSame DEF vars, clientVars, Typed, TypeOK
  <1> QED
    BY <1>1, <1>2, <1>3, <1>4, <1>5, <1>6, <1>7, <1>8 DEF Next

LEMMA TypedInvariant == Spec => []Typed
  BY InitTyped, TypedStep, PTL DEF Spec

\* Every variable keeps its type in every behaviour: in particular a page
\* always has a cursor, and a tab that waits for an answer waits for a request
\* of its own.
THEOREM TypeCorrect == Spec => []TypeOK
  <1>1. Typed => TypeOK
    BY DEF Typed
  <1> QED
    BY <1>1, TypedInvariant, PTL

\* With real devices as its clients the server keeps the promises its pages
\* and sequences make to any client: a page misses nothing but what is written
\* while it is being read, and its has_more is the truth.
THEOREM PagesStayComplete ==
  Spec => [](PageMissesOnlyConcurrentWrites /\ LastPageIsLast)
  <1>1. Typed => PageMissesOnlyConcurrentWrites /\ LastPageIsLast
    BY GatheredPagesAreComplete, GatheredLastPageIsLast DEF Typed
  <1> QED
    BY <1>1, TypedInvariant, PTL

-----------------------------------------------------------------------------

\* The instances the theorems are about.
OneTabEach == \A t, s \in Tabs : Dev(t) = Dev(s) => t = s
FineClock  == CoarseClock = FALSE

-----------------------------------------------------------------------------
(* The inductive invariant.                                                *)

\* A copy of what the server stored as version ver of row i.
Known(i, ver, body) ==
  /\ ver \in 1..rows[i].ver
  /\ ver = rows[i].ver => body = rows[i].body

\* The same, perhaps with edits added.
Based(i, ver, body) ==
  /\ ver <= rows[i].ver
  /\ ver = rows[i].ver => rows[i].body \subseteq body

ResultKnown(r) ==
  /\ r.status # "forbidden" => Known(r.id, r.ver, r.body)
  /\ r.status = "accepted" => r.body \subseteq rows[r.id].body

HandlerKnows(h) ==
  /\ \A in \in handler[h].todo : Based(in.id, in.ver, in.body)
  /\ \A r \in handler[h].results : ResultKnown(r)
  /\ \A c \in handler[h].got : Known(c.id, c.ver, c.body)

UnstoredEmpty == \A i \in Ids : ~Stored(i) => rows[i].body = {}

ServerKnows == UnstoredEmpty /\ \A h \in Handlers : HandlerKnows(h)

RowKnows(d, i) ==
  local[d][i].here =>
    /\ Based(i, local[d][i].ver, local[d][i].body)
    /\ local[d][i].dirty \/ Known(i, local[d][i].ver, local[d][i].body)

TabKnows(t) ==
  /\ \A s \in tab[t].queue : Based(s.id, s.ver, s.body)
  /\ \A r \in tab[t].results : ResultKnown(r)

DevicesKnow ==
  /\ \A d \in Devices, i \in Ids : RowKnows(d, i)
  /\ \A t \in Tabs : TabKnows(t)

\* The snapshots of a cycle whose answers are not applied yet.
Pending(t) ==
  tab[t].queue \cup
  {s \in tab[t].batch : tab[t].pc = "sent"
                        \/ \E r \in tab[t].results : r.id = s.id}

\* Until then the row is on the device, dirty, at the version it was sent
\* with, and has been edited only forwards; an unchanged stamp means it has
\* not been edited at all.
Held(d, s) ==
  LET row == local[d][s.id]
  IN  /\ row.here /\ row.dirty
      /\ row.ver = s.ver
      /\ s.body \subseteq row.body
      /\ row.stamp = s.stamp => row.body = s.body
      /\ s.stamp <= edits

SnapshotsHeld == \A t \in Tabs : \A s \in Pending(t) : Held(Dev(t), s)

\* An accepted answer is about the content that was sent.
Answers(results, batch) ==
  \A r \in results, s \in batch :
    r.id = s.id /\ r.status = "accepted" => r.body = s.body

\* A row is in a run once, is answered once and with what was sent.
Orderly(c) ==
  /\ \A s, q \in c.queue \cup c.batch : s.id = q.id => s = q
  /\ c.queue \cap c.batch = {}
  /\ \A r, q \in c.results : r.id = q.id => r = q
  /\ Answers(c.results, c.batch)

CyclesOrderly == \A t \in Tabs : Orderly(tab[t])

\* The handler of a push that is waited for works on that very batch.
Serves(h, batch) ==
  /\ handler[h].state = "push"
  /\ \A in, q \in handler[h].todo : in.id = q.id => in = q
  /\ \A r, q \in handler[h].results : r.id = q.id => r = q
  /\ \A in \in handler[h].todo, r \in handler[h].results : in.id # r.id
  /\ \A in \in handler[h].todo, s \in batch : in.id = s.id => in.body = s.body
  /\ Answers(handler[h].results, batch)

TabServed(t) ==
  /\ tab[t].pc = "sent" => tab[t].request \in Handlers
                           /\ Serves(tab[t].request, tab[t].batch)
  /\ tab[t].pc = "wait" => tab[t].request \in Handlers
                           /\ handler[tab[t].request].state = "pull"
  /\ tab[t].pc \notin {"sent", "wait"} => tab[t].request = NoHandler

RequestsServed ==
  \A t \in Tabs :
    /\ TabServed(t)
    /\ \A s \in Tabs \ {t} : tab[t].request # NoHandler
                               => tab[s].request # tab[t].request

\* An id that was never handed out is nowhere.
Fresh ==
  \A i \in Ids \ used :
    /\ ~Stored(i)
    /\ \A d \in Devices : ~local[d][i].here
    /\ \A h \in Handlers : \A in \in handler[h].todo : in.id # i

\* Where the edit of a note may be: stored, or dirty on a device.
Kept(e, i) ==
  \/ e \in rows[i].body
  \/ \E d \in Devices : /\ local[d][i].here
                        /\ local[d][i].dirty
                        /\ e \in local[d][i].body

NotesKept ==
  \A e \in noteEdits : \E i \in Ids : KindOf[i] = "note" /\ Kept(e, i)

\* No stamp is of an edit still to be made.
StampsPast == \A d \in Devices, i \in Ids : local[d][i].stamp <= edits

IInv ==
  /\ ServerKnows
  /\ DevicesKnow
  /\ StampsPast
  /\ SnapshotsHeld
  /\ CyclesOrderly
  /\ RequestsServed
  /\ Fresh
  /\ NotesKept

-----------------------------------------------------------------------------
(* Writes only add.                                                        *)

\* What any step does to the tables.
Grows ==
  \A i \in Ids : /\ rows[i].body \subseteq rows'[i].body
                 /\ rows[i].ver <= rows'[i].ver
                 /\ rows'[i].ver = rows[i].ver => rows'[i] = rows[i]

LEMMA SameGrows == TypeOK /\ UNCHANGED rows => Grows
  BY Types DEF Grows, Row

LEMMA CopiesStay ==
  ASSUME TypeOK, TypeOK', Grows
  PROVE  \A i \in Ids :
           /\ \A v, b : Known(i, v, b) => Known(i, v, b)'
           /\ \A v \in Nat : \A b : Based(i, v, b) => Based(i, v, b)'
  <1>1. \A i \in Ids : rows[i].ver \in Nat /\ rows'[i].ver \in Nat
    BY DEF TypeOK, ServerTypeOK, Row
  <1> QED
    BY <1>1 DEF Known, Based, Grows

LEMMA ResultKnownStays ==
  ASSUME TypeOK, TypeOK', Grows
  PROVE  \A r \in Result : ResultKnown(r) => ResultKnown(r)'
  <1> SUFFICES ASSUME NEW r \in Result, ResultKnown(r) PROVE ResultKnown(r)'
    OBVIOUS
  <1>1. r.id \in Ids
    BY DEF Result
  <1> QED
    BY <1>1, CopiesStay DEF ResultKnown, Grows

\* Copies that stay, stay true; T, R and G are what a step adds to a handler.
LEMMA HandlerKnowsStays ==
  ASSUME NEW h \in Handlers, TypeOK, TypeOK', Grows, HandlerKnows(h),
         NEW T, NEW R, NEW G,
         handler'[h].todo \subseteq handler[h].todo \cup T,
         handler'[h].results \subseteq handler[h].results \cup R,
         handler'[h].got \subseteq handler[h].got \cup G,
         \A in \in T : Based(in.id, in.ver, in.body)',
         \A r \in R : ResultKnown(r)',
         \A c \in G : Known(c.id, c.ver, c.body)'
  PROVE  HandlerKnows(h)'
  <1>1. /\ handler[h].todo \subseteq Input
        /\ handler[h].results \subseteq Result
        /\ handler[h].got \subseteq Copy
    BY Types DEF Handler
  <1>2. ASSUME NEW in \in handler[h].todo PROVE Based(in.id, in.ver, in.body)'
    <2>1. in.id \in Ids /\ in.ver \in Nat
      BY <1>1 DEF Input
    <2> QED
      BY <2>1, CopiesStay DEF HandlerKnows
  <1>3. ASSUME NEW r \in handler[h].results PROVE ResultKnown(r)'
    BY <1>1, ResultKnownStays DEF HandlerKnows
  <1>4. ASSUME NEW c \in handler[h].got PROVE Known(c.id, c.ver, c.body)'
    <2>1. c.id \in Ids
      BY <1>1 DEF Copy
    <2> QED
      BY <2>1, CopiesStay DEF HandlerKnows
  <1> QED
    BY <1>2, <1>3, <1>4 DEF HandlerKnows

\* The same for the row of a device and for the cycle of a tab.
LEMMA RowKnowsStays ==
  ASSUME NEW d \in Devices, NEW i \in Ids, TypeOK, TypeOK', Grows,
         RowKnows(d, i), local'[d][i] = local[d][i]
  PROVE  RowKnows(d, i)'
  <1>1. local[d][i].ver \in Nat
    BY Types DEF LocalRow
  <1> QED
    BY <1>1, CopiesStay DEF RowKnows, Known, Based

LEMMA TabKnowsStays ==
  ASSUME NEW t \in Tabs, TypeOK, TypeOK', Grows, TabKnows(t),
         tab'[t].queue \subseteq tab[t].queue,
         tab'[t].results \subseteq tab[t].results
  PROVE  TabKnows(t)'
  <1>1. tab[t].queue \subseteq Snapshot /\ tab[t].results \subseteq Result
    BY Types DEF Tab
  <1>2. ASSUME NEW s \in tab[t].queue PROVE Based(s.id, s.ver, s.body)'
    <2>1. s.id \in Ids /\ s.ver \in Nat
      BY <1>1 DEF Snapshot
    <2> QED
      BY <2>1, CopiesStay DEF TabKnows
  <1>3. ASSUME NEW r \in tab[t].results PROVE ResultKnown(r)'
    BY <1>1, ResultKnownStays DEF TabKnows
  <1> QED
    BY <1>2, <1>3 DEF TabKnows

LEMMA DevicesKnowStays ==
  ASSUME TypeOK, TypeOK', Grows, DevicesKnow, UNCHANGED <<local, tab>>
  PROVE  DevicesKnow'
  BY RowKnowsStays, TabKnowsStays DEF DevicesKnow

LEMMA NotesKeptStays ==
  ASSUME Grows, NotesKept, UNCHANGED <<local, noteEdits>>
  PROVE  NotesKept'
  BY DEF Grows, NotesKept, Kept

-----------------------------------------------------------------------------
(* Requests.                                                               *)

\* Only the handlers in H and the tabs in T change, nobody else's requests
\* are among H, and the tabs in T are served afterwards.
LEMMA ServedStays ==
  ASSUME NEW H, NEW t \in Tabs, TypeOK, RequestsServed,
         \A g \in Handlers \ H : handler'[g] = handler[g],
         tab'[t] = tab[t], tab[t].request \notin H
  PROVE  TabServed(t)'
  <1>1. CASE tab[t].pc \in {"sent", "wait"}
    <2>1. tab[t].request \in Handlers
      BY <1>1 DEF RequestsServed, TabServed
    <2>2. handler'[tab[t].request] = handler[tab[t].request]
      BY <2>1
    <2>3. tab'[t].request = tab[t].request /\ tab'[t].batch = tab[t].batch
      OBVIOUS
    <2>4. tab[t].pc = "sent" => Serves(tab[t].request, tab[t].batch)
      BY DEF RequestsServed, TabServed
    <2>5. tab[t].pc = "sent" => Serves(tab[t].request, tab[t].batch)'
      BY <2>2, <2>3, <2>4 DEF Serves, Answers
    <2> QED
      BY <1>1, <2>1, <2>2, <2>3, <2>5 DEF RequestsServed, TabServed
  <1>2. CASE tab[t].pc \notin {"sent", "wait"}
    BY <1>2 DEF RequestsServed, TabServed
  <1> QED
    BY <1>1, <1>2

LEMMA RequestsStay ==
  ASSUME NEW H, NEW T \in SUBSET Tabs, TypeOK, RequestsServed,
         \A g \in Handlers \ H : handler'[g] = handler[g],
         \A s \in Tabs \ T : tab'[s] = tab[s] /\ tab[s].request \notin H,
         \A s \in T : TabServed(s)',
         \A s \in T : \/ tab'[s].request = NoHandler
                      \/ /\ tab'[s].request \in H
                         /\ T = {s}
  PROVE  RequestsServed'
  <1>1. \A s \in Tabs : TabServed(s)'
    BY ServedStays
  <1>2. ASSUME NEW t \in Tabs, NEW s \in Tabs \ {t}, tab'[t].request # NoHandler
        PROVE  tab'[s].request # tab'[t].request
    <2>1. CASE t \notin T /\ s \notin T
      BY <1>2, <2>1 DEF RequestsServed
    <2>2. CASE t \in T
      BY <1>2, <2>2
    <2>3. CASE t \notin T /\ s \in T
      BY <1>2, <2>3
    <2> QED
      BY <2>1, <2>2, <2>3
  <1> QED
    BY <1>1, <1>2 DEF RequestsServed, TabServed

-----------------------------------------------------------------------------
(* The server's steps.                                                     *)

LEMMA SameServer ==
  ASSUME Typed, Typed', ServerKnows, UNCHANGED serverVars
  PROVE  ServerKnows' /\ Grows
  <1>1. Grows
    BY SameGrows DEF Typed, serverVars
  <1> QED
    BY <1>1 DEF serverVars, ServerKnows, UnstoredEmpty, HandlerKnows,
       ResultKnown, Known, Based, Stored

LEMMA SameClient ==
  ASSUME UNCHANGED clientVars, StampsPast, SnapshotsHeld, CyclesOrderly
  PROVE  StampsPast' /\ SnapshotsHeld' /\ CyclesOrderly'
  BY DEF clientVars, StampsPast, SnapshotsHeld, Pending, Held, CyclesOrderly

\* One row of a push is answered, and perhaps written.
LEMMA AnswerInv ==
  ASSUME NEW h \in Handlers, NEW in \in handler[h].todo, NEW result \in Result,
         Typed, Typed', IInv, handler[h].state = "push",
         Answer(h, in, result), result.id = in.id,
         result.status = "accepted" => result.body = in.body,
         ResultKnown(result)',
         Grows, UnstoredEmpty', \A i \in Ids \ {in.id} : rows'[i] = rows[i],
         UNCHANGED clientVars
  PROVE  IInv'
  <1>1. TypeOK /\ TypeOK' /\ in.id \in Ids
    BY Types DEF Typed, Handler, Input
  <1>2. /\ handler'[h].state = "push"
        /\ handler'[h].todo = handler[h].todo \ {in}
        /\ handler'[h].results = handler[h].results \cup {result}
        /\ handler'[h].got = handler[h].got
        /\ \A g \in Handlers \ {h} : handler'[g] = handler[g]
    BY <1>1, Types DEF Answer, Handler, TypeOK, ServerTypeOK
  <1>3. ServerKnows'
    <2>1. ASSUME NEW g \in Handlers \ {h} PROVE HandlerKnows(g)'
      <3>1. HandlerKnows(g) /\ handler'[g] = handler[g]
        BY <1>2 DEF IInv, ServerKnows
      <3> DEFINE none == {}
      <3>2. /\ handler'[g].todo \subseteq handler[g].todo \cup none
            /\ handler'[g].results \subseteq handler[g].results \cup none
            /\ handler'[g].got \subseteq handler[g].got \cup none
        BY <3>1
      <3>3. \A x \in none : FALSE
        OBVIOUS
      <3> HIDE DEF none
      <3> QED
        BY <1>1, <3>1, <3>2, <3>3, HandlerKnowsStays
    <2>2. HandlerKnows(h)'
      <3>1. HandlerKnows(h)
        BY DEF IInv, ServerKnows
      <3> DEFINE none == {}
                 R == {result}
      <3>2. /\ handler'[h].todo \subseteq handler[h].todo \cup none
            /\ handler'[h].results \subseteq handler[h].results \cup R
            /\ handler'[h].got \subseteq handler[h].got \cup none
        BY <1>2
      <3>3. \A x \in none : FALSE
        OBVIOUS
      <3>4. \A r \in R : ResultKnown(r)'
        OBVIOUS
      <3> HIDE DEF none, R
      <3> QED
        BY <1>1, <3>1, <3>2, <3>3, <3>4, HandlerKnowsStays
    <2> QED
      BY <2>1, <2>2 DEF ServerKnows
  <1>4. DevicesKnow' /\ NotesKept'
    BY <1>1, DevicesKnowStays, NotesKeptStays DEF IInv, clientVars
  <1>5. StampsPast' /\ SnapshotsHeld' /\ CyclesOrderly'
    BY SameClient DEF IInv
  <1>6. RequestsServed'
    <2> DEFINE H == {h}
               T == {t \in Tabs : tab[t].request = h}
    <2>1. UNCHANGED tab
      BY DEF clientVars
    <2>2. ASSUME NEW t \in Tabs, tab[t].request = h
          PROVE  TabServed(t)'
      <3>1. tab[t].pc = "sent" /\ Serves(h, tab[t].batch)
        BY <2>2, DevicesAssumption DEF IInv, RequestsServed, TabServed
      <3>2. Serves(h, tab[t].batch)'
        BY <1>2, <2>1, <3>1 DEF Serves, Answers
      <3> QED
        BY <2>1, <2>2, <3>1, <3>2 DEF TabServed
    <2>3. \A t \in Tabs \ T : TabServed(t)'
      <3>1. \A g \in Handlers \ H : handler'[g] = handler[g]
        BY <1>2
      <3>2. \A t \in Tabs \ T : tab[t].request \notin H /\ tab'[t] = tab[t]
        BY <2>1
      <3>3. RequestsServed
        BY DEF IInv
      <3> HIDE DEF H, T
      <3> QED
        BY <1>1, <3>1, <3>2, <3>3, ServedStays
    <2> QED
      BY <2>1, <2>2, <2>3 DEF IInv, RequestsServed
  <1>7. Fresh'
    <2>1. in.id \in used
      BY <1>1 DEF IInv, Fresh
    <2>2. \A g \in Handlers : handler'[g].todo \subseteq handler[g].todo
      BY <1>2
    <2> QED
      BY <2>1, <2>2 DEF IInv, Fresh, Stored, clientVars
  <1> QED
    BY <1>3, <1>4, <1>5, <1>6, <1>7 DEF IInv

\* The write adds: it is made over the stored version, by somebody who has
\* all of that version, or over nothing.
LEMMA UpsertGrows ==
  ASSUME NEW h \in Handlers, NEW in \in handler[h].todo,
         Typed, IInv, UpsertAccepted(h, in)
  PROVE  Grows
  <1> DEFINE i == in.id
  <1>1. /\ i \in Ids /\ rows[i].ver \in Nat
        /\ rows'[i].ver = rows[i].ver + 1
        /\ rows'[i].body = in.body
        /\ Stored(i) => rows[i].owner = handler[h].user
        /\ \A j \in Ids \ {i} : rows'[j] = rows[j]
    BY UpsertWrites DEF Typed
  <1>2. rows[i].body \subseteq in.body
    <2>1. Based(i, in.ver, in.body)
      BY DEF IInv, ServerKnows, HandlerKnows
    <2>2. CASE Stored(i)
      BY <1>1, <2>1, <2>2 DEF UpsertAccepted, IsConflict, Based
    <2>3. CASE ~Stored(i)
      BY <1>1, <2>3 DEF IInv, ServerKnows, UnstoredEmpty
    <2> QED
      BY <2>2, <2>3
  <1>3. \A j \in Ids : rows[j].ver \in Nat
    BY Types DEF Typed
  <1> QED
    BY <1>1, <1>2, <1>3 DEF Grows

LEMMA UpsertAcceptedClientInv ==
  ASSUME NEW h \in Handlers, NEW in \in handler[h].todo,
         Typed, Typed', IInv, UpsertAccepted(h, in), UNCHANGED clientVars
  PROVE  IInv'
  <1> DEFINE i == in.id
  <1> PICK result : result = [id |-> i, status |-> "accepted",
                              ver |-> rows[i].ver + 1, body |-> in.body]
    OBVIOUS
  <1>1. /\ i \in Ids /\ rows[i].ver \in Nat
        /\ rows'[i].ver = rows[i].ver + 1
        /\ rows'[i].body = in.body
        /\ \A j \in Ids \ {i} : rows'[j] = rows[j]
    BY UpsertWrites DEF Typed
  <1>2. handler[h].state = "push" /\ Answer(h, in, result)
    BY DEF UpsertAccepted, IsNext
  <1>3. Grows
    BY UpsertGrows
  <1>4. UnstoredEmpty'
    BY <1>1 DEF IInv, ServerKnows, UnstoredEmpty, Stored
  <1>5. result \in Result
    BY <1>1, Types DEF Typed, Handler, Input, Result
  <1>6. ResultKnown(result)'
    BY <1>1 DEF ResultKnown, Known
  <1>7. result.id = i /\ result.body = in.body
    OBVIOUS
  <1> QED
    BY <1>1, <1>2, <1>3, <1>4, <1>5, <1>6, <1>7, AnswerInv

LEMMA UpsertRefusedInv ==
  ASSUME NEW h \in Handlers, NEW in \in handler[h].todo,
         Typed, Typed', IInv, UNCHANGED clientVars,
         UpsertConflict(h, in) \/ UpsertForbidden(h, in)
  PROVE  IInv'
  <1>1. handler[h].state = "push" /\ UNCHANGED rows
    BY DEF UpsertConflict, UpsertForbidden, IsNext
  <1>2. Grows /\ UnstoredEmpty'
    BY <1>1, SameGrows DEF Typed, IInv, ServerKnows, UnstoredEmpty, Stored
  <1>3. in.id \in Ids /\ rows[in.id].ver \in Nat
    BY Types DEF Typed, Handler, Input
  <1>4. CASE UpsertConflict(h, in)
    <2> PICK result : result = ServerCopy(in.id, "conflict")
      OBVIOUS
    <2>1. result \in Result
      BY <1>3, ServerCopyType DEF Typed, ServerIInv
    <2>2. ResultKnown(result)'
      BY <1>1, <1>3, <1>4 DEF ResultKnown, Known, ServerCopy, UpsertConflict,
                              IsConflict, Stored
    <2>3. result.id = in.id /\ result.status # "accepted"
      BY DEF ServerCopy
    <2>4. Answer(h, in, result)
      BY <1>4 DEF UpsertConflict
    <2> QED
      BY <1>1, <1>2, <2>1, <2>2, <2>3, <2>4, AnswerInv
  <1>5. CASE UpsertForbidden(h, in)
    <2> PICK result : result = [id |-> in.id, status |-> "forbidden", ver |-> 0,
                                body |-> NoBody]
      OBVIOUS
    <2>1. result \in Result
      BY <1>3 DEF Result
    <2>2. ResultKnown(result)'
      BY DEF ResultKnown
    <2>3. result.id = in.id /\ result.status # "accepted"
      OBVIOUS
    <2>4. Answer(h, in, result)
      BY <1>5 DEF UpsertForbidden
    <2> QED
      BY <1>1, <1>2, <2>1, <2>2, <2>3, <2>4, AnswerInv
  <1> QED
    BY <1>4, <1>5

\* A query returns rows as they are.
LEMMA QueryClientInv ==
  ASSUME NEW h \in Handlers, Typed, Typed', IInv, Query(h), UNCHANGED clientVars
  PROVE  IInv'
  <1>1. PICK k \in Kinds : ReadTable(h, k)
    BY DEF Query
  <1> DEFINE hd == handler[h]
             S  == Since(hd.user, k, hd.since)
  <1>2. TypeOK /\ TypeOK' /\ UNCHANGED rows
    BY <1>1 DEF Typed, ReadTable
  <1>3. /\ hd.state = "pull" /\ hd.user \in Users
        /\ handler'[h].state = "pull"
        /\ handler'[h].todo = hd.todo
        /\ handler'[h].results = hd.results
        /\ handler'[h].got = hd.got \cup Lowest(S, hd.limit + 1)
        /\ \A g \in Handlers \ {h} : handler'[g] = handler[g]
    <2> HIDE DEF S
    <2> QED
      BY <1>1, Types DEF ReadTable, Handler, Typed, TypeOK, ServerTypeOK,
                         ServerIInv, HandlersHaveUsers, S
  <1>4. Grows
    BY <1>2, SameGrows
  <1>5. \A c \in S : Known(c.id, c.ver, c.body)
    <2>1. \A i \in Ids : rows[i].owner = hd.user => Stored(i)
      BY <1>3, UsersAssumption DEF Typed, ServerIInv, OwnersKnown
    <2> QED
      BY <1>2, <2>1, Types DEF Since, Known, Stored
  <1>6. ServerKnows'
    <2>1. ASSUME NEW c \in handler'[h].got PROVE Known(c.id, c.ver, c.body)'
      <3>1. c \in hd.got \/ c \in S
        <4> HIDE DEF S
        <4> QED BY <1>3, LowestIsSubset
      <3>2. Known(c.id, c.ver, c.body)
        BY <1>5, <3>1 DEF IInv, ServerKnows, HandlerKnows
      <3> QED
        BY <1>2, <3>2 DEF Known
    <2>2. HandlerKnows(h)'
      BY <1>2, <1>3, <2>1 DEF IInv, ServerKnows, HandlerKnows, ResultKnown,
                              Known, Based
    <2>3. \A g \in Handlers \ {h} : HandlerKnows(g)'
      BY <1>2, <1>3 DEF IInv, ServerKnows, HandlerKnows, ResultKnown, Known, Based
    <2> QED
      BY <1>2, <2>2, <2>3 DEF IInv, ServerKnows, UnstoredEmpty, Stored
  <1>7. DevicesKnow' /\ NotesKept'
    BY <1>2, <1>4, DevicesKnowStays, NotesKeptStays DEF IInv, clientVars
  <1>8. StampsPast' /\ SnapshotsHeld' /\ CyclesOrderly'
    BY SameClient DEF IInv
  <1>9. RequestsServed'
    <2>1. UNCHANGED tab
      BY DEF clientVars
    <2>2. ASSUME NEW t \in Tabs PROVE TabServed(t)'
      <3>1. TabServed(t)
        BY DEF IInv, RequestsServed
      <3>2. CASE tab[t].pc = "sent"
        <4>1. Serves(tab[t].request, tab[t].batch) /\ tab[t].request # h
          BY <1>3, <3>1, <3>2 DEF TabServed, Serves
        <4>2. Serves(tab[t].request, tab[t].batch)'
          BY <1>3, <2>1, <3>1, <3>2, <4>1 DEF TabServed, Serves, Answers
        <4> QED
          BY <2>1, <3>1, <3>2, <4>2 DEF TabServed
      <3>3. CASE tab[t].pc # "sent"
        BY <1>3, <2>1, <3>1, <3>3 DEF TabServed
      <3> QED
        BY <3>2, <3>3
    <2> QED
      BY <2>1, <2>2 DEF IInv, RequestsServed
  <1>10. Fresh'
    BY <1>2, <1>3 DEF IInv, Fresh, Stored, clientVars
  <1> QED
    BY <1>6, <1>7, <1>8, <1>9, <1>10 DEF IInv

-----------------------------------------------------------------------------
(* Cycles.                                                                 *)

\* Handlers that take a request or are done with one.
LEMMA TurnsKnow ==
  ASSUME Typed, ServerKnows, UNCHANGED rows,
         NEW H, NEW new, new.results = {}, new.got = {},
         \A in \in new.todo : Based(in.id, in.ver, in.body),
         \A g \in Handlers : handler'[g] = IF g \in H THEN new ELSE handler[g]
  PROVE  ServerKnows'
  <1>1. ASSUME NEW g \in Handlers PROVE HandlerKnows(g)'
    <2>1. CASE g \in H
      BY <2>1 DEF HandlerKnows, Based
    <2>2. CASE g \notin H
      BY <2>2 DEF ServerKnows, HandlerKnows, ResultKnown, Known, Based
    <2> QED
      BY <2>1, <2>2
  <1> QED
    BY <1>1 DEF ServerKnows, UnstoredEmpty, Stored

LEMMA PendingType ==
  ASSUME TypeOK, NEW t \in Tabs
  PROVE  Pending(t) \subseteq Snapshot
  BY Types DEF Pending, Tab

\* A step that writes neither a device nor the server.
LEMMA TabsInv ==
  ASSUME Typed, IInv, UNCHANGED <<rows, local, used, edits, noteEdits>>,
         ServerKnows', RequestsServed',
         \A t \in Tabs : TabKnows(t)' /\ Orderly(tab'[t]),
         \A t \in Tabs : \A s \in Pending(t)' : Held(Dev(t), s),
         \A h \in Handlers : \A in \in handler'[h].todo : in.id \in used
  PROVE  IInv'
  <1>1. DevicesKnow'
    BY DEF IInv, DevicesKnow, RowKnows, Known, Based
  <1>2. SnapshotsHeld'
    BY DEF SnapshotsHeld, Held
  <1>3. StampsPast' /\ CyclesOrderly' /\ NotesKept'
    BY DEF IInv, StampsPast, CyclesOrderly, NotesKept, Kept
  <1>4. Fresh'
    BY DEF IInv, Fresh, Stored
  <1> QED
    BY <1>1, <1>2, <1>3, <1>4 DEF IInv

\* One tab of them.
LEMMA OneTabInv ==
  ASSUME Typed, IInv, UNCHANGED <<rows, local, used, edits, noteEdits>>,
         NEW t \in Tabs, NEW new,
         tab' = [tab EXCEPT ![t] = new],
         \A s \in new.queue : Based(s.id, s.ver, s.body),
         \A r \in new.results : ResultKnown(r),
         \A s \in Pending(t)' : Held(Dev(t), s),
         Orderly(new),
         ServerKnows', RequestsServed',
         \A h \in Handlers : \A in \in handler'[h].todo : in.id \in used
  PROVE  IInv'
  <1>1. \A s \in Tabs : tab'[s] = IF s = t THEN new ELSE tab[s]
    BY DEF Typed, TypeOK
  <1>2. \A s \in Tabs \ {t} : TabKnows(s)' /\ Orderly(tab'[s])
    BY <1>1 DEF IInv, DevicesKnow, TabKnows, CyclesOrderly, ResultKnown, Known, Based
  <1>3. TabKnows(t)' /\ Orderly(tab'[t])
    BY <1>1 DEF TabKnows, ResultKnown, Known, Based
  <1>4. \A s \in Tabs \ {t} : Pending(s)' = Pending(s)
    BY <1>1 DEF Pending
  <1>5. \A s \in Tabs : \A q \in Pending(s)' : Held(Dev(s), q)
    BY <1>4 DEF IInv, SnapshotsHeld
  <1> QED
    BY <1>2, <1>3, <1>5, TabsInv

LEMMA NoCycleOrderly ==
  /\ Orderly(NoCycle)
  /\ NoCycle.queue = {} /\ NoCycle.batch = {} /\ NoCycle.results = {}
  /\ NoCycle.pc = "idle" /\ NoCycle.request = NoHandler
  BY DEF NoCycle, Orderly, Answers

LEMMA TodoUsed ==
  ASSUME Typed, IInv, UNCHANGED used,
         \A h \in Handlers : handler'[h].todo \subseteq handler[h].todo
  PROVE  \A h \in Handlers : \A in \in handler'[h].todo : in.id \in used
  <1>1. \A h \in Handlers : \A in \in handler[h].todo : in.id \in Ids
    BY Types DEF Typed, Handler, Input
  <1> QED
    BY <1>1 DEF IInv, Fresh

LEMMA StartCycleInv ==
  ASSUME Typed, IInv, NEW t \in Tabs, StartCycle(t)
  PROVE  IInv'
  <1> DEFINE d == Dev(t)
             new == [NoCycle EXCEPT !.pc = "push", !.queue = DirtyRows(d)]
  <1>1. d \in Devices /\ TypeOK
    BY Types DEF Typed
  <1>2. /\ new.queue = DirtyRows(d) /\ new.batch = {} /\ new.results = {}
        /\ new.pc = "push" /\ new.request = NoHandler
    BY DEF NoCycle
  <1>3. tab' = [tab EXCEPT ![t] = new]
    BY DEF StartCycle
  <1> HIDE DEF new
  <1>4. tab'[t] = new /\ \A s \in Tabs \ {t} : tab'[s] = tab[s]
    BY <1>1, <1>3 DEF TypeOK
  <1>5. \A s \in DirtyRows(d) : Held(d, s) /\ Based(s.id, s.ver, s.body)
    BY <1>1, Types DEF DirtyRows, Held, IInv, DevicesKnow, RowKnows, StampsPast
  <1>6. Pending(t)' = DirtyRows(d)
    BY <1>2, <1>4 DEF Pending
  <1>7. Orderly(new)
    BY <1>2 DEF Orderly, Answers, DirtyRows
  <1>8. ServerKnows'
    BY SameServer DEF StartCycle, IInv, serverVars, ServerKnows, UnstoredEmpty,
       HandlerKnows, ResultKnown, Known, Based, Stored
  <1>9. RequestsServed'
    <2>1. tab[t].request = NoHandler
      BY DEF StartCycle, IInv, RequestsServed, TabServed
    <2>2. UNCHANGED handler
      BY DEF StartCycle, serverVars
    <2>3. TabServed(t)'
      BY <1>2, <1>4 DEF TabServed
    <2>4. \A s \in Tabs \ {t} : TabServed(s)'
      BY <1>4, <2>2 DEF IInv, RequestsServed, TabServed, Serves, Answers
    <2> QED
      BY <1>2, <1>4, <2>1, <2>3, <2>4 DEF IInv, RequestsServed
  <1>10. \A h \in Handlers : \A in \in handler'[h].todo : in.id \in used
    BY TodoUsed DEF StartCycle, serverVars
  <1> QED
    BY <1>2, <1>3, <1>5, <1>6, <1>7, <1>8, <1>9, <1>10, OneTabInv
    DEF StartCycle, serverVars

\* The handler a request goes to was free, so nobody waits for it yet.
LEMMA FreeIsUnheard ==
  ASSUME IInv, NEW h \in Handlers, handler[h].state = "free", NEW t \in Tabs
  PROVE  tab[t].request # h
  BY DevicesAssumption DEF IInv, RequestsServed, TabServed, Serves

LEMMA SendBatchInv ==
  ASSUME Typed, IInv, NEW t \in Tabs, NEW h \in Handlers, SendBatch(t, h)
  PROVE  IInv'
  <1> PICK batch : batch = NextBatch(tab[t].queue)
    OBVIOUS
  <1> DEFINE cyc   == tab[t]
             sent  == {[id |-> s.id, ver |-> s.ver, body |-> s.body] : s \in batch}
             new   == [cyc EXCEPT !.pc = "sent", !.queue = @ \ batch,
                                  !.batch = batch, !.request = h]
             hd    == [Idle EXCEPT !.state = "push", !.user = account[Dev(t)],
                                   !.todo = sent]
  <1>1. TypeOK /\ cyc \in Tab /\ cyc.results = {} /\ cyc.pc = "push"
    BY Types DEF Typed, SendBatch
  <1>2. batch \subseteq cyc.queue
    BY DEF NextBatch
  <1>3. /\ new.queue = cyc.queue \ batch /\ new.batch = batch
        /\ new.results = {} /\ new.pc = "sent" /\ new.request = h
    BY <1>1 DEF Tab
  <1>4. /\ hd.state = "push" /\ hd.todo = sent
        /\ hd.results = {} /\ hd.got = {}
    BY DEF Idle
  <1>5. /\ tab' = [tab EXCEPT ![t] = new]
        /\ handler[h].state = "free"
        /\ handler' = [handler EXCEPT ![h] = hd]
        /\ UNCHANGED <<rows, local, used, edits, noteEdits>>
    BY DEF SendBatch, PushArrives
  <1> HIDE DEF new, hd
  <1>6. /\ tab'[t] = new /\ \A s \in Tabs \ {t} : tab'[s] = tab[s]
        /\ handler'[h] = hd /\ \A g \in Handlers \ {h} : handler'[g] = handler[g]
    BY <1>1, <1>5 DEF TypeOK, ServerTypeOK
  <1>7. \A s \in cyc.queue : /\ Held(Dev(t), s)
                             /\ Based(s.id, s.ver, s.body)
                             /\ s.id \in Ids
    BY <1>1, Types DEF IInv, SnapshotsHeld, Pending, DevicesKnow, TabKnows, Tab, Snapshot
  <1>8. Pending(t)' \subseteq cyc.queue
    BY <1>2, <1>3, <1>6 DEF Pending
  <1>9. \A s, q \in cyc.queue : s.id = q.id => s = q
    BY DEF IInv, CyclesOrderly, Orderly
  <1>10. Orderly(new)
    BY <1>2, <1>3, <1>9 DEF Orderly, Answers
  <1>11. ServerKnows'
    <2>1. \A in \in hd.todo : Based(in.id, in.ver, in.body)
      BY <1>2, <1>4, <1>7
    <2> DEFINE H == {h}
    <2>2. \A g \in Handlers : handler'[g] = IF g \in H THEN hd ELSE handler[g]
      BY <1>6
    <2>3. ServerKnows
      BY DEF IInv
    <2> HIDE DEF H, sent
    <2> QED
      BY <1>4, <1>5, <2>1, <2>2, <2>3, TurnsKnow
  <1>12. RequestsServed'
    <2> DEFINE H == {h}
               T == {t}
    <2>1. \A g \in Handlers \ H : handler'[g] = handler[g]
      BY <1>6
    <2>2. \A s \in Tabs \ T : tab'[s] = tab[s] /\ tab[s].request \notin H
      BY <1>5, <1>6, FreeIsUnheard
    <2>3. Serves(h, batch)'
      <3>1. \A s, q \in batch : s.id = q.id => s = q
        BY <1>2, <1>9
      <3>2. \A in, q \in sent : in.id = q.id => in = q
        BY <3>1
      <3>3. \A in \in sent, s \in batch : in.id = s.id => in.body = s.body
        BY <3>1
      <3> HIDE DEF sent
      <3> QED
        BY <1>4, <1>6, <3>2, <3>3 DEF Serves, Answers
    <2>4. TabServed(t)'
      BY <1>3, <1>6, <2>3 DEF TabServed
    <2>5. RequestsServed
      BY DEF IInv
    <2>6. \A s \in T : tab'[s].request \in H /\ T = {s} /\ TabServed(s)'
      BY <1>3, <1>6, <2>4
    <2>7. T \in SUBSET Tabs
      OBVIOUS
    <2> HIDE DEF H, T
    <2> QED
      BY <1>1, <2>1, <2>2, <2>5, <2>6, <2>7, RequestsStay
  <1>13. \A g \in Handlers : \A in \in handler'[g].todo : in.id \in used
    <2>1. \A g \in Handlers : \A in \in handler[g].todo : in.id \in used
      BY <1>1, Types DEF IInv, Fresh, Handler, Input
    <2>2. \A s \in cyc.queue : s.id \in used
      BY <1>7, Types DEF IInv, Fresh, Held, Typed
    <2> QED
      BY <1>2, <1>4, <1>6, <2>1, <2>2
  <1>14. \A s \in new.queue : Based(s.id, s.ver, s.body)
    BY <1>3, <1>7
  <1>15. \A s \in Pending(t)' : Held(Dev(t), s)
    BY <1>7, <1>8
  <1> QED
    BY <1>3, <1>5, <1>10, <1>11, <1>12, <1>13, <1>14, <1>15, OneTabInv

\* A tab hears the answer it waits for, asks for a page, or stops: the other
\* tabs and their requests are not concerned.
LEMMA EndKnows ==
  ASSUME Typed, ServerKnows, NEW h \in Handlers, Respond(h) \/ HandlerFails(h)
  PROVE  /\ ServerKnows'
         /\ handler'[h] = Idle
         /\ \A g \in Handlers \ {h} : handler'[g] = handler[g]
         /\ \A g \in Handlers : handler'[g].todo \subseteq handler[g].todo
         /\ UNCHANGED rows
  <1>1. /\ Idle.todo = {} /\ Idle.results = {} /\ Idle.got = {}
        /\ UNCHANGED rows
    BY DEF Idle, Respond, HandlerFails
  <1> DEFINE H == {h}
  <1>2. \A g \in Handlers : handler'[g] = IF g \in H THEN Idle ELSE handler[g]
    BY DEF Respond, HandlerFails, Typed, TypeOK, ServerTypeOK
  <1>3. ServerKnows'
    <2> HIDE DEF H
    <2>1. \A in \in Idle.todo : Based(in.id, in.ver, in.body)
      BY <1>1
    <2> QED
      BY <1>1, <1>2, <2>1, TurnsKnow
  <1> QED
    BY <1>1, <1>2, <1>3

LEMMA ReceiveResultsInv ==
  ASSUME Typed, IInv, NEW t \in Tabs, ReceiveResults(t)
  PROVE  IInv'
  <1> DEFINE cyc == tab[t]
             h   == cyc.request
             new == [cyc EXCEPT !.pc = "push", !.results = handler[h].results,
                                !.request = NoHandler]
  <1>1. /\ TypeOK /\ cyc \in Tab /\ cyc.pc = "sent"
        /\ h \in Handlers /\ Serves(h, cyc.batch)
    BY Types DEF Typed, ReceiveResults, IInv, RequestsServed, TabServed
  <1>2. /\ new.queue = cyc.queue /\ new.batch = cyc.batch /\ new.pc = "push"
        /\ new.results = handler[h].results /\ new.request = NoHandler
    BY <1>1 DEF Tab
  <1>3. /\ tab' = [tab EXCEPT ![t] = new]
        /\ Respond(h)
        /\ UNCHANGED <<local, used, edits, noteEdits>>
    BY DEF ReceiveResults
  <1> HIDE DEF new
  <1>4. tab'[t] = new /\ \A s \in Tabs \ {t} : tab'[s] = tab[s]
    BY <1>1, <1>3 DEF TypeOK
  <1>5. /\ ServerKnows' /\ UNCHANGED rows
        /\ \A g \in Handlers \ {h} : handler'[g] = handler[g]
        /\ \A g \in Handlers : handler'[g].todo \subseteq handler[g].todo
    BY <1>1, <1>3, EndKnows DEF IInv
  <1>6. \A s \in Pending(t)' : Held(Dev(t), s)
    <2>1. Pending(t)' \subseteq Pending(t)
      BY <1>1, <1>2, <1>4 DEF Pending
    <2> QED
      BY <2>1 DEF IInv, SnapshotsHeld
  <1>7. Orderly(new)
    BY <1>1, <1>2 DEF Serves, Orderly, IInv, CyclesOrderly
  <1>8. RequestsServed'
    <2>1. \A s \in Tabs \ {t} : tab[s].request # h
      BY <1>1, DevicesAssumption DEF IInv, RequestsServed
    <2> DEFINE H == {h}
               T == {t}
    <2>2. \A g \in Handlers \ H : handler'[g] = handler[g]
      BY <1>5
    <2>3. \A s \in Tabs \ T : tab'[s] = tab[s] /\ tab[s].request \notin H
      BY <1>4, <2>1
    <2>4. \A s \in T : TabServed(s)' /\ tab'[s].request = NoHandler
      BY <1>2, <1>4 DEF TabServed
    <2>5. RequestsServed /\ T \in SUBSET Tabs
      BY DEF IInv
    <2> HIDE DEF H, T
    <2> QED
      BY <1>1, <2>2, <2>3, <2>4, <2>5, RequestsStay
  <1>9. \A g \in Handlers : \A in \in handler'[g].todo : in.id \in used
    BY <1>3, <1>5, TodoUsed
  <1>10. /\ \A s \in new.queue : Based(s.id, s.ver, s.body)
         /\ \A r \in new.results : ResultKnown(r)
    BY <1>1, <1>2 DEF IInv, DevicesKnow, TabKnows, ServerKnows, HandlerKnows
  <1> QED
    BY <1>3, <1>5, <1>6, <1>7, <1>8, <1>9, <1>10, OneTabInv

LEMMA AskPageInv ==
  ASSUME Typed, IInv, NEW t \in Tabs, NEW h \in Handlers, NEW since,
         tab[t].pc \in {"push", "pull"}, AskPage(t, h, since)
  PROVE  IInv'
  <1> DEFINE new == [NoCycle EXCEPT !.pc = "wait", !.pages = tab[t].pages,
                                    !.request = h]
             hd  == [Idle EXCEPT !.state = "pull", !.user = account[Dev(t)],
                                 !.since = since, !.limit = PageSize,
                                 !.unread = Kinds,
                                 !.start = lastSeq[account[Dev(t)]]]
  <1>1. TypeOK /\ tab[t].request = NoHandler
    BY DEF Typed, IInv, RequestsServed, TabServed
  <1>2. /\ new.queue = {} /\ new.batch = {} /\ new.results = {}
        /\ new.pc = "wait" /\ new.request = h
    BY DEF NoCycle
  <1>3. /\ hd.state = "pull" /\ hd.todo = {} /\ hd.results = {} /\ hd.got = {}
    BY DEF Idle
  <1>4. /\ tab' = [tab EXCEPT ![t] = new]
        /\ handler[h].state = "free"
        /\ handler' = [handler EXCEPT ![h] = hd]
        /\ UNCHANGED <<rows, local, used, edits, noteEdits>>
    BY DEF AskPage, PullArrives
  <1> HIDE DEF new, hd
  <1>5. /\ tab'[t] = new /\ \A s \in Tabs \ {t} : tab'[s] = tab[s]
        /\ handler'[h] = hd /\ \A g \in Handlers \ {h} : handler'[g] = handler[g]
    BY <1>1, <1>4 DEF TypeOK, ServerTypeOK
  <1>6. Pending(t)' = {}
    BY <1>2, <1>5 DEF Pending
  <1>7. Orderly(new)
    BY <1>2 DEF Orderly, Answers
  <1>8. ServerKnows'
    <2> DEFINE H == {h}
    <2>1. \A g \in Handlers : handler'[g] = IF g \in H THEN hd ELSE handler[g]
      BY <1>5
    <2>2. ServerKnows /\ \A in \in hd.todo : Based(in.id, in.ver, in.body)
      BY <1>3 DEF IInv
    <2> HIDE DEF H
    <2> QED
      BY <1>3, <1>4, <2>1, <2>2, TurnsKnow
  <1>9. RequestsServed'
    <2> DEFINE H == {h}
               T == {t}
    <2>1. \A g \in Handlers \ H : handler'[g] = handler[g]
      BY <1>5
    <2>2. \A s \in Tabs \ T : tab'[s] = tab[s] /\ tab[s].request \notin H
      BY <1>4, <1>5, FreeIsUnheard
    <2>3. \A s \in T : TabServed(s)' /\ tab'[s].request \in H /\ T = {s}
      BY <1>2, <1>3, <1>5 DEF TabServed
    <2>4. RequestsServed /\ T \in SUBSET Tabs
      BY DEF IInv
    <2> HIDE DEF H, T
    <2> QED
      BY <1>1, <2>1, <2>2, <2>3, <2>4, RequestsStay
  <1>10. \A g \in Handlers : \A in \in handler'[g].todo : in.id \in used
    <2>1. \A g \in Handlers : handler'[g].todo \subseteq handler[g].todo
      BY <1>3, <1>5
    <2> QED
      BY <1>4, <2>1, TodoUsed
  <1> QED
    BY <1>2, <1>4, <1>6, <1>7, <1>8, <1>9, <1>10, OneTabInv

LEMMA ApplyForbiddenInv ==
  ASSUME Typed, IInv, NEW t \in Tabs, NEW r, NEW sent, ApplyForbidden(t, r, sent)
  PROVE  IInv'
  <1> DEFINE cyc == tab[t]
             new == [cyc EXCEPT !.results = @ \ {r}]
  <1>1. TypeOK /\ cyc \in Tab
    BY Types DEF Typed
  <1>2. /\ new.queue = cyc.queue /\ new.batch = cyc.batch /\ new.pc = cyc.pc
        /\ new.results = cyc.results \ {r} /\ new.request = cyc.request
    BY <1>1 DEF Tab
  <1>3. /\ tab' = [tab EXCEPT ![t] = new]
        /\ UNCHANGED <<local, used, edits, noteEdits>>
        /\ UNCHANGED serverVars
    BY DEF ApplyForbidden, ResultApplied
  <1>4. UNCHANGED <<rows, handler>>
    BY <1>3 DEF serverVars
  <1> HIDE DEF new
  <1>5. tab'[t] = new /\ \A s \in Tabs \ {t} : tab'[s] = tab[s]
    BY <1>1, <1>3 DEF TypeOK
  <1>6. \A s \in Pending(t)' : Held(Dev(t), s)
    <2>1. Pending(t)' \subseteq Pending(t)
      BY <1>1, <1>2, <1>5 DEF Pending
    <2> QED
      BY <2>1 DEF IInv, SnapshotsHeld
  <1>7. Orderly(new)
    BY <1>2 DEF IInv, CyclesOrderly, Orderly, Answers
  <1>8. ServerKnows'
    BY <1>4 DEF IInv, ServerKnows, UnstoredEmpty, HandlerKnows, ResultKnown,
                Known, Based, Stored
  <1>9. RequestsServed'
    BY <1>2, <1>4, <1>5 DEF IInv, RequestsServed, TabServed, Serves, Answers
  <1>10. \A g \in Handlers : \A in \in handler'[g].todo : in.id \in used
    BY <1>3, <1>4, TodoUsed
  <1>11. /\ \A s \in new.queue : Based(s.id, s.ver, s.body)
         /\ \A q \in new.results : ResultKnown(q)
    BY <1>2 DEF IInv, DevicesKnow, TabKnows
  <1> QED
    BY <1>3, <1>4, <1>6, <1>7, <1>8, <1>9, <1>10, <1>11, OneTabInv

-----------------------------------------------------------------------------
(* Faults.                                                                 *)

\* The tabs in T lose their cycle, the handlers in H their request; every
\* tab that waits for one of those is in T.
LEMMA EndsInv ==
  ASSUME Typed, IInv, NEW H, NEW T,
         UNCHANGED <<rows, local, used, edits, noteEdits>>,
         \A h \in Handlers : handler'[h] = IF h \in H THEN Idle ELSE handler[h],
         \A t \in Tabs : tab'[t] = IF t \in T THEN NoCycle ELSE tab[t],
         \A t \in Tabs : tab[t].request \in H => t \in T
  PROVE  IInv'
  <1>1. /\ Idle.todo = {} /\ Idle.results = {} /\ Idle.got = {}
    BY DEF Idle
  <1>2. ServerKnows'
    <2>1. ServerKnows /\ \A in \in Idle.todo : Based(in.id, in.ver, in.body)
      BY <1>1 DEF IInv
    <2> QED
      BY <1>1, <2>1, TurnsKnow
  <1>3. \A t \in Tabs : TabKnows(t)' /\ Orderly(tab'[t])
    BY NoCycleOrderly DEF IInv, DevicesKnow, TabKnows, CyclesOrderly,
                          ResultKnown, Known, Based
  <1>4. \A t \in Tabs : \A s \in Pending(t)' : Held(Dev(t), s)
    <2>1. \A t \in Tabs : Pending(t)' \subseteq Pending(t)
      BY NoCycleOrderly DEF Pending
    <2> QED
      BY <2>1 DEF IInv, SnapshotsHeld
  <1>5. RequestsServed'
    <2> DEFINE S == T \cap Tabs
    <2>1. \A h \in Handlers \ H : handler'[h] = handler[h]
      OBVIOUS
    <2>2. \A s \in Tabs \ S : tab'[s] = tab[s] /\ tab[s].request \notin H
      OBVIOUS
    <2>3. \A s \in S : TabServed(s)'
      BY NoCycleOrderly DEF TabServed
    <2>4. \A s \in S : tab'[s].request = NoHandler
      <3>1. \A s \in S : tab'[s] = NoCycle
        OBVIOUS
      <3> QED
        BY <3>1, NoCycleOrderly
    <2>5. TypeOK /\ RequestsServed /\ S \in SUBSET Tabs
      BY DEF Typed, IInv
    <2> HIDE DEF S
    <2> QED
      BY <2>1, <2>2, <2>3, <2>4, <2>5, RequestsStay
  <1>6. \A h \in Handlers : \A in \in handler'[h].todo : in.id \in used
    <2>1. \A h \in Handlers : handler'[h].todo \subseteq handler[h].todo
      BY <1>1
    <2> QED
      BY <2>1, TodoUsed
  <1> QED
    BY <1>2, <1>3, <1>4, <1>5, <1>6, TabsInv

LEMMA FaultInv ==
  ASSUME Typed, IInv,
         \/ \E t \in Tabs : GiveUp(t)
         \/ \E h \in Handlers : ServerError(h) \/ Cancel(h)
         \/ ServerRestart
  PROVE  IInv'
  <1>1. TypeOK
    BY DEF Typed
  <1>2. ASSUME NEW t \in Tabs, GiveUp(t) PROVE IInv'
    <2> DEFINE H == {}
               T == {t}
    <2>1. /\ UNCHANGED <<rows, local, used, edits, noteEdits>>
          /\ \A h \in Handlers : handler'[h] = IF h \in H THEN Idle ELSE handler[h]
          /\ \A s \in Tabs : tab'[s] = IF s \in T THEN NoCycle ELSE tab[s]
          /\ \A s \in Tabs : tab[s].request \in H => s \in T
      BY <1>1, <1>2 DEF GiveUp, serverVars, TypeOK
    <2> HIDE DEF H, T
    <2> QED
      BY <2>1, EndsInv
  <1>3. ASSUME NEW h \in Handlers, ServerError(h) PROVE IInv'
    <2> DEFINE H == {h}
               T == {t \in Tabs : tab[t].request = h}
    <2>1. /\ UNCHANGED <<rows, local, used, edits, noteEdits>>
          /\ \A g \in Handlers : handler'[g] = IF g \in H THEN Idle ELSE handler[g]
          /\ \A s \in Tabs : tab'[s] = IF s \in T THEN NoCycle ELSE tab[s]
          /\ \A s \in Tabs : tab[s].request \in H => s \in T
      BY <1>1, <1>3 DEF ServerError, HandlerFails, TypeOK, ServerTypeOK
    <2> HIDE DEF H, T
    <2> QED
      BY <2>1, EndsInv
  <1>4. ASSUME NEW h \in Handlers, Cancel(h) PROVE IInv'
    <2> DEFINE H == {h}
               T == {}
    <2>1. /\ UNCHANGED <<rows, local, used, edits, noteEdits>>
          /\ \A g \in Handlers : handler'[g] = IF g \in H THEN Idle ELSE handler[g]
          /\ \A s \in Tabs : tab'[s] = IF s \in T THEN NoCycle ELSE tab[s]
          /\ \A s \in Tabs : tab[s].request \in H => s \in T
      BY <1>1, <1>4 DEF Cancel, Unheard, HandlerFails, clientVars, TypeOK, ServerTypeOK
    <2> HIDE DEF H, T
    <2> QED
      BY <2>1, EndsInv
  <1>5. CASE ServerRestart
    <2> DEFINE H == Handlers
               T == {t \in Tabs : tab[t].request # NoHandler}
    <2>1. /\ UNCHANGED <<rows, local, used, edits, noteEdits>>
          /\ \A g \in Handlers : handler'[g] = IF g \in H THEN Idle ELSE handler[g]
          /\ \A s \in Tabs : tab'[s] = IF s \in T THEN NoCycle ELSE tab[s]
          /\ \A s \in Tabs : tab[s].request \in H => s \in T
      BY <1>5, DevicesAssumption DEF ServerRestart, Restart
    <2> HIDE DEF H, T
    <2> QED
      BY <2>1, EndsInv
  <1> QED
    BY <1>2, <1>3, <1>4, <1>5

LEMMA UntouchedInv ==
  ASSUME IInv, UNCHANGED <<rows, handler, local, tab, used, edits, noteEdits>>
  PROVE  IInv'
  BY DEF IInv, ServerKnows, UnstoredEmpty, HandlerKnows, ResultKnown, Known, Based,
     Stored, DevicesKnow, RowKnows, TabKnows, StampsPast, SnapshotsHeld, Pending,
     Held, CyclesOrderly, RequestsServed, TabServed, Serves, Answers, Fresh,
     NotesKept, Kept

-----------------------------------------------------------------------------
(* Edits.                                                                  *)

\* What stays when only a device is written.
LEMMA SameTabs ==
  ASSUME Typed, IInv, UNCHANGED serverVars, UNCHANGED tab
  PROVE  /\ ServerKnows' /\ CyclesOrderly' /\ RequestsServed'
         /\ \A t \in Tabs : TabKnows(t)' /\ Pending(t)' = Pending(t)
  <1>1. UNCHANGED <<rows, handler, tab>>
    BY DEF serverVars
  <1>2. ServerKnows'
    BY <1>1 DEF IInv, ServerKnows, UnstoredEmpty, HandlerKnows, ResultKnown,
                Known, Based, Stored
  <1>3. CyclesOrderly' /\ RequestsServed'
    BY <1>1 DEF IInv, CyclesOrderly, RequestsServed, TabServed, Serves, Answers
  <1>4. \A t \in Tabs : TabKnows(t)' /\ Pending(t)' = Pending(t)
    BY <1>1 DEF IInv, DevicesKnow, TabKnows, ResultKnown, Known, Based, Pending
  <1> QED
    BY <1>2, <1>3, <1>4

\* One row of one device is written; nothing that is kept is lost.
LEMMA RowWritten ==
  ASSUME Typed, NEW d \in Devices, NEW i \in Ids, NEW new,
         local' = [local EXCEPT ![d][i] = new]
  PROVE  /\ local'[d][i] = new
         /\ \A c \in Devices, j \in Ids : c # d \/ j # i => local'[c][j] = local[c][j]
  BY DEF Typed, TypeOK

LEMMA CreateInv ==
  ASSUME Typed, IInv, NEW d \in Devices, NEW i \in Ids, Create(d, i)
  PROVE  IInv'
  <1> PICK e0 : e0 = edits + 1
    OBVIOUS
  <1>0. PICK new : new = [here |-> TRUE, ver |-> 0, dirty |-> TRUE,
                          stamp |-> e0, body |-> {e0}]
    OBVIOUS
  <1>1. /\ local' = [local EXCEPT ![d][i] = new]
        /\ UNCHANGED serverVars /\ UNCHANGED tab
        /\ used' = used \cup {i} /\ i \notin used
        /\ edits' = edits + 1
        /\ noteEdits' \subseteq noteEdits \cup
                        (IF KindOf[i] = "note" THEN {e0} ELSE {})
    BY <1>0 DEF Create, IsFresh, Authored
  <1>2. /\ local'[d][i] = new
        /\ \A c \in Devices, j \in Ids : c # d \/ j # i => local'[c][j] = local[c][j]
    BY <1>1 DEF Typed, TypeOK
  <1>3. /\ ~Stored(i) /\ rows[i].body = {} /\ rows[i].ver = 0
        /\ \A c \in Devices : ~local[c][i].here
    BY <1>1, Types DEF IInv, Fresh, ServerKnows, UnstoredEmpty, Stored, Typed
  <1>4. edits \in Nat /\ UNCHANGED <<rows, handler>>
    BY <1>1 DEF Typed, TypeOK, serverVars
  <1>5. DevicesKnow'
    <2>1. RowKnows(d, i)'
      BY <1>0, <1>2, <1>3, <1>4 DEF RowKnows, Based
    <2>2. \A c \in Devices, j \in Ids : c # d \/ j # i => RowKnows(c, j)'
      BY <1>2, <1>4 DEF IInv, DevicesKnow, RowKnows, Based, Known
    <2> QED
      BY <1>1, <2>1, <2>2, SameTabs DEF DevicesKnow
  <1>6. StampsPast'
    <2>1. \A c \in Devices, j \in Ids : local[c][j].stamp \in Nat
      BY Types, BoundsAssumption DEF Typed, LocalRow
    <2> QED
      BY <1>0, <1>1, <1>2, <1>4, <2>1 DEF IInv, StampsPast
  <1>7. SnapshotsHeld'
    <2> SUFFICES ASSUME NEW t \in Tabs, NEW s \in Pending(t)
                 PROVE  Held(Dev(t), s)'
      BY <1>1, SameTabs DEF SnapshotsHeld
    <2>1. Held(Dev(t), s) /\ s.id \in Ids /\ s.stamp \in Nat /\ Dev(t) \in Devices
      BY PendingType, Types, BoundsAssumption DEF IInv, SnapshotsHeld, Typed, Snapshot
    <2>2. s.id # i
      BY <1>3, <2>1 DEF Held
    <2> QED
      BY <1>1, <1>2, <1>4, <2>1, <2>2 DEF Held
  <1>8. Fresh'
    BY <1>1, <1>2, <1>4 DEF IInv, Fresh, Stored
  <1>9. NotesKept'
    <2>1. ASSUME NEW e \in noteEdits, NEW j \in Ids, Kept(e, j)
          PROVE  Kept(e, j)'
      BY <1>2, <1>3, <1>4, <2>1 DEF Kept
    <2>2. Kept(e0, i)'
      BY <1>0, <1>2, <1>4 DEF Kept
    <2> QED
      BY <1>1, <1>2, <2>1, <2>2 DEF IInv, NotesKept
  <1> QED
    BY <1>1, <1>5, <1>6, <1>7, <1>8, <1>9, SameTabs DEF IInv

LEMMA EditInv ==
  ASSUME FineClock, Typed, IInv, NEW d \in Devices, NEW i \in Ids, Edit(d, i)
  PROVE  IInv'
  <1> PICK row : row = local[d][i]
    OBVIOUS
  <1> PICK e0 : e0 = edits + 1
    OBVIOUS
  <1> DEFINE new == [row EXCEPT !.dirty = TRUE, !.stamp = e0,
                                !.body = @ \cup {e0}]
  <1>1. /\ local' = [local EXCEPT ![d][i] = new]
        /\ row.here
        /\ UNCHANGED serverVars /\ UNCHANGED tab /\ UNCHANGED used
        /\ edits' = edits + 1
        /\ noteEdits' \subseteq noteEdits \cup
                        (IF KindOf[i] = "note" THEN {e0} ELSE {})
    BY DEF Edit, Authored, FineClock
  <1>2. row \in LocalRow /\ row.ver \in Nat /\ row.stamp \in Nat
    BY Types, BoundsAssumption DEF Typed, LocalRow
  <1>3. /\ new.here /\ new.dirty /\ new.ver = row.ver
        /\ new.stamp = e0 /\ new.body = row.body \cup {e0}
    BY <1>1, <1>2 DEF LocalRow
  <1> HIDE DEF new
  <1>4. /\ local'[d][i] = new
        /\ \A c \in Devices, j \in Ids : c # d \/ j # i => local'[c][j] = local[c][j]
    BY <1>1, RowWritten
  <1>5. edits \in Nat /\ UNCHANGED <<rows, handler>>
    BY <1>1 DEF Typed, TypeOK, serverVars
  <1>6. DevicesKnow'
    <2>1. RowKnows(d, i)
      BY DEF IInv, DevicesKnow
    <2>2. RowKnows(d, i)'
      BY <1>1, <1>3, <1>4, <1>5, <2>1 DEF RowKnows, Based
    <2>3. \A c \in Devices, j \in Ids : c # d \/ j # i => RowKnows(c, j)'
      BY <1>4, <1>5 DEF IInv, DevicesKnow, RowKnows, Based, Known
    <2> QED
      BY <1>1, <2>2, <2>3, SameTabs DEF DevicesKnow
  <1>7. StampsPast'
    <2>1. \A c \in Devices, j \in Ids : local[c][j].stamp \in Nat
      BY Types, BoundsAssumption DEF Typed, LocalRow
    <2> QED
      BY <1>1, <1>3, <1>4, <1>5, <2>1 DEF IInv, StampsPast
  <1>8. SnapshotsHeld'
    <2> SUFFICES ASSUME NEW t \in Tabs, NEW s \in Pending(t)
                 PROVE  Held(Dev(t), s)'
      BY <1>1, SameTabs DEF SnapshotsHeld
    <2>1. Held(Dev(t), s) /\ s.id \in Ids /\ s.stamp \in Nat /\ Dev(t) \in Devices
      BY PendingType, Types, BoundsAssumption DEF IInv, SnapshotsHeld, Typed, Snapshot
    <2>2. CASE s.id = i /\ Dev(t) = d
      BY <1>1, <1>3, <1>4, <1>5, <2>1, <2>2 DEF Held
    <2>3. CASE s.id # i \/ Dev(t) # d
      BY <1>1, <1>4, <1>5, <2>1, <2>3 DEF Held
    <2> QED
      BY <2>2, <2>3
  <1>9. Fresh'
    <2>1. i \in used
      BY <1>1 DEF IInv, Fresh
    <2> QED
      BY <1>1, <1>4, <1>5, <2>1 DEF IInv, Fresh, Stored
  <1>10. NotesKept'
    <2>1. ASSUME NEW e \in noteEdits, NEW j \in Ids, Kept(e, j)
          PROVE  Kept(e, j)'
      BY <1>3, <1>4, <1>5, <2>1 DEF Kept
    <2>2. Kept(e0, i)'
      BY <1>3, <1>4, <1>5 DEF Kept
    <2> QED
      BY <1>1, <2>1, <2>2 DEF IInv, NotesKept
  <1> QED
    BY <1>1, <1>6, <1>7, <1>8, <1>9, <1>10, SameTabs DEF IInv

-----------------------------------------------------------------------------
(* Results.                                                                *)

\* The row an answer is about is on the device as it was sent, or edited.
LEMMA ResultHeld ==
  ASSUME Typed, IInv, NEW t \in Tabs, NEW r, NEW sent, IsNextResult(t, r, sent)
  PROVE  /\ Held(Dev(t), sent) /\ r.id = sent.id /\ r.id \in used
         /\ ResultKnown(r)
         /\ r.status = "accepted" => r.body = sent.body
  <1>1. r \in tab[t].results /\ sent \in tab[t].batch /\ r.id = sent.id
    BY DEF IsNextResult
  <1>2. Held(Dev(t), sent)
    BY <1>1 DEF Pending, IInv, SnapshotsHeld
  <1>3. r.id \in Ids /\ Dev(t) \in Devices
    BY NextResultType
  <1>4. r.id \in used
    BY <1>1, <1>2, <1>3 DEF Held, IInv, Fresh
  <1> QED
    BY <1>1, <1>2, <1>4 DEF IInv, DevicesKnow, TabKnows, CyclesOrderly, Orderly, Answers

\* What applying one answer leaves: the other snapshots of the run, and every
\* other tab, because it is on another device.
LEMMA AppliedInv ==
  ASSUME OneTabEach, Typed, IInv, NEW t \in Tabs, NEW r, NEW sent,
         IsNextResult(t, r, sent), ResultApplied(t, r),
         UNCHANGED serverVars, UNCHANGED edits,
         \A c \in Devices, j \in Ids :
           c # Dev(t) \/ (j # r.id /\ j \in used) => local'[c][j] = local[c][j],
         \A c \in Devices, j \in Ids : RowKnows(c, j)',
         StampsPast', Fresh', NotesKept'
  PROVE  IInv'
  <1> DEFINE cyc == tab[t]
             new == [cyc EXCEPT !.results = @ \ {r}]
  <1>1. TypeOK /\ cyc \in Tab
    BY Types DEF Typed
  <1>2. /\ new.queue = cyc.queue /\ new.batch = cyc.batch /\ new.pc = cyc.pc
        /\ new.results = cyc.results \ {r} /\ new.request = cyc.request
    BY <1>1 DEF Tab
  <1>3. tab' = [tab EXCEPT ![t] = new]
    BY DEF ResultApplied
  <1>4. UNCHANGED <<rows, handler>>
    BY DEF serverVars
  <1> HIDE DEF new
  <1>5. tab'[t] = new /\ \A s \in Tabs \ {t} : tab'[s] = tab[s]
    BY <1>1, <1>3 DEF TypeOK
  <1>6. CyclesOrderly'
    BY <1>2, <1>5 DEF IInv, CyclesOrderly, Orderly, Answers
  <1>7. ServerKnows'
    BY <1>4 DEF IInv, ServerKnows, UnstoredEmpty, HandlerKnows, ResultKnown,
                Known, Based, Stored
  <1>8. RequestsServed'
    BY <1>2, <1>4, <1>5 DEF IInv, RequestsServed, TabServed, Serves, Answers
  <1>9. \A s \in Tabs : TabKnows(s)'
    BY <1>2, <1>4, <1>5 DEF IInv, DevicesKnow, TabKnows, ResultKnown, Known, Based
  <1>10. SnapshotsHeld'
    <2> SUFFICES ASSUME NEW s \in Tabs, NEW q \in Pending(s)'
                 PROVE  Held(Dev(s), q)'
      BY DEF SnapshotsHeld
    <2>1. q \in Pending(s)
      BY <1>2, <1>5 DEF Pending
    <2>2. Held(Dev(s), q) /\ q.id \in Ids /\ Dev(s) \in Devices
      BY <1>1, <2>1, PendingType, Types DEF IInv, SnapshotsHeld, Snapshot
    <2>3. q.id \in used
      BY <2>2 DEF Held, IInv, Fresh
    <2>4. CASE s # t
      <3>1. Dev(s) # Dev(t)
        BY <2>4 DEF OneTabEach
      <3> QED
        BY <2>2, <3>1 DEF Held
    <2>5. CASE s = t
      <3>1. q.id # r.id
        <4> SUFFICES ASSUME q.id = r.id PROVE FALSE
          OBVIOUS
        <4>1. sent \in cyc.batch /\ sent.id = r.id /\ cyc.pc = "push"
              /\ r \in cyc.results
          BY DEF IsNextResult
        <4>2. Orderly(cyc)
          BY DEF IInv, CyclesOrderly
        <4>3. q = sent
          BY <2>1, <2>5, <4>1, <4>2 DEF Pending, Orderly
        <4>4. q \notin cyc.queue
          BY <4>1, <4>2, <4>3 DEF Orderly
        <4>5. PICK p \in cyc.results \ {r} : p.id = q.id
          BY <1>2, <1>5, <2>5, <4>1, <4>4 DEF Pending
        <4> QED
          BY <4>1, <4>2, <4>5 DEF Orderly
      <3> QED
        BY <2>2, <2>3, <2>5, <3>1 DEF Held
    <2> QED
      BY <2>4, <2>5
  <1> QED
    BY <1>6, <1>7, <1>8, <1>9, <1>10 DEF IInv, DevicesKnow

LEMMA ApplyAcceptedInv ==
  ASSUME OneTabEach, Typed, IInv, NEW t \in Tabs, NEW r, NEW sent,
         ApplyAccepted(t, r, sent)
  PROVE  IInv'
  <1> DEFINE d == Dev(t)
             i == r.id
             current == local[d][i]
             new == Accepted(current, r, sent)
  <1>1. /\ IsNextResult(t, r, sent) /\ r.status = "accepted" /\ ResultApplied(t, r)
        /\ UNCHANGED serverVars /\ UNCHANGED <<used, edits, noteEdits>>
    BY DEF ApplyAccepted
  <1>2. /\ d \in Devices /\ i \in Ids /\ r.ver \in Nat /\ current \in LocalRow
    BY <1>1, NextResultType
  <1>3. /\ Held(d, sent) /\ sent.id = i /\ i \in used
        /\ ResultKnown(r) /\ r.body = sent.body
    BY <1>1, ResultHeld
  <1>4. current.here /\ current.dirty
    BY <1>3 DEF Held
  <1>5. /\ new.here /\ new.ver = r.ver /\ new.dirty = (current.stamp # sent.stamp)
        /\ new.stamp = current.stamp /\ new.body = current.body
    BY <1>2, <1>4 DEF Accepted, LocalRow
  <1>6. local' = [local EXCEPT ![d][i] = new]
    BY <1>4 DEF ApplyAccepted
  <1> HIDE DEF new
  <1>7. /\ local'[d][i] = new
        /\ \A c \in Devices, j \in Ids : c # d \/ j # i => local'[c][j] = local[c][j]
    BY <1>2, <1>6 DEF Typed, TypeOK
  <1>8. UNCHANGED rows
    BY <1>1 DEF serverVars
  <1>9. Known(i, r.ver, r.body) /\ r.body \subseteq rows[i].body
    BY <1>1, <1>3 DEF ResultKnown
  <1>10. r.body \subseteq current.body
         /\ (current.stamp = sent.stamp => current.body = r.body)
    BY <1>3 DEF Held
  <1>11. \A c \in Devices, j \in Ids : RowKnows(c, j)'
    <2>1. RowKnows(d, i)'
      <3>1. Based(i, r.ver, current.body)
        BY <1>2, <1>9, <1>10, Types DEF Known, Based, Typed
      <3>2. new.dirty \/ Known(i, r.ver, current.body)
        BY <1>5, <1>9, <1>10
      <3>3. local'[d][i].ver = r.ver /\ local'[d][i].body = current.body
            /\ local'[d][i].dirty = new.dirty
        BY <1>5, <1>7
      <3> QED
        BY <1>8, <3>1, <3>2, <3>3 DEF RowKnows, Known, Based
    <2>2. \A c \in Devices, j \in Ids : c # d \/ j # i => RowKnows(c, j)'
      BY <1>7, <1>8 DEF IInv, DevicesKnow, RowKnows, Known, Based
    <2> QED
      BY <2>1, <2>2
  <1>12. StampsPast'
    BY <1>1, <1>2, <1>5, <1>7 DEF IInv, StampsPast
  <1>13. Fresh'
    BY <1>1, <1>3, <1>7, <1>8 DEF IInv, Fresh, Stored, serverVars
  <1>14. NotesKept'
    <2>1. ASSUME NEW e \in noteEdits, NEW j \in Ids, Kept(e, j)
          PROVE  Kept(e, j)'
      <3>1. CASE e \in rows[j].body
        BY <1>8, <3>1 DEF Kept
      <3>2. CASE e \notin rows[j].body
        <4>1. PICK c \in Devices : /\ local[c][j].here /\ local[c][j].dirty
                                   /\ e \in local[c][j].body
          BY <2>1, <3>2 DEF Kept
        <4>2. CASE c = d /\ j = i
          <5>1. current.stamp # sent.stamp
            BY <1>9, <1>10, <3>2, <4>1, <4>2
          <5>2. new.dirty
            BY <1>5, <5>1
          <5> QED
            BY <1>2, <1>5, <1>7, <4>1, <4>2, <5>2 DEF Kept
        <4>3. CASE c # d \/ j # i
          BY <1>7, <4>1, <4>3 DEF Kept
        <4> QED
          BY <4>2, <4>3
      <3> QED
        BY <3>1, <3>2
    <2> QED
      BY <1>1, <2>1 DEF IInv, NotesKept
  <1>15. \A c \in Devices, j \in Ids :
           c # Dev(t) \/ (j # r.id /\ j \in used) => local'[c][j] = local[c][j]
    BY <1>7
  <1> QED
    BY <1>1, <1>11, <1>12, <1>13, <1>14, <1>15, AppliedInv

\* The server's copy, as a row.
LEMMA FromWireKnown ==
  ASSUME Typed, NEW i \in Ids, NEW ver, NEW body, Known(i, ver, body)
  PROVE  /\ Based(i, ver, body) /\ ver \in Nat /\ Stored(i)
         /\ FromWire(ver, body).here /\ ~FromWire(ver, body).dirty
         /\ FromWire(ver, body).ver = ver /\ FromWire(ver, body).body = body
         /\ FromWire(ver, body).stamp = 0
  BY Types DEF Known, Based, FromWire, Stored, Typed

LEMMA ApplyContainerConflictInv ==
  ASSUME OneTabEach, Typed, IInv, NEW t \in Tabs, NEW r, NEW sent,
         ApplyContainerConflict(t, r, sent)
  PROVE  IInv'
  <1> DEFINE d == Dev(t)
             i == r.id
  <1>1. /\ IsNextResult(t, r, sent) /\ r.status = "conflict" /\ ResultApplied(t, r)
        /\ KindOf[i] # "note"
        /\ UNCHANGED serverVars /\ UNCHANGED <<used, edits, noteEdits>>
    BY DEF ApplyContainerConflict, Forks
  <1>2. /\ d \in Devices /\ i \in Ids /\ edits \in Nat
    BY <1>1, NextResultType DEF Typed, TypeOK
  <1>3. i \in used /\ Known(i, r.ver, r.body)
    BY <1>1, ResultHeld DEF ResultKnown
  <1> PICK new : new = FromWire(r.ver, r.body)
    OBVIOUS
  <1>4. /\ Based(i, r.ver, r.body) /\ new.here /\ ~new.dirty
        /\ new.ver = r.ver /\ new.body = r.body /\ new.stamp = 0
    BY <1>2, <1>3, FromWireKnown
  <1>5. local' = [local EXCEPT ![d][i] = new]
    BY DEF ApplyContainerConflict
  <1>6. /\ local'[d][i] = new
        /\ \A c \in Devices, j \in Ids : c # d \/ j # i => local'[c][j] = local[c][j]
    BY <1>2, <1>5 DEF Typed, TypeOK
  <1>7. UNCHANGED rows
    BY <1>1 DEF serverVars
  <1>8. \A c \in Devices, j \in Ids : RowKnows(c, j)'
    <2>1. RowKnows(d, i)'
      BY <1>3, <1>4, <1>6, <1>7 DEF RowKnows, Known, Based
    <2>2. \A c \in Devices, j \in Ids : c # d \/ j # i => RowKnows(c, j)'
      BY <1>6, <1>7 DEF IInv, DevicesKnow, RowKnows, Known, Based
    <2> QED
      BY <2>1, <2>2
  <1>9. StampsPast'
    BY <1>1, <1>2, <1>4, <1>6 DEF IInv, StampsPast
  <1>10. Fresh'
    BY <1>1, <1>3, <1>6, <1>7 DEF IInv, Fresh, Stored, serverVars
  <1>11. NotesKept'
    <2>1. ASSUME NEW e \in noteEdits, NEW j \in Ids, KindOf[j] = "note", Kept(e, j)
          PROVE  Kept(e, j)'
      BY <1>1, <1>6, <1>7, <2>1 DEF Kept
    <2> QED
      BY <1>1, <2>1 DEF IInv, NotesKept
  <1>12. \A c \in Devices, j \in Ids :
           c # Dev(t) \/ (j # r.id /\ j \in used) => local'[c][j] = local[c][j]
    BY <1>6
  <1> QED
    BY <1>1, <1>8, <1>9, <1>10, <1>11, <1>12, AppliedInv

\* The copy goes under an id that is nowhere; what the note held goes with it.
LEMMA ApplyNoteConflictInv ==
  ASSUME OneTabEach, Typed, IInv, NEW t \in Tabs, NEW r, NEW sent,
         ApplyNoteConflict(t, r, sent)
  PROVE  IInv'
  <1> DEFINE d == Dev(t)
             i == r.id
  <1>1. /\ IsNextResult(t, r, sent) /\ r.status = "conflict" /\ ResultApplied(t, r)
        /\ UNCHANGED serverVars /\ UNCHANGED <<edits, noteEdits>>
    BY DEF ApplyNoteConflict
  <1>2. /\ d \in Devices /\ i \in Ids /\ edits \in Nat
    BY <1>1, NextResultType DEF Typed, TypeOK
  <1>3. /\ Held(d, sent) /\ sent.id = i /\ i \in used /\ Known(i, r.ver, r.body)
    BY <1>1, ResultHeld DEF ResultKnown
  <1> PICK current : current = local[d][i]
    OBVIOUS
  <1>4. current.here /\ current.dirty /\ current \in LocalRow
    BY <1>1, <1>3, NextResultType DEF Held
  <1>5. PICK fork \in Ids :
          /\ IsFresh(fork, "note")
          /\ used' = used \cup {fork}
          /\ local' = [local EXCEPT ![d][fork] = Fork(current),
                                    ![d][i] = FromWire(r.ver, r.body)]
    BY <1>4 DEF ApplyNoteConflict
  <1>6. fork \notin used /\ KindOf[fork] = "note" /\ fork # i
    BY <1>3, <1>5 DEF IsFresh
  <1> PICK new : new = FromWire(r.ver, r.body)
    OBVIOUS
  <1> PICK copy : copy = Fork(current)
    OBVIOUS
  <1>7. /\ Based(i, r.ver, r.body) /\ new.here /\ ~new.dirty
        /\ new.ver = r.ver /\ new.body = r.body /\ new.stamp = 0
    BY <1>2, <1>3, FromWireKnown
  <1>8. /\ copy.here /\ copy.dirty /\ copy.ver = 0
        /\ copy.body = current.body /\ copy.stamp = current.stamp
    BY <1>4 DEF Fork, LocalRow
  <1>9. /\ local'[d][i] = new
        /\ local'[d][fork] = copy
        /\ \A c \in Devices, j \in Ids :
             c # d \/ (j # i /\ j # fork) => local'[c][j] = local[c][j]
    BY <1>2, <1>5, <1>6 DEF Typed, TypeOK
  <1>10. UNCHANGED rows
    BY <1>1 DEF serverVars
  <1>11. \A c \in Devices : ~local[c][fork].here
    BY <1>6 DEF IInv, Fresh
  <1>12. \A c \in Devices, j \in Ids : RowKnows(c, j)'
    <2>1. RowKnows(d, i)'
      BY <1>3, <1>7, <1>9, <1>10 DEF RowKnows, Known, Based
    <2>2. RowKnows(d, fork)'
      <3>1. rows[fork].body = {} /\ rows[fork].ver = 0
        BY <1>6, Types DEF IInv, Fresh, ServerKnows, UnstoredEmpty, Stored, Typed
      <3> QED
        BY <1>8, <1>9, <1>10, <3>1 DEF RowKnows, Based
    <2>3. \A c \in Devices, j \in Ids : c # d \/ (j # i /\ j # fork) => RowKnows(c, j)'
      BY <1>9, <1>10 DEF IInv, DevicesKnow, RowKnows, Known, Based
    <2> QED
      BY <2>1, <2>2, <2>3
  <1>13. StampsPast'
    <2>1. current.stamp <= edits
      BY <1>2 DEF IInv, StampsPast
    <2> QED
      BY <1>1, <1>2, <1>7, <1>8, <1>9, <2>1 DEF IInv, StampsPast
  <1>14. Fresh'
    <2> SUFFICES ASSUME NEW j \in Ids \ used'
                 PROVE  /\ ~Stored(j)'
                        /\ \A c \in Devices : ~local'[c][j].here
                        /\ \A h \in Handlers : \A in \in handler'[h].todo : in.id # j
      BY DEF Fresh
    <2>1. j \notin used /\ j # fork /\ j # i
      BY <1>3, <1>5
    <2>2. UNCHANGED handler
      BY <1>1 DEF serverVars
    <2> QED
      BY <1>9, <1>10, <2>1, <2>2 DEF IInv, Fresh, Stored
  <1>15. NotesKept'
    <2>1. ASSUME NEW e \in noteEdits, NEW j \in Ids, KindOf[j] = "note", Kept(e, j)
          PROVE  \E k \in Ids : KindOf[k] = "note" /\ Kept(e, k)'
      <3>1. CASE e \in rows[j].body
        BY <1>10, <2>1, <3>1 DEF Kept
      <3>2. CASE e \notin rows[j].body
        <4>1. PICK c \in Devices : /\ local[c][j].here /\ local[c][j].dirty
                                   /\ e \in local[c][j].body
          BY <2>1, <3>2 DEF Kept
        <4>2. CASE c = d /\ j = i
          <5>1. Kept(e, fork)'
            BY <1>2, <1>8, <1>9, <4>1, <4>2 DEF Kept
          <5> QED
            BY <1>6, <5>1
        <4>3. CASE c # d \/ j # i
          <5>1. local'[c][j] = local[c][j]
            BY <1>9, <1>11, <4>1, <4>3
          <5> QED
            BY <2>1, <4>1, <5>1 DEF Kept
        <4> QED
          BY <4>2, <4>3
      <3> QED
        BY <3>1, <3>2
    <2> QED
      BY <1>1, <2>1 DEF IInv, NotesKept
  <1>16. \A c \in Devices, j \in Ids :
           c # Dev(t) \/ (j # r.id /\ j \in used) => local'[c][j] = local[c][j]
    BY <1>6, <1>9
  <1> QED
    BY <1>1, <1>12, <1>13, <1>14, <1>15, <1>16, AppliedInv

-----------------------------------------------------------------------------
(* Pages.                                                                  *)

\* A page overwrites the clean rows of one device with copies of the
\* server's, and nothing that is dirty.
\* What a page does to a row of the device: nothing where the row is dirty or
\* not in the page, else the row becomes a copy of the page.
LEMMA PageRowApplied ==
  ASSUME Typed, NEW t \in Tabs, ApplyPage(t), NEW i \in Ids
  PROVE  \/ /\ local'[Dev(t)][i] = local[Dev(t)][i]
            /\ \/ KeepsLocal(local[Dev(t)][i])
               \/ \A c \in PageRows(tab[t].request) : c.id # i
         \/ /\ ~KeepsLocal(local[Dev(t)][i])
            /\ \E c \in PageRows(tab[t].request) :
                 c.id = i /\ local'[Dev(t)][i] = FromWire(c.ver, c.body)
  <1> DEFINE d == Dev(t)
             h == tab[t].request
             Remote(j) == {c \in PageRows(h) : c.id = j}
  <1>1. local'[d][i] =
          IF Remote(i) = {} \/ KeepsLocal(local[d][i]) THEN local[d][i]
          ELSE LET c == CHOOSE c \in Remote(i) : TRUE
               IN  FromWire(c.ver, c.body)
    BY Types DEF ApplyPage, Typed, TypeOK
  <1>2. CASE Remote(i) = {} \/ KeepsLocal(local[d][i])
    <2>1. Remote(i) = {} => \A c \in PageRows(h) : c.id # i
      OBVIOUS
    <2> HIDE DEF Remote
    <2> QED BY <1>1, <1>2, <2>1
  <1>3. CASE ~(Remote(i) = {} \/ KeepsLocal(local[d][i]))
    <2> DEFINE c == CHOOSE c \in Remote(i) : TRUE
    <2>1. c \in Remote(i)
      <3> HIDE DEF Remote
      <3> QED BY <1>3
    <2>2. c \in PageRows(h) /\ c.id = i
      BY <2>1
    <2>3. local'[d][i] = FromWire(c.ver, c.body)
      BY <1>1, <1>3
    <2> HIDE DEF c
    <2> QED
      BY <1>3, <2>2, <2>3
  <1> QED
    BY <1>2, <1>3

LEMMA ApplyPageInv ==
  ASSUME Typed, IInv, NEW t \in Tabs, ApplyPage(t)
  PROVE  IInv'
  <1> PICK h : h = tab[t].request
    OBVIOUS
  <1> DEFINE d == Dev(t)
             pages == tab[t].pages + 1
             more == [NoCycle EXCEPT !.pc = "pull", !.since = PageCursor(h),
                                     !.pages = pages]
             new == IF HasMore(h) /\ pages < MaxPages THEN more ELSE NoCycle
  <1>1. /\ h \in Handlers /\ d \in Devices /\ TypeOK /\ edits \in Nat
    BY Types DEF Typed, TypeOK, RequestsKnown, Waits, ApplyPage
  <1>2. /\ tab' = [tab EXCEPT ![t] = new]
        /\ Respond(h)
        /\ UNCHANGED <<used, edits, noteEdits>>
        /\ tab[t].pc = "wait"
    BY DEF ApplyPage
  <1>3. /\ new.queue = {} /\ new.batch = {} /\ new.results = {}
        /\ new.pc \in {"pull", "idle"} /\ new.request = NoHandler
    BY DEF NoCycle
  <1> HIDE DEF new
  <1>4. tab'[t] = new /\ \A s \in Tabs \ {t} : tab'[s] = tab[s]
    BY <1>1, <1>2 DEF TypeOK
  <1>5. /\ ServerKnows' /\ UNCHANGED rows
        /\ \A g \in Handlers \ {h} : handler'[g] = handler[g]
        /\ \A g \in Handlers : handler'[g].todo \subseteq handler[g].todo
    BY <1>1, <1>2, EndKnows DEF IInv
  <1>6. \A c \in PageRows(h) : Known(c.id, c.ver, c.body)
    BY <1>1, LowestIsSubset DEF PageRows, IInv, ServerKnows, HandlerKnows
  <1>7. \A i \in Ids :
          \/ local'[d][i] = local[d][i]
          \/ /\ ~(local[d][i].here /\ local[d][i].dirty)
             /\ \E c \in PageRows(h) : c.id = i /\ local'[d][i] = FromWire(c.ver, c.body)
    BY PageRowApplied DEF KeepsLocal
  <1>8. \A i \in Ids :
          \/ local'[d][i] = local[d][i]
          \/ /\ ~(local[d][i].here /\ local[d][i].dirty)
             /\ Known(i, local'[d][i].ver, local'[d][i].body)
             /\ Based(i, local'[d][i].ver, local'[d][i].body)
             /\ Stored(i)
             /\ local'[d][i].here /\ ~local'[d][i].dirty
             /\ local'[d][i].stamp = 0
    <2> SUFFICES ASSUME NEW i \in Ids, NEW c \in PageRows(h), c.id = i,
                        local'[d][i] = FromWire(c.ver, c.body)
                 PROVE  /\ Known(i, local'[d][i].ver, local'[d][i].body)
                        /\ Based(i, local'[d][i].ver, local'[d][i].body)
                        /\ Stored(i)
                        /\ local'[d][i].here /\ ~local'[d][i].dirty
                        /\ local'[d][i].stamp = 0
      BY <1>7
    <2>1. Known(i, c.ver, c.body)
      BY <1>6
    <2> QED
      BY <2>1, FromWireKnown
  <1>9. \A c \in Devices \ {d}, i \in Ids : local'[c][i] = local[c][i]
    BY <1>1 DEF ApplyPage, TypeOK
  <1>10. DevicesKnow'
    <2>1. \A i \in Ids : RowKnows(d, i)'
      BY <1>1, <1>5, <1>8 DEF IInv, DevicesKnow, RowKnows, Known, Based
    <2>2. \A c \in Devices \ {d}, i \in Ids : RowKnows(c, i)'
      BY <1>5, <1>9 DEF IInv, DevicesKnow, RowKnows, Known, Based
    <2>3. \A s \in Tabs : TabKnows(s)'
      BY <1>3, <1>4, <1>5 DEF IInv, DevicesKnow, TabKnows, ResultKnown, Known, Based
    <2> QED
      BY <2>1, <2>2, <2>3 DEF DevicesKnow
  <1>11. StampsPast'
    BY <1>1, <1>2, <1>8, <1>9 DEF IInv, StampsPast
  <1>12. SnapshotsHeld'
    <2> SUFFICES ASSUME NEW s \in Tabs, NEW q \in Pending(s)'
                 PROVE  Held(Dev(s), q)'
      BY DEF SnapshotsHeld
    <2>1. q \in Pending(s)
      BY <1>3, <1>4 DEF Pending
    <2>2. Held(Dev(s), q) /\ q.id \in Ids /\ Dev(s) \in Devices
      BY <1>1, <2>1, PendingType, Types DEF IInv, SnapshotsHeld, Snapshot
    <2>3. local'[Dev(s)][q.id] = local[Dev(s)][q.id]
      BY <1>8, <1>9, <2>2 DEF Held
    <2> QED
      BY <1>2, <2>2, <2>3 DEF Held
  <1>13. CyclesOrderly'
    BY <1>3, <1>4 DEF IInv, CyclesOrderly, Orderly, Answers
  <1>14. RequestsServed'
    <2>1. \A s \in Tabs \ {t} : tab[s].request # h
      BY <1>1, DevicesAssumption DEF IInv, RequestsServed
    <2> DEFINE H == {h}
               T == {t}
    <2>2. \A g \in Handlers \ H : handler'[g] = handler[g]
      BY <1>5
    <2>3. \A s \in Tabs \ T : tab'[s] = tab[s] /\ tab[s].request \notin H
      BY <1>4, <2>1
    <2>4. \A s \in T : TabServed(s)' /\ tab'[s].request = NoHandler
      BY <1>3, <1>4 DEF TabServed
    <2>5. RequestsServed /\ T \in SUBSET Tabs
      BY DEF IInv
    <2> HIDE DEF H, T
    <2> QED
      BY <1>1, <2>2, <2>3, <2>4, <2>5, RequestsStay
  <1>15. Fresh'
    <2>1. \A g \in Handlers : \A in \in handler'[g].todo : in.id \in used
      BY <1>2, <1>5, TodoUsed
    <2>2. \A i \in Ids \ used : ~Stored(i) /\ \A c \in Devices : ~local[c][i].here
      BY DEF IInv, Fresh
    <2>3. \A i \in Ids \ used : \A c \in Devices : ~local'[c][i].here
      BY <1>8, <1>9, <2>2
    <2> QED
      BY <1>2, <1>5, <2>1, <2>2, <2>3 DEF Fresh, Stored
  <1>16. NotesKept'
    <2>1. ASSUME NEW e \in noteEdits, NEW j \in Ids, Kept(e, j)
          PROVE  Kept(e, j)'
      <3>1. CASE e \in rows[j].body
        BY <1>5, <3>1 DEF Kept
      <3>2. CASE e \notin rows[j].body
        <4>1. PICK c \in Devices : /\ local[c][j].here /\ local[c][j].dirty
                                   /\ e \in local[c][j].body
          BY <2>1, <3>2 DEF Kept
        <4>2. local'[c][j] = local[c][j]
          BY <1>8, <1>9, <4>1
        <4> QED
          BY <4>1, <4>2 DEF Kept
      <3> QED
        BY <3>1, <3>2
    <2> QED
      BY <1>2, <2>1 DEF IInv, NotesKept
  <1> QED
    BY <1>5, <1>10, <1>11, <1>12, <1>13, <1>14, <1>15, <1>16 DEF IInv

-----------------------------------------------------------------------------
LEMMA InitIInv == Init => IInv
  <1> SUFFICES ASSUME Init PROVE IInv
    OBVIOUS
  <1>1. \A i \in Ids : ~Stored(i) /\ rows[i].body = {}
    BY ContentAssumption DEF Init, ServerInit, Stored
  <1>2. \A h \in Handlers : /\ handler[h].todo = {} /\ handler[h].results = {}
                            /\ handler[h].got = {}
    BY DEF Init, ServerInit, Idle
  <1>3. \A d \in Devices, i \in Ids : ~local[d][i].here /\ local[d][i].stamp = 0
    BY DEF Init, Missing
  <1>4. \A t \in Tabs : tab[t] = NoCycle
    BY DEF Init
  <1>5. edits = 0 /\ noteEdits = {}
    BY DEF Init
  <1>6. ServerKnows /\ Fresh
    BY <1>1, <1>2, <1>3 DEF ServerKnows, UnstoredEmpty, HandlerKnows, Fresh
  <1>7. DevicesKnow /\ SnapshotsHeld /\ CyclesOrderly /\ RequestsServed
    BY <1>3, <1>4, NoCycleOrderly DEF DevicesKnow, RowKnows, TabKnows,
       SnapshotsHeld, Pending, CyclesOrderly, RequestsServed, TabServed
  <1>8. StampsPast /\ NotesKept
    BY <1>3, <1>5 DEF StampsPast, NotesKept
  <1> QED
    BY <1>6, <1>7, <1>8 DEF IInv

LEMMA StepIInv ==
  ASSUME OneTabEach, FineClock, Typed, Typed', IInv, [Next]_vars
  PROVE  IInv'
  <1>1. ASSUME NEW d \in Devices, NEW i \in Ids, Create(d, i) \/ Edit(d, i)
        PROVE  IInv'
    BY <1>1, CreateInv, EditInv
  <1>2. ASSUME NEW t \in Tabs, CycleStep(t)
        PROVE  IInv'
    <2>1. CASE StartCycle(t) \/ ReceiveResults(t) \/ ApplyPage(t)
      BY <2>1, StartCycleInv, ReceiveResultsInv, ApplyPageInv
    <2>2. CASE ApplyResult(t)
      BY <2>2, ApplyAcceptedInv, ApplyNoteConflictInv,
         ApplyContainerConflictInv, ApplyForbiddenInv DEF ApplyResult
    <2>3. ASSUME NEW h \in Handlers,
                 SendBatch(t, h) \/ AskFirstPage(t, h) \/ AskNextPage(t, h)
          PROVE  IInv'
      BY <2>3, SendBatchInv, AskPageInv DEF AskFirstPage, AskNextPage
    <2> QED
      BY <1>2, <2>1, <2>2, <2>3 DEF CycleStep
  <1>3. ASSUME NEW h \in Handlers, ServerStep(h)
        PROVE  IInv'
    <2>1. CASE PushRow(h) /\ UNCHANGED clientVars
      BY <2>1, UpsertAcceptedClientInv, UpsertRefusedInv DEF PushRow
    <2>2. CASE Query(h) /\ UNCHANGED clientVars
      BY <2>2, QueryClientInv
    <2> QED
      BY <1>3, <2>1, <2>2, FaultInv DEF ServerStep
  <1>4. CASE \/ \E t \in Tabs : GiveUp(t)
             \/ \E h \in Handlers : ServerError(h)
             \/ ServerRestart
    BY <1>4, FaultInv
  <1>5. ASSUME NEW d \in Devices, NEW u \in Users, SignInAs(d, u)
        PROVE  IInv'
    BY <1>5, UntouchedInv DEF SignInAs, serverVars
  <1>6. CASE UNCHANGED vars
    BY <1>6, UntouchedInv DEF vars, serverVars, clientVars
  <1> QED
    BY <1>1, <1>2, <1>3, <1>4, <1>5, <1>6 DEF Next

LEMMA Invariant ==
  ASSUME OneTabEach, FineClock
  PROVE  Spec => []IInv
  <1>1. Typed /\ Typed' /\ IInv /\ [Next]_vars => IInv'
    BY StepIInv
  <1> QED
    BY <1>1, InitIInv, TypedInvariant, PTL DEF Spec

\* No edit of a note is lost, whatever requests, answers and cycles are: the
\* server stores it or a device still has to push it.
THEOREM NoNoteEditIsLost ==
  ASSUME OneTabEach, FineClock
  PROVE  Spec => []NoNoteEditLost
  <1>1. IInv => NoNoteEditLost
    BY DEF IInv, NotesKept, Kept, NoNoteEditLost
  <1> QED
    BY <1>1, Invariant, PTL

\* A clean row holds exactly the version it names: no answer or page, however
\* late, makes a device believe in content the server never had.
THEOREM CleanRowsMatch ==
  ASSUME OneTabEach, FineClock
  PROVE  Spec => []CleanRowMatchesServer
  <1>1. IInv => CleanRowMatchesServer
    BY DEF IInv, DevicesKnow, RowKnows, Known, CleanRowMatchesServer
  <1> QED
    BY <1>1, Invariant, PTL

\* Nothing writes the tables but an accepted upsert, whoever moves.
LEMMA OnlyUpsertsWrite ==
  ASSUME [Next]_vars,
         \A h \in Handlers : \A in \in handler[h].todo : ~UpsertAccepted(h, in)
  PROVE  rows' = rows /\ lastSeq' = lastSeq
  <1> DEFINE Same == rows' = rows /\ lastSeq' = lastSeq
  <1>1. CASE UNCHANGED vars
    BY <1>1 DEF vars, serverVars
  <1>2. ASSUME NEW d \in Devices, NEW i \in Ids, Create(d, i) \/ Edit(d, i)
        PROVE  Same
    <2>1. UNCHANGED serverVars
      BY <1>2, Zenon DEF Create, Edit
    <2> QED
      BY <2>1 DEF serverVars
  <1>3. ASSUME NEW t \in Tabs, CycleStep(t)
        PROVE  Same
    <2>1. StartCycle(t) => Same
      BY DEF StartCycle, serverVars
    <2>2. ReceiveResults(t) => Same
      BY DEF ReceiveResults, Respond
    <2>3. ApplyResult(t) => Same
      BY DEF ApplyResult, ApplyAccepted, ApplyNoteConflict,
         ApplyContainerConflict, ApplyForbidden, serverVars
    <2>4. ApplyPage(t) => Same
      BY DEF ApplyPage, Respond
    <2>5. ASSUME NEW h \in Handlers, SendBatch(t, h)
          PROVE  Same
      BY <2>5 DEF SendBatch, PushArrives
    <2>6. ASSUME NEW h \in Handlers, AskFirstPage(t, h) \/ AskNextPage(t, h)
          PROVE  Same
      BY <2>6 DEF AskFirstPage, AskNextPage, AskPage, PullArrives
    <2> QED
      BY <1>3, <2>1, <2>2, <2>3, <2>4, <2>5, <2>6 DEF CycleStep
  <1>4. ASSUME NEW t \in Tabs, GiveUp(t)
        PROVE  Same
    BY <1>4 DEF GiveUp, serverVars
  <1>5. ASSUME NEW h \in Handlers, ServerStep(h) \/ ServerError(h)
        PROVE  Same
    BY <1>5 DEF ServerStep, ServerError, PushRow, UpsertConflict,
       UpsertForbidden, Query, ReadTable, Cancel, HandlerFails
  <1>6. ServerRestart => Same
    BY DEF ServerRestart, Restart
  <1>7. ASSUME NEW d \in Devices, NEW u \in Users, SignInAs(d, u)
        PROVE  Same
    BY <1>7 DEF SignInAs, serverVars
  <1> QED
    BY <1>1, <1>2, <1>3, <1>4, <1>5, <1>6, <1>7 DEF Next

\* A write the server accepts never undoes one it accepted before: whoever
\* sends it has every edit of the version it replaces.
THEOREM AcceptedStays ==
  ASSUME OneTabEach, FineClock
  PROVE  Spec => NothingAcceptedIsUndone
  <1> DEFINE A == \A i \in Ids : rows[i].body \subseteq rows'[i].body
  <1>1. Typed /\ IInv /\ [Next]_vars => [A]_vars
    <2> SUFFICES ASSUME Typed, IInv, [Next]_vars PROVE A
      OBVIOUS
    <2>1. CASE UNCHANGED rows
      BY <2>1
    <2>2. ASSUME NEW h \in Handlers, NEW in \in handler[h].todo,
                 UpsertAccepted(h, in)
          PROVE  A
      BY <2>2, UpsertGrows DEF Grows
    <2> QED
      BY <2>1, <2>2, OnlyUpsertsWrite
  <1> QED
    BY <1>1, Invariant, TypedInvariant, PTL DEF Spec, NothingAcceptedIsUndone

-----------------------------------------------------------------------------
(* The refinement.                                                         *)

\* What one accepted upsert is to RowHistory: one write of one row.
LEMMA UpsertIsWrite ==
  ASSUME NEW h \in Handlers, NEW in \in handler[h].todo,
         Typed, IInv, UpsertAccepted(h, in)
  PROVE  Promise!Next
  <1> DEFINE i       == in.id
             u       == handler[h].user
             Of(row) == [owner |-> row.owner, ver |-> row.ver, edits |-> row.body]
  <1>1. /\ u \in Users /\ i \in Ids /\ in.body \in Bodies
        /\ rows[i].ver \in Nat
    BY PushInput DEF Typed, ServerIInv, UpsertAccepted
  <1>2. /\ rows'[i].ver = rows[i].ver + 1
        /\ rows'[i].body = in.body
        /\ rows'[i].owner = u
        /\ Stored(i) => rows[i].owner = u
        /\ \A j \in Ids \ {i} : rows'[j] = rows[j]
    BY UpsertWrites DEF Typed
  <1>3. rows[i].body \subseteq in.body
    BY <1>1, <1>2, UpsertGrows DEF Grows
  <1>4. rows[i].owner \in {u, NoUser}
    BY <1>1, <1>2 DEF Stored, Typed, ServerIInv, OwnersKnown
  <1>5. [j \in Ids |-> Of(rows'[j])]
          = [[j \in Ids |-> Of(rows[j])] EXCEPT
               ![i] = [owner |-> u, ver |-> @.ver + 1, edits |-> in.body]]
    BY <1>1, <1>2
  <1>6. Of(rows'[i]) # Of(rows[i])
    BY <1>1, <1>2
  <1>7. [j \in Ids |-> Of(rows'[j])] # [j \in Ids |-> Of(rows[j])]
    BY <1>1, <1>6
  <1>8. Promise!Write(i, u, in.body)
    BY <1>1, <1>3, <1>4, <1>5 DEF Promise!Write
  <1> QED
    BY <1>1, <1>7, <1>8 DEF Promise!Next

\* With one tab per device and distinct stamps, the whole system implements
\* RowHistory for every number of devices, rows, edits and faults: behind all
\* conflicts, forks and lost answers the server keeps one line of versions per
\* row, in one account, and no write is made blind (UpsertNote, applyConflict).
THEOREM RowsKeepOneHistory ==
  ASSUME OneTabEach, FineClock
  PROVE  Spec => RowsHaveOneHistory
  <1> DEFINE lines == [i \in Ids |-> [owner |-> rows[i].owner,
                                      ver   |-> rows[i].ver,
                                      edits |-> rows[i].body]]
  <1>1. Init => Promise!Init
    BY DEF Init, ServerInit, Promise!Init
  <1>2. Typed /\ IInv /\ [Next]_vars => [Promise!Next]_lines
    <2> SUFFICES ASSUME Typed, IInv, [Next]_vars
                 PROVE  Promise!Next \/ lines' = lines
      OBVIOUS
    <2>1. CASE UNCHANGED rows
      BY <2>1
    <2>2. ASSUME NEW h \in Handlers, NEW in \in handler[h].todo,
                 UpsertAccepted(h, in)
          PROVE  Promise!Next
      BY <2>2, UpsertIsWrite
    <2> QED
      BY <2>1, <2>2, OnlyUpsertsWrite
  <1> QED
    BY <1>1, <1>2, Invariant, TypedInvariant, PTL
    DEF Spec, RowsHaveOneHistory, Promise!Spec


-----------------------------------------------------------------------------
(* The cursor.  It tells the truth where all rows are of one table and no  *)
(* browser changes its account: with several tables a page may miss a row  *)
(* written between two of its queries, and the sequences of another        *)
(* account say nothing.  The invariant adds to Covers what an answer and a *)
(* page on their way know of the cursor they will meet.                    *)

OneTable   == \A i, j \in Ids : KindOf[i] = KindOf[j]
AccountsStay == [][UNCHANGED account]_account

CoversRow(d, i) ==
  /\ Stored(i)
  /\ rows[i].owner = account[d]
  /\ rows[i].seq <= cursor[d]
  => local[d][i].here /\ (local[d][i].dirty \/ local[d][i].ver = rows[i].ver)

Covers == \A d \in Devices, i \in Ids : CoversRow(d, i)

CursorOfPast == \A d \in Devices : cursor[d] <= lastSeq[account[d]]

\* The answers a tab is going to apply, built or still being built.
Heard(t) ==
  tab[t].results \cup
  (IF tab[t].pc = "sent" THEN handler[tab[t].request].results ELSE {})

\* An answer names the stored version, or the row has moved on beyond the cursor.
Timely(r, d) ==
  r.status # "forbidden" /\ rows[r.id].owner = account[d]
    => r.ver = rows[r.id].ver \/ cursor[d] < rows[r.id].seq

AnswersTimely == \A t \in Tabs : \A r \in Heard(t) : Timely(r, Dev(t))

\* A pull goes on from the cursor of its device, for the account it has.
PullsFromCursor(t) ==
  /\ tab[t].pc = "wait" =>
       /\ handler[tab[t].request].since = cursor[Dev(t)]
       /\ handler[tab[t].request].user = account[Dev(t)]
  /\ tab[t].pc = "pull" => tab[t].since = cursor[Dev(t)]

CursorInv ==
  /\ CursorOfPast
  /\ Covers
  /\ AnswersTimely
  /\ \A t \in Tabs : PullsFromCursor(t)

\* Whoever moves: sequences only rise, and a row that is written rises above
\* every sequence its account had.
LEMMA WritesLater ==
  ASSUME Typed, [Next]_vars
  PROVE  /\ \A u \in Users : lastSeq[u] \in Nat /\ lastSeq[u] <= lastSeq'[u]
         /\ \A i \in Ids : \/ rows'[i] = rows[i]
                           \/ /\ rows'[i].seq > lastSeq[rows'[i].owner]
                              /\ rows'[i].owner \in Users
  <1>1. \A u \in Users : lastSeq[u] \in Nat /\ lastSeq[u] <= lastSeq[u]
    BY SeqsAreNat DEF Typed, TypeOK
  <1>2. CASE rows' = rows /\ lastSeq' = lastSeq
    BY <1>1, <1>2
  <1>3. ASSUME NEW h \in Handlers, NEW in \in handler[h].todo,
               UpsertAccepted(h, in)
        PROVE  /\ \A u \in Users : lastSeq[u] <= lastSeq'[u]
               /\ \A i \in Ids : \/ rows'[i] = rows[i]
                                 \/ /\ rows'[i].seq > lastSeq[rows'[i].owner]
                                    /\ rows'[i].owner \in Users
    <2>1. lastSeq' = [lastSeq EXCEPT ![handler[h].user] = @ + 1]
      BY <1>3 DEF UpsertAccepted, NextSeq
    <2>2. \A u \in Users : lastSeq[u] <= lastSeq'[u]
      BY <1>1, <2>1 DEF Typed, TypeOK, ServerTypeOK
    <2>3. handler[h].user \in Users
      BY <1>3, PushInput DEF Typed, ServerIInv, UpsertAccepted
    <2> QED
      BY <1>3, <2>2, <2>3, UpsertWrites DEF Typed
  <1> QED
    BY <1>1, <1>2, <1>3, OnlyUpsertsWrite

\* What a step does to a tab, to the cursors and to the accounts.
LEMMA OtherTabsStay ==
  ASSUME Typed, NEW s \in Tabs, NEW t \in Tabs, CycleStep(s), s # t
  PROVE  tab'[t] = tab[t]
  <1>0. tab \in [Tabs -> Tab]
    BY DEF Typed, TypeOK
  <1>1. StartCycle(s) => tab'[t] = tab[t]
    BY <1>0 DEF StartCycle
  <1>2. ReceiveResults(s) => tab'[t] = tab[t]
    BY <1>0 DEF ReceiveResults
  <1>3. ApplyResult(s) => tab'[t] = tab[t]
    BY <1>0 DEF ApplyResult, ApplyAccepted, ApplyNoteConflict,
       ApplyContainerConflict, ApplyForbidden, ResultApplied
  <1>4. ApplyPage(s) => tab'[t] = tab[t]
    BY <1>0 DEF ApplyPage
  <1>5. ASSUME NEW h \in Handlers, SendBatch(s, h)
        PROVE  tab'[t] = tab[t]
    BY <1>0, <1>5 DEF SendBatch
  <1>6. ASSUME NEW h \in Handlers, AskFirstPage(s, h) \/ AskNextPage(s, h)
        PROVE  tab'[t] = tab[t]
    BY <1>0, <1>6 DEF AskFirstPage, AskNextPage, AskPage
  <1> QED
    BY <1>1, <1>2, <1>3, <1>4, <1>5, <1>6 DEF CycleStep

LEMMA TabMoves ==
  ASSUME Typed, [Next]_vars, NEW t \in Tabs
  PROVE  tab'[t] = tab[t] \/ tab'[t] = NoCycle \/ CycleStep(t)
  <1>0. tab \in [Tabs -> Tab]
    BY DEF Typed, TypeOK
  <1>1. CASE UNCHANGED tab
    BY <1>1
  <1>2. ASSUME NEW s \in Tabs, CycleStep(s), s # t
        PROVE  tab'[t] = tab[t]
    BY <1>2, OtherTabsStay
  <1>3. ASSUME NEW s \in Tabs, GiveUp(s)
        PROVE  tab'[t] = tab[t] \/ tab'[t] = NoCycle
    BY <1>0, <1>3 DEF GiveUp
  <1>4. ASSUME NEW h \in Handlers, ServerError(h)
        PROVE  tab'[t] = tab[t] \/ tab'[t] = NoCycle
    BY <1>0, <1>4 DEF ServerError
  <1>5. CASE ServerRestart
    BY <1>0, <1>5 DEF ServerRestart
  <1>6. ASSUME NEW h \in Handlers, ServerStep(h)
        PROVE  UNCHANGED tab
    BY <1>6 DEF ServerStep, Cancel, clientVars
  <1>7. ASSUME NEW d \in Devices, NEW i \in Ids, Create(d, i) \/ Edit(d, i)
        PROVE  UNCHANGED tab
    BY <1>7, Zenon DEF Create, Edit
  <1>8. ASSUME NEW d \in Devices, NEW u \in Users, SignInAs(d, u)
        PROVE  UNCHANGED tab
    BY <1>8 DEF SignInAs
  <1>9. CASE UNCHANGED vars
    BY <1>9 DEF vars, clientVars
  <1> QED
    BY <1>1, <1>2, <1>3, <1>4, <1>5, <1>6, <1>7, <1>8, <1>9 DEF Next

LEMMA CursorMoves ==
  ASSUME [Next]_vars
  PROVE  \/ cursor' = cursor
         \/ \E t \in Tabs : ApplyPage(t)
  <1>1. ASSUME NEW s \in Tabs, CycleStep(s), ~ApplyPage(s)
        PROVE  cursor' = cursor
    <2>1. StartCycle(s) => cursor' = cursor
      BY DEF StartCycle
    <2>2. ReceiveResults(s) => cursor' = cursor
      BY DEF ReceiveResults
    <2>3. ApplyResult(s) => cursor' = cursor
      BY DEF ApplyResult, ApplyAccepted, ApplyNoteConflict,
         ApplyContainerConflict, ApplyForbidden
    <2>4. ASSUME NEW h \in Handlers, SendBatch(s, h)
          PROVE  cursor' = cursor
      BY <2>4 DEF SendBatch
    <2>5. ASSUME NEW h \in Handlers, AskFirstPage(s, h) \/ AskNextPage(s, h)
          PROVE  cursor' = cursor
      BY <2>5 DEF AskFirstPage, AskNextPage, AskPage
    <2> QED
      BY <1>1, <2>1, <2>2, <2>3, <2>4, <2>5 DEF CycleStep
  <1>2. ASSUME NEW d \in Devices, NEW i \in Ids, Create(d, i) \/ Edit(d, i)
        PROVE  cursor' = cursor
    BY <1>2, Zenon DEF Create, Edit
  <1>3. ASSUME NEW s \in Tabs, GiveUp(s)
        PROVE  cursor' = cursor
    BY <1>3 DEF GiveUp
  <1>4. ASSUME NEW h \in Handlers, ServerStep(h) \/ ServerError(h)
        PROVE  cursor' = cursor
    BY <1>4 DEF ServerStep, Cancel, ServerError, clientVars
  <1>5. ServerRestart => cursor' = cursor
    BY DEF ServerRestart
  <1>6. ASSUME NEW d \in Devices, NEW u \in Users, SignInAs(d, u)
        PROVE  cursor' = cursor
    BY <1>6 DEF SignInAs
  <1>7. CASE UNCHANGED vars
    BY <1>7 DEF vars, clientVars
  <1> QED
    BY <1>1, <1>2, <1>3, <1>4, <1>5, <1>6, <1>7 DEF Next


\* What a step does to the handlers.
Arrives(h) ==
  /\ handler[h].state = "free"
  /\ handler'[h].results = {} /\ handler'[h].got = {}
  /\ \A g \in Handlers \ {h} : handler'[g] = handler[g]

LEMMA ServerMoves ==
  ASSUME Typed, [Next]_vars
  PROVE  \/ UNCHANGED serverVars
         \/ Restart
         \/ \E h \in Handlers : \/ PushRow(h) \/ Query(h)
                                \/ Respond(h) \/ HandlerFails(h)
                                \/ Arrives(h)
  <1>0. handler \in [Handlers -> Handler]
    BY DEF Typed, TypeOK, ServerTypeOK
  <1>1. ASSUME NEW t \in Tabs, CycleStep(t)
        PROVE  \/ UNCHANGED serverVars
               \/ \E h \in Handlers : Respond(h) \/ Arrives(h)
    <2>1. StartCycle(t) => UNCHANGED serverVars
      BY DEF StartCycle
    <2>2. ReceiveResults(t) => tab[t].request \in Handlers /\ Respond(tab[t].request)
      BY DEF ReceiveResults, Typed, RequestsKnown, Waits
    <2>3. ApplyResult(t) => UNCHANGED serverVars
      BY DEF ApplyResult, ApplyAccepted, ApplyNoteConflict,
         ApplyContainerConflict, ApplyForbidden
    <2>4. ApplyPage(t) => tab[t].request \in Handlers /\ Respond(tab[t].request)
      BY DEF ApplyPage, Typed, RequestsKnown, Waits
    <2>5. ASSUME NEW h \in Handlers, SendBatch(t, h)
          PROVE  Arrives(h)
      <3>1. PICK u, b : PushArrives(h, u, b)
        BY <2>5 DEF SendBatch
      <3> DEFINE new == [Idle EXCEPT !.state = "push", !.user = u, !.todo = b]
      <3>2. new.results = {} /\ new.got = {}
        BY DEF Idle
      <3>3. handler' = [handler EXCEPT ![h] = new] /\ handler[h].state = "free"
        BY <3>1 DEF PushArrives
      <3> HIDE DEF new
      <3> QED
        BY <1>0, <3>2, <3>3 DEF Arrives
    <2>6. ASSUME NEW h \in Handlers, AskFirstPage(t, h) \/ AskNextPage(t, h)
          PROVE  Arrives(h)
      <3>1. PICK u, since : PullArrives(h, u, since, PageSize)
        BY <2>6 DEF AskFirstPage, AskNextPage, AskPage
      <3> DEFINE new == [Idle EXCEPT !.state = "pull", !.user = u, !.since = since,
                           !.limit = PageSize, !.unread = Kinds,
                           !.start = lastSeq[u]]
      <3>2. new.results = {} /\ new.got = {}
        BY DEF Idle
      <3>3. handler' = [handler EXCEPT ![h] = new] /\ handler[h].state = "free"
        BY <3>1 DEF PullArrives
      <3> HIDE DEF new
      <3> QED
        BY <1>0, <3>2, <3>3 DEF Arrives
    <2> QED
      BY <1>1, <2>1, <2>2, <2>3, <2>4, <2>5, <2>6 DEF CycleStep
  <1>2. ASSUME NEW h \in Handlers, ServerStep(h) \/ ServerError(h)
        PROVE  PushRow(h) \/ Query(h) \/ HandlerFails(h)
    BY <1>2 DEF ServerStep, Cancel, ServerError
  <1>3. ASSUME NEW d \in Devices, NEW i \in Ids, Create(d, i) \/ Edit(d, i)
        PROVE  UNCHANGED serverVars
    BY <1>3, Zenon DEF Create, Edit
  <1>4. ASSUME NEW t \in Tabs, GiveUp(t)
        PROVE  UNCHANGED serverVars
    BY <1>4 DEF GiveUp
  <1>5. ServerRestart => Restart
    BY DEF ServerRestart
  <1>6. ASSUME NEW d \in Devices, NEW u \in Users, SignInAs(d, u)
        PROVE  UNCHANGED serverVars
    BY <1>6 DEF SignInAs
  <1>7. CASE UNCHANGED vars
    BY <1>7 DEF vars
  <1> QED
    BY <1>1, <1>2, <1>3, <1>4, <1>5, <1>6, <1>7 DEF Next

\* Where a new answer of a push comes from.
AnswerMade(h, in, r) ==
  /\ in \in handler[h].todo
  /\ \/ /\ UpsertAccepted(h, in)
        /\ r.id = in.id /\ r.status = "accepted" /\ r.ver = rows[in.id].ver + 1
     \/ UpsertConflict(h, in) /\ r = ServerCopy(in.id, "conflict")
     \/ UpsertForbidden(h, in) /\ r.status = "forbidden"

LEMMA AnswersMade ==
  ASSUME Typed, [Next]_vars, NEW g \in Handlers, NEW r \in handler'[g].results,
         r \notin handler[g].results
  PROVE  \E in : AnswerMade(g, in, r)
  <1>0. handler \in [Handlers -> Handler]
    BY DEF Typed, TypeOK, ServerTypeOK
  <1>1. ~(UNCHANGED serverVars)
    BY DEF serverVars
  <1>2. ~Restart
    BY DEF Restart, Idle
  <1>3. PICK h \in Handlers : \/ PushRow(h) \/ Query(h)
                              \/ Respond(h) \/ HandlerFails(h)
                              \/ Arrives(h)
    BY <1>1, <1>2, ServerMoves
  <1>4. ~Arrives(h)
    BY DEF Arrives
  <1>5. ~Respond(h) /\ ~HandlerFails(h)
    BY <1>0 DEF Respond, HandlerFails, Idle
  <1>6. ~Query(h)
    <2> SUFFICES ASSUME Query(h) PROVE FALSE
      OBVIOUS
    <2>1. handler'[g].results = handler[g].results
      BY <1>0 DEF Query, ReadTable, Handler
    <2> QED
      BY <2>1
  <1>7. PICK in \in handler[h].todo : \/ UpsertAccepted(h, in)
                                      \/ UpsertConflict(h, in)
                                      \/ UpsertForbidden(h, in)
    BY <1>3, <1>4, <1>5, <1>6 DEF PushRow
  <1>8. ASSUME NEW result, Answer(h, in, result)
        PROVE  h = g /\ r = result
    BY <1>0, <1>8 DEF Answer, Handler
  <1>9. UpsertAccepted(h, in) => AnswerMade(g, in, r)
    <2> SUFFICES ASSUME UpsertAccepted(h, in) PROVE AnswerMade(g, in, r)
      OBVIOUS
    <2>1. h = g /\ r.id = in.id /\ r.status = "accepted" /\ r.ver = rows[in.id].ver + 1
      BY <1>8 DEF UpsertAccepted
    <2> QED
      BY <2>1 DEF AnswerMade
  <1>10. UpsertConflict(h, in) => AnswerMade(g, in, r)
    <2> SUFFICES ASSUME UpsertConflict(h, in) PROVE AnswerMade(g, in, r)
      OBVIOUS
    <2>1. h = g /\ r = ServerCopy(in.id, "conflict")
      BY <1>8 DEF UpsertConflict
    <2> QED
      BY <2>1 DEF AnswerMade
  <1>11. UpsertForbidden(h, in) => AnswerMade(g, in, r)
    <2> SUFFICES ASSUME UpsertForbidden(h, in) PROVE AnswerMade(g, in, r)
      OBVIOUS
    <2>1. h = g /\ r.status = "forbidden"
      BY <1>8 DEF UpsertForbidden
    <2> QED
      BY <2>1 DEF AnswerMade
  <1> QED
    BY <1>7, <1>9, <1>10, <1>11

\* It names what its row has just become, or what it is.
LEMMA AnswersName ==
  ASSUME Typed, NEW h \in Handlers, NEW in, NEW r, AnswerMade(h, in, r)
  PROVE  r.status # "forbidden" => r.ver = rows'[r.id].ver
  <1>1. CASE UpsertAccepted(h, in)
    <2>1. rows'[in.id].ver = rows[in.id].ver + 1
      BY <1>1, UpsertWrites DEF AnswerMade, Typed
    <2>2. ~UpsertConflict(h, in)
      BY <1>1 DEF UpsertAccepted, UpsertConflict
    <2> QED
      BY <2>1, <2>2 DEF AnswerMade
  <1>2. CASE UpsertConflict(h, in) /\ r = ServerCopy(in.id, "conflict")
    BY <1>2 DEF UpsertConflict, ServerCopy
  <1> QED
    BY <1>1, <1>2 DEF AnswerMade

\* After a page the tab is idle, or has more to pull from the page's cursor.
LEMMA AfterPage ==
  ASSUME Typed, NEW t \in Tabs, ApplyPage(t)
  PROVE  /\ tab'[t].pc \in {"idle", "pull"}
         /\ tab'[t].results = {}
         /\ tab'[t].pc = "pull" => tab'[t].since = PageCursor(tab[t].request)
         /\ \A d \in Devices :
              cursor'[d] = IF d = Dev(t) THEN PageCursor(tab[t].request) ELSE cursor[d]
  <1> DEFINE h    == tab[t].request
             more == [NoCycle EXCEPT !.pc = "pull", !.since = PageCursor(h),
                                     !.pages = tab[t].pages + 1]
             new  == IF HasMore(h) /\ tab[t].pages + 1 < MaxPages THEN more ELSE NoCycle
  <1>1. tab' = [tab EXCEPT ![t] = new]
    BY DEF ApplyPage
  <1>2. cursor' = [cursor EXCEPT ![Dev(t)] = PageCursor(h)]
    BY DEF ApplyPage
  <1>3. /\ new.pc \in {"idle", "pull"} /\ new.results = {}
        /\ new.pc = "pull" => new.since = PageCursor(h)
    BY DEF NoCycle
  <1> HIDE DEF new, h
  <1>4. tab'[t] = new
    BY <1>1 DEF Typed, TypeOK
  <1>5. \A d \in Devices :
          cursor'[d] = IF d = Dev(t) THEN PageCursor(h) ELSE cursor[d]
    BY <1>2 DEF Typed, TypeOK
  <1> QED
    BY <1>3, <1>4, <1>5 DEF h

LEMMA HeardMade ==
  ASSUME Typed, [Next]_vars, NEW t \in Tabs, NEW r \in Heard(t)', r \notin Heard(t)
  PROVE  /\ tab[t].pc = "sent" /\ tab[t].request \in Handlers /\ tab'[t] = tab[t]
         /\ \E in : AnswerMade(tab[t].request, in, r)
  <1>0. tab \in [Tabs -> Tab] /\ handler \in [Handlers -> Handler]
    BY DEF Typed, TypeOK, ServerTypeOK
  <1>1. CASE tab'[t] = tab[t]
    <2>1. r \notin tab[t].results /\ tab[t].pc = "sent"
      BY <1>1 DEF Heard
    <2>2. tab[t].request \in Handlers
      BY <2>1 DEF Typed, RequestsKnown, Waits
    <2> QED
      BY <1>1, <2>1, <2>2, AnswersMade DEF Heard
  <1>2. CASE tab'[t] = NoCycle
    BY <1>2 DEF Heard, NoCycle
  <1>3. CASE CycleStep(t) /\ tab'[t] # NoCycle
    <2>1. ~StartCycle(t)
      BY <1>0 DEF StartCycle, Heard, NoCycle
    <2>2. ~ReceiveResults(t)
      BY <1>0 DEF ReceiveResults, Heard, Tab
    <2>3. ~ApplyResult(t)
      BY <1>0 DEF ApplyResult, ApplyAccepted, ApplyNoteConflict,
         ApplyContainerConflict, ApplyForbidden, ResultApplied, IsNextResult,
         Heard, Tab
    <2>4. ~ApplyPage(t)
      BY AfterPage DEF Heard
    <2>5. ASSUME NEW h \in Handlers, SendBatch(t, h)
          PROVE  FALSE
      <3> DEFINE batch == NextBatch(tab[t].queue)
                 new   == [tab[t] EXCEPT !.pc = "sent", !.queue = @ \ batch,
                                         !.batch = batch, !.request = h]
      <3>a. tab' = [tab EXCEPT ![t] = new] /\ tab[t].results = {}
        BY <1>0, <2>5 DEF SendBatch
      <3>b. new.results = tab[t].results /\ new.request = h
        BY <1>0 DEF Tab
      <3> HIDE DEF batch, new
      <3>1. tab[t].results = {} /\ tab'[t].results = tab[t].results
            /\ tab'[t].request = h
        BY <1>0, <3>a, <3>b
      <3>c. PICK u, b : PushArrives(h, u, b)
        BY <2>5 DEF SendBatch
      <3> DEFINE hd == [Idle EXCEPT !.state = "push", !.user = u, !.todo = b]
      <3>d. hd.results = {}
        BY DEF Idle
      <3>e. handler' = [handler EXCEPT ![h] = hd]
        BY <3>c DEF PushArrives
      <3> HIDE DEF hd
      <3>2. handler'[h].results = {}
        BY <1>0, <3>d, <3>e
      <3>3. tab'[t].results = {} /\ handler'[tab'[t].request].results = {}
        BY <3>1, <3>2
      <3> QED
        BY <3>3, Zenon DEF Heard
    <2>6. ASSUME NEW h \in Handlers, AskFirstPage(t, h) \/ AskNextPage(t, h)
          PROVE  FALSE
      BY <1>0, <2>6 DEF AskFirstPage, AskNextPage, AskPage, Heard, NoCycle
    <2> QED
      BY <1>3, <2>1, <2>2, <2>3, <2>4, <2>5, <2>6 DEF CycleStep
  <1> QED
    BY <1>1, <1>2, <1>3, TabMoves


\* What a step does to a row of a device: it is new, it is edited, the answer to
\* its push is applied or its copy on a page, or it is the fork of another.
Created(d, i) ==
  /\ i \notin used
  /\ edits' = edits + 1
  /\ local'[d][i].here /\ local'[d][i].dirty
  /\ local'[d][i].ver = 0
  /\ local'[d][i].stamp = edits + 1
  /\ local'[d][i].body = {edits + 1}

Edited(d, i) ==
  /\ local[d][i].here
  /\ edits' = edits + 1
  /\ local'[d][i].here /\ local'[d][i].dirty
  /\ local'[d][i].ver = local[d][i].ver
  /\ local'[d][i].stamp = edits + 1
  /\ local'[d][i].body = local[d][i].body \cup {edits + 1}

Confirmed(d, i) ==
  \E t \in Tabs : \E r \in tab[t].results, sent \in tab[t].batch :
    /\ ApplyAccepted(t, r, sent)
    /\ Dev(t) = d /\ r.id = i
    /\ local'[d][i] = Accepted(local[d][i], r, sent)

Replaced(d, i) ==
  \E t \in Tabs : \E r \in tab[t].results, sent \in tab[t].batch :
    /\ ApplyNoteConflict(t, r, sent) \/ ApplyContainerConflict(t, r, sent)
    /\ Dev(t) = d /\ r.id = i
    /\ local'[d][i] = FromWire(r.ver, r.body)

Forked(d, i) ==
  /\ i \notin used
  /\ \E j \in Ids : /\ local[d][j].here /\ local[d][j].dirty
                    /\ local'[d][i] = Fork(local[d][j])

Pulled(d, i) ==
  \E t \in Tabs :
    /\ ApplyPage(t)
    /\ Dev(t) = d
    /\ \E c \in PageRows(tab[t].request) :
         c.id = i /\ local'[d][i] = FromWire(c.ver, c.body)

RowMoves(d, i) ==
  \/ local'[d][i] = local[d][i]
  \/ Created(d, i) \/ Edited(d, i)
  \/ Confirmed(d, i) \/ Replaced(d, i) \/ Forked(d, i) \/ Pulled(d, i)

\* All rows but these of one device stay.
OnlyAt(d, I) ==
  \A c \in Devices, j \in Ids : c # d \/ j \notin I => local'[c][j] = local[c][j]

LEMMA RowCreated ==
  ASSUME Typed, NEW d \in Devices, NEW i \in Ids, Create(d, i)
  PROVE  Created(d, i) /\ OnlyAt(d, {i})
  <1> DEFINE new == [here |-> TRUE, ver |-> 0, dirty |-> TRUE,
                     stamp |-> edits + 1, body |-> {edits + 1}]
  <1>1. local' = [local EXCEPT ![d][i] = new] /\ edits' = edits + 1 /\ i \notin used
    BY Zenon DEF Create, Authored, IsFresh
  <1>2. /\ new.here /\ new.dirty /\ new.ver = 0 /\ new.stamp = edits + 1
        /\ new.body = {edits + 1}
    OBVIOUS
  <1> HIDE DEF new
  <1>3. /\ local'[d][i] = new
        /\ \A c \in Devices, j \in Ids : c # d \/ j # i => local'[c][j] = local[c][j]
    BY <1>1 DEF Typed, TypeOK
  <1>4. OnlyAt(d, {i})
    BY <1>3 DEF OnlyAt
  <1> QED
    BY <1>1, <1>2, <1>3, <1>4 DEF Created

LEMMA RowEdited ==
  ASSUME FineClock, Typed, NEW d \in Devices, NEW i \in Ids, Edit(d, i)
  PROVE  Edited(d, i) /\ OnlyAt(d, {i})
  <1> PICK row : row = local[d][i]
    OBVIOUS
  <1> PICK e : e = edits + 1
    OBVIOUS
  <1> DEFINE new == [row EXCEPT !.dirty = TRUE, !.stamp = e, !.body = @ \cup {e}]
  <1>1. local' = [local EXCEPT ![d][i] = new] /\ edits' = edits + 1 /\ row.here
    BY DEF Edit, Authored, FineClock
  <1>2. /\ new.here /\ new.dirty /\ new.ver = row.ver /\ new.stamp = e
        /\ new.body = row.body \cup {e}
    BY <1>1, Types DEF Typed, LocalRow
  <1> HIDE DEF new
  <1>3. /\ local'[d][i] = new
        /\ \A c \in Devices, j \in Ids : c # d \/ j # i => local'[c][j] = local[c][j]
    BY <1>1 DEF Typed, TypeOK
  <1>4. OnlyAt(d, {i})
    BY <1>3 DEF OnlyAt
  <1> QED
    BY <1>1, <1>2, <1>3, <1>4 DEF Edited

LEMMA RowAccepted ==
  ASSUME Typed, IInv, NEW t \in Tabs, NEW r \in tab[t].results,
         NEW sent \in tab[t].batch, ApplyAccepted(t, r, sent)
  PROVE  r.id \in Ids /\ Confirmed(Dev(t), r.id) /\ OnlyAt(Dev(t), {r.id})
  <1> DEFINE d == Dev(t)
             i == r.id
             new == Accepted(local[d][i], r, sent)
  <1>1. IsNextResult(t, r, sent)
    BY DEF ApplyAccepted
  <1>2. d \in Devices /\ i \in Ids
    BY <1>1, NextResultType
  <1>3. local[d][i].here
    BY <1>1, ResultHeld DEF Held
  <1>4. local' = [local EXCEPT ![d][i] = new]
    BY <1>3 DEF ApplyAccepted
  <1>5. local'[d][i] = new /\ OnlyAt(d, {i})
    <2> HIDE DEF new, d, i
    <2>1. /\ local'[d][i] = new
          /\ \A c \in Devices, j \in Ids :
               c # d \/ j # i => local'[c][j] = local[c][j]
      BY <1>2, <1>4 DEF Typed, TypeOK
    <2> QED BY <2>1 DEF OnlyAt
  <1> QED
    BY <1>2, <1>5 DEF Confirmed

LEMMA RowReplaced ==
  ASSUME Typed, NEW t \in Tabs, NEW r \in tab[t].results,
         NEW sent \in tab[t].batch, ApplyContainerConflict(t, r, sent)
  PROVE  r.id \in Ids /\ Replaced(Dev(t), r.id) /\ OnlyAt(Dev(t), {r.id})
  <1> DEFINE d == Dev(t)
             i == r.id
             new == FromWire(r.ver, r.body)
  <1>1. d \in Devices /\ i \in Ids
    BY NextResultType DEF ApplyContainerConflict
  <1>2. local' = [local EXCEPT ![d][i] = new]
    BY DEF ApplyContainerConflict
  <1>3. local'[d][i] = new /\ OnlyAt(d, {i})
    <2> HIDE DEF new, d, i
    <2>1. /\ local'[d][i] = new
          /\ \A c \in Devices, j \in Ids :
               c # d \/ j # i => local'[c][j] = local[c][j]
      BY <1>1, <1>2 DEF Typed, TypeOK
    <2> QED BY <2>1 DEF OnlyAt
  <1> QED
    BY <1>1, <1>3 DEF Replaced

LEMMA NoteForked ==
  ASSUME Typed, IInv, NEW t \in Tabs, NEW r \in tab[t].results,
         NEW sent \in tab[t].batch, ApplyNoteConflict(t, r, sent)
  PROVE  /\ r.id \in Ids /\ Replaced(Dev(t), r.id)
         /\ \E fork \in Ids : Forked(Dev(t), fork) /\ OnlyAt(Dev(t), {r.id, fork})
  <1> DEFINE d == Dev(t)
             i == r.id
             current == local[d][i]
             copy    == Fork(current)
             new     == FromWire(r.ver, r.body)
  <1>1. IsNextResult(t, r, sent)
    BY DEF ApplyNoteConflict
  <1>2. d \in Devices /\ i \in Ids
    BY <1>1, NextResultType
  <1>3. current.here /\ current.dirty /\ i \in used
    BY <1>1, ResultHeld DEF Held
  <1>4. PICK fork \in Ids :
          /\ fork \notin used
          /\ local' = [local EXCEPT ![d][fork] = copy, ![d][i] = new]
    BY <1>3 DEF ApplyNoteConflict, IsFresh
  <1>5. local'[d][i] = new /\ local'[d][fork] = copy /\ OnlyAt(d, {i, fork})
    <2>1. fork # i
      BY <1>3, <1>4
    <2> HIDE DEF current, copy, new, d, i
    <2> QED
      BY <1>2, <1>4, <2>1 DEF OnlyAt, Typed, TypeOK
  <1>6. Replaced(d, i)
    BY <1>5 DEF Replaced
  <1>7. Forked(d, fork)
    BY <1>2, <1>3, <1>4, <1>5 DEF Forked
  <1> QED
    BY <1>2, <1>5, <1>6, <1>7

LEMMA RowsPulled ==
  ASSUME Typed, NEW t \in Tabs, ApplyPage(t)
  PROVE  /\ Dev(t) \in Devices /\ OnlyAt(Dev(t), Ids)
         /\ \A i \in Ids : \/ local'[Dev(t)][i] = local[Dev(t)][i]
                           \/ Pulled(Dev(t), i)
  <1>1. Dev(t) \in Devices
    BY Types DEF Typed
  <1>2. PICK page : local' = [local EXCEPT ![Dev(t)] = page]
    BY DEF ApplyPage
  <1>3. OnlyAt(Dev(t), Ids)
    BY <1>1, <1>2 DEF OnlyAt, Typed, TypeOK
  <1> QED
    BY <1>1, <1>3, PageRowApplied DEF Pulled

\* The rows of one device move, if any.
LEMMA LocalMoves ==
  ASSUME FineClock, Typed, IInv, [Next]_vars
  PROVE  \/ UNCHANGED local
         \/ \E d \in Devices : /\ OnlyAt(d, Ids)
                               /\ \A i \in Ids : RowMoves(d, i)
  <1> DEFINE A == \/ UNCHANGED local
                  \/ \E d \in Devices : /\ OnlyAt(d, Ids)
                                        /\ \A i \in Ids : RowMoves(d, i)
  <1>1. ASSUME NEW d \in Devices, NEW I \in SUBSET Ids, OnlyAt(d, I),
               \A i \in I : RowMoves(d, i)
        PROVE  A
    BY <1>1 DEF OnlyAt, RowMoves
  <1>2. ASSUME NEW d \in Devices, NEW i \in Ids, Create(d, i) \/ Edit(d, i)
        PROVE  A
    <2>1. OnlyAt(d, {i}) /\ RowMoves(d, i)
      BY <1>2, RowCreated, RowEdited DEF RowMoves
    <2> HIDE DEF A
    <2> QED
      BY <1>1, <2>1
  <1>3. ASSUME NEW t \in Tabs, ApplyResult(t)
        PROVE  A
    <2>1. PICK r \in tab[t].results, sent \in tab[t].batch :
            \/ ApplyAccepted(t, r, sent)
            \/ ApplyNoteConflict(t, r, sent)
            \/ ApplyContainerConflict(t, r, sent)
            \/ ApplyForbidden(t, r, sent)
      BY <1>3 DEF ApplyResult
    <2>2. Dev(t) \in Devices
      BY Types DEF Typed
    <2>3. CASE ApplyAccepted(t, r, sent) \/ ApplyContainerConflict(t, r, sent)
      <3>1. /\ r.id \in Ids /\ OnlyAt(Dev(t), {r.id})
            /\ RowMoves(Dev(t), r.id)
        BY <2>3, RowAccepted, RowReplaced DEF RowMoves
      <3> HIDE DEF A
      <3> QED
        BY <1>1, <2>2, <3>1
    <2>4. CASE ApplyNoteConflict(t, r, sent)
      <3>1. PICK fork \in Ids :
              /\ r.id \in Ids /\ OnlyAt(Dev(t), {r.id, fork})
              /\ RowMoves(Dev(t), r.id) /\ RowMoves(Dev(t), fork)
        BY <2>4, NoteForked DEF RowMoves
      <3> HIDE DEF A
      <3> QED
        BY <1>1, <2>2, <3>1
    <2>5. CASE ApplyForbidden(t, r, sent)
      BY <2>5 DEF ApplyForbidden
    <2> QED
      BY <2>1, <2>3, <2>4, <2>5
  <1>4. ASSUME NEW t \in Tabs, ApplyPage(t)
        PROVE  A
    BY <1>4, RowsPulled DEF RowMoves
  <1>5. ASSUME NEW t \in Tabs, CycleStep(t), ~ApplyPage(t), ~ApplyResult(t)
        PROVE  UNCHANGED local
    <2>1. StartCycle(t) \/ ReceiveResults(t) => UNCHANGED local
      BY DEF StartCycle, ReceiveResults
    <2>2. ASSUME NEW h \in Handlers, SendBatch(t, h)
          PROVE  UNCHANGED local
      BY <2>2 DEF SendBatch
    <2>3. ASSUME NEW h \in Handlers, AskFirstPage(t, h) \/ AskNextPage(t, h)
          PROVE  UNCHANGED local
      BY <2>3 DEF AskFirstPage, AskNextPage, AskPage
    <2> QED
      BY <1>5, <2>1, <2>2, <2>3 DEF CycleStep
  <1>6. ASSUME NEW t \in Tabs, GiveUp(t)
        PROVE  UNCHANGED local
    BY <1>6 DEF GiveUp
  <1>7. ASSUME NEW h \in Handlers, ServerStep(h) \/ ServerError(h)
        PROVE  UNCHANGED local
    BY <1>7 DEF ServerStep, Cancel, ServerError, clientVars
  <1>8. ServerRestart => UNCHANGED local
    BY DEF ServerRestart
  <1>9. ASSUME NEW d \in Devices, NEW u \in Users, SignInAs(d, u)
        PROVE  UNCHANGED local
    BY <1>9 DEF SignInAs
  <1>10. UNCHANGED vars => UNCHANGED local
    BY DEF vars, clientVars
  <1>11. UNCHANGED local => A
    OBVIOUS
  <1> HIDE DEF A
  <1>12. ASSUME NEW t \in Tabs, CycleStep(t)
         PROVE  A
    BY <1>3, <1>4, <1>5, <1>11, <1>12
  <1>13. Next => A
    BY <1>2, <1>6, <1>7, <1>8, <1>9, <1>11, <1>12 DEF Next
  <1>14. A
    BY <1>10, <1>11, <1>13
  <1> QED
    BY <1>14 DEF A

LEMMA EachRowMoves ==
  ASSUME FineClock, Typed, IInv, [Next]_vars, NEW d \in Devices, NEW i \in Ids
  PROVE  RowMoves(d, i)
  <1>1. local'[d][i] = local[d][i] => RowMoves(d, i)
    BY DEF RowMoves
  <1>2. ASSUME NEW c \in Devices, OnlyAt(c, Ids), \A j \in Ids : RowMoves(c, j)
        PROVE  RowMoves(d, i)
    BY <1>1, <1>2 DEF OnlyAt
  <1>3. UNCHANGED local => RowMoves(d, i)
    BY <1>1
  <1> QED
    BY <1>2, <1>3, LocalMoves

\* The request of a tab that waits on goes on for it.
LEMMA WaitedStays ==
  ASSUME Typed, IInv, IInv', [Next]_vars, NEW t \in Tabs,
         tab[t].pc = "wait", tab'[t] = tab[t]
  PROVE  /\ handler'[tab[t].request].since = handler[tab[t].request].since
         /\ handler'[tab[t].request].user = handler[tab[t].request].user
  <1> DEFINE h == tab[t].request
  <1>0. handler \in [Handlers -> Handler]
    BY DEF Typed, TypeOK, ServerTypeOK
  <1>1. /\ h \in Handlers
        /\ handler[h].state = "pull" /\ handler'[h].state = "pull"
    BY DEF IInv, RequestsServed, TabServed
  <1> HIDE DEF h
  <1>2. CASE UNCHANGED serverVars
    BY <1>2 DEF serverVars, h
  <1>3. CASE Restart
    BY <1>1, <1>3 DEF Restart, Idle
  <1>4. ASSUME NEW g \in Handlers, \/ PushRow(g) \/ Query(g)
                                   \/ Respond(g) \/ HandlerFails(g)
                                   \/ Arrives(g)
        PROVE  handler'[h].since = handler[h].since /\ handler'[h].user = handler[h].user
    <2>1. CASE PushRow(g)
      <3>1. g # h
        BY <1>1, <2>1 DEF PushRow, UpsertAccepted, UpsertConflict,
                          UpsertForbidden, IsNext
      <3>2. PICK hd : handler' = [handler EXCEPT ![g] = hd]
        BY <2>1 DEF PushRow, UpsertAccepted, UpsertConflict, UpsertForbidden,
                    Answer
      <3> QED
        BY <1>0, <1>1, <3>1, <3>2
    <2>2. CASE Query(g)
      BY <1>0, <1>1, <2>2 DEF Query, ReadTable, Handler
    <2>3. CASE Respond(g) \/ HandlerFails(g)
      <3>1. handler' = [handler EXCEPT ![g] = Idle]
        BY <2>3 DEF Respond, HandlerFails
      <3>2. g # h
        BY <1>0, <1>1, <3>1 DEF Idle
      <3> QED
        BY <1>0, <1>1, <3>1, <3>2
    <2>4. CASE Arrives(g)
      BY <1>1, <2>4 DEF Arrives
    <2> QED
      BY <1>4, <2>1, <2>2, <2>3, <2>4
  <1> QED
    BY <1>2, <1>3, <1>4, ServerMoves DEF h

\* A new pull is asked for from the cursor and for the account.
LEMMA NewPulls ==
  ASSUME Typed, NEW t \in Tabs, CycleStep(t), PullsFromCursor(t)
  PROVE  /\ tab'[t].pc = "wait" =>
              /\ handler'[tab'[t].request].since = cursor[Dev(t)]
              /\ handler'[tab'[t].request].user = account[Dev(t)]
         /\ tab'[t].pc = "pull" => ApplyPage(t)
  <1>0. tab \in [Tabs -> Tab] /\ handler \in [Handlers -> Handler]
    BY DEF Typed, TypeOK, ServerTypeOK
  <1>1. CASE StartCycle(t) \/ ReceiveResults(t) \/ ApplyResult(t)
    <2>1. tab'[t].pc = "push"
      <3>1. CASE StartCycle(t)
        BY <1>0, <3>1 DEF StartCycle, NoCycle
      <3>2. CASE ReceiveResults(t)
        BY <1>0, <3>2 DEF ReceiveResults, Tab
      <3>3. CASE ApplyResult(t)
        BY <1>0, <3>3 DEF ApplyResult, ApplyAccepted, ApplyNoteConflict,
           ApplyContainerConflict, ApplyForbidden, ResultApplied, IsNextResult, Tab
      <3> QED
        BY <1>1, <3>1, <3>2, <3>3
    <2> QED
      BY <2>1
  <1>2. CASE ApplyPage(t)
    BY <1>2, AfterPage
  <1>3. ASSUME NEW h \in Handlers, SendBatch(t, h)
        PROVE  tab'[t].pc = "sent"
    <2> DEFINE batch == NextBatch(tab[t].queue)
               new   == [tab[t] EXCEPT !.pc = "sent", !.queue = @ \ batch,
                                       !.batch = batch, !.request = h]
    <2>1. tab' = [tab EXCEPT ![t] = new]
      BY <1>0, <1>3 DEF SendBatch
    <2>2. new.pc = "sent"
      BY <1>0 DEF Tab
    <2> HIDE DEF batch, new
    <2> QED
      BY <1>0, <2>1, <2>2
  <1>4. ASSUME NEW h \in Handlers, NEW since, AskPage(t, h, since),
               since = cursor[Dev(t)]
        PROVE  /\ tab'[t].pc = "wait"
               /\ handler'[tab'[t].request].since = cursor[Dev(t)]
               /\ handler'[tab'[t].request].user = account[Dev(t)]
    <2> DEFINE u   == account[Dev(t)]
               hd  == [Idle EXCEPT !.state = "pull", !.user = u, !.since = since,
                         !.limit = PageSize, !.unread = Kinds, !.start = lastSeq[u]]
               new == [NoCycle EXCEPT !.pc = "wait", !.pages = tab[t].pages,
                                      !.request = h]
    <2>1. hd.since = since /\ hd.user = u
      BY DEF Idle
    <2>2. new.pc = "wait" /\ new.request = h
      BY DEF NoCycle
    <2>3. handler' = [handler EXCEPT ![h] = hd] /\ tab' = [tab EXCEPT ![t] = new]
      BY <1>4 DEF AskPage, PullArrives
    <2> HIDE DEF u, hd, new
    <2>4. handler'[h] = hd /\ tab'[t] = new
      BY <1>0, <2>3
    <2> QED
      BY <1>4, <2>1, <2>2, <2>4 DEF u
  <1>5. ASSUME NEW h \in Handlers, AskFirstPage(t, h) \/ AskNextPage(t, h)
        PROVE  /\ tab'[t].pc = "wait"
               /\ handler'[tab'[t].request].since = cursor[Dev(t)]
               /\ handler'[tab'[t].request].user = account[Dev(t)]
    <2>1. \E since : AskPage(t, h, since) /\ since = cursor[Dev(t)]
      BY <1>5 DEF AskFirstPage, AskNextPage, PullsFromCursor
    <2> QED
      BY <1>4, <2>1
  <1> QED
    BY <1>1, <1>2, <1>3, <1>5 DEF CycleStep

\* What the page a tab waits for says of the cursor it will set.
LEMMA PageOfCursor ==
  ASSUME Typed, CursorInv, NEW t \in Tabs, ApplyPage(t)
  PROVE  LET h == tab[t].request
         IN  /\ h \in Handlers /\ PullAnswered(h) /\ handler[h].state = "pull"
             /\ handler[h].since = cursor[Dev(t)]
             /\ handler[h].user = account[Dev(t)]
             /\ PageCursor(h) <= lastSeq[account[Dev(t)]]
             /\ rows' = rows /\ lastSeq' = lastSeq
  <1> DEFINE h == tab[t].request
             u == account[Dev(t)]
  <1>1. /\ h \in Handlers /\ PullAnswered(h) /\ handler[h].state = "pull"
        /\ handler[h].since = cursor[Dev(t)]
        /\ handler[h].user = u
        /\ rows' = rows /\ lastSeq' = lastSeq
    <2>1. tab[t].pc = "wait" /\ PullAnswered(h) /\ Respond(h)
      BY DEF ApplyPage
    <2>2. h \in Handlers
      BY <2>1 DEF Typed, RequestsKnown, Waits
    <2> HIDE DEF h
    <2> QED
      BY <2>1, <2>2 DEF h, Respond, PullAnswered, CursorInv, PullsFromCursor
  <1>2. /\ PageRows(h) \subseteq handler[h].got
        /\ PageRows(h) = {} => PageCursor(h) = handler[h].since
        /\ PageRows(h) # {} => \E c \in PageRows(h) : c.seq = PageCursor(h)
    BY <1>1, PageCursorIsLast DEF Typed
  <1>3. \A c \in handler[h].got : c.seq <= lastSeq[u]
    BY <1>1 DEF Typed, Gathers, GotOfPast
  <1>4. cursor[Dev(t)] <= lastSeq[u]
    BY Types DEF CursorInv, CursorOfPast, Typed
  <1>5. PageCursor(h) <= lastSeq[u]
    <2> HIDE DEF h, u
    <2>1. CASE PageRows(h) = {}
      BY <1>1, <1>2, <1>4, <2>1
    <2>2. CASE PageRows(h) # {}
      BY <1>2, <1>3, <2>2
    <2> QED
      BY <2>1, <2>2
  <1> QED
    BY <1>1, <1>5


\* Answers stay timely: a new one names what its row is, and a row that is
\* written moves on beyond every cursor.
LEMMA AnswersTimelyStay ==
  ASSUME OneTabEach, UNCHANGED account, Typed, Typed', IInv, CursorInv, [Next]_vars
  PROVE  AnswersTimely'
  <1> SUFFICES ASSUME NEW t \in Tabs, NEW r \in Heard(t)',
                      r.status # "forbidden", r.ver # rows'[r.id].ver,
                      rows'[r.id].owner = account[Dev(t)]
               PROVE  cursor'[Dev(t)] < rows'[r.id].seq
    BY DEF AnswersTimely, Timely
  <1>1. r \in Heard(t) /\ Timely(r, Dev(t))
    BY HeardMade, AnswersName DEF CursorInv, AnswersTimely
  <1>2. r.id \in Ids /\ Dev(t) \in Devices
    <2>1. r \in Result
      BY <1>1, Types DEF Heard, Typed, RequestsKnown, Waits, Tab, Handler
    <2> QED
      BY <2>1, Types DEF Typed, Result
  <1>3. cursor'[Dev(t)] = cursor[Dev(t)]
    <2>1. ASSUME NEW s \in Tabs, ApplyPage(s), Dev(s) = Dev(t)
          PROVE  FALSE
      <3>1. s = t
        BY <2>1 DEF OneTabEach
      <3>2. Heard(t)' = {}
        BY <2>1, <3>1, AfterPage DEF Heard
      <3> QED
        BY <3>2
    <2> QED
      BY <1>2, <2>1, CursorMoves, AfterPage
  <1>4. CASE rows'[r.id] = rows[r.id]
    BY <1>1, <1>3, <1>4 DEF Timely
  <1>5. CASE rows'[r.id] # rows[r.id]
    <2>1. /\ rows'[r.id].seq > lastSeq[rows'[r.id].owner]
          /\ rows'[r.id].owner \in Users
      BY <1>2, <1>5, WritesLater
    <2>2. /\ cursor[Dev(t)] <= lastSeq[account[Dev(t)]]
          /\ cursor[Dev(t)] \in Nat /\ lastSeq[account[Dev(t)]] \in Nat
          /\ rows'[r.id].seq \in Nat
      BY <1>2, Types DEF CursorInv, CursorOfPast, Typed, TypeOK, ServerTypeOK, Row
    <2> QED
      BY <1>3, <2>1, <2>2
  <1> QED
    BY <1>4, <1>5

\* The cursor stays behind the sequences and every pull with the cursor.
LEMMA CursorStaysPast ==
  ASSUME UNCHANGED account, Typed, Typed', IInv, CursorInv, [Next]_vars
  PROVE  CursorOfPast'
  <1> SUFFICES ASSUME NEW d \in Devices
               PROVE  cursor'[d] <= lastSeq'[account'[d]]
    BY DEF CursorOfPast
  <1>1. account[d] \in Users /\ account'[d] = account[d]
    BY DEF Typed, TypeOK
  <1>2. /\ lastSeq[account[d]] \in Nat /\ lastSeq'[account[d]] \in Nat
        /\ lastSeq[account[d]] <= lastSeq'[account[d]]
        /\ cursor[d] \in Nat /\ cursor'[d] \in Nat
    BY <1>1, WritesLater DEF Typed, TypeOK, ServerTypeOK
  <1>3. cursor[d] <= lastSeq[account[d]]
    BY DEF CursorInv, CursorOfPast
  <1>4. CASE cursor' = cursor
    BY <1>1, <1>2, <1>3, <1>4
  <1>5. ASSUME NEW t \in Tabs, ApplyPage(t)
        PROVE  cursor'[d] <= lastSeq[account[d]]
    <2>1. CASE d = Dev(t)
      BY <1>5, <2>1, AfterPage, PageOfCursor
    <2>2. CASE d # Dev(t)
      BY <1>3, <1>5, <2>2, AfterPage
    <2> QED
      BY <2>1, <2>2
  <1> QED
    BY <1>1, <1>2, <1>4, <1>5, CursorMoves

LEMMA PullsStay ==
  ASSUME OneTabEach, UNCHANGED account, Typed, Typed', IInv, IInv', CursorInv,
         [Next]_vars, NEW t \in Tabs
  PROVE  PullsFromCursor(t)'
  <1>0. PullsFromCursor(t) /\ Dev(t) \in Devices
    BY Types DEF CursorInv, Typed
  <1>1. account'[Dev(t)] = account[Dev(t)]
    OBVIOUS
  <1>2. CASE ApplyPage(t)
    <2>1. cursor'[Dev(t)] = PageCursor(tab[t].request)
      BY <1>0, <1>2, AfterPage
    <2> QED
      BY <1>2, <2>1, AfterPage DEF PullsFromCursor
  <1>3. CASE ~ApplyPage(t)
    <2>1. cursor'[Dev(t)] = cursor[Dev(t)]
      <3>1. ASSUME NEW s \in Tabs, ApplyPage(s)
            PROVE  Dev(s) # Dev(t)
        BY <1>3, <3>1 DEF OneTabEach
      <3> QED
        BY <1>0, <3>1, CursorMoves, AfterPage
    <2>2. CASE tab'[t] = tab[t]
      BY <1>0, <1>1, <2>1, <2>2, WaitedStays DEF PullsFromCursor
    <2>3. CASE tab'[t] = NoCycle
      BY <2>3 DEF PullsFromCursor, NoCycle
    <2>4. CASE CycleStep(t)
      BY <1>0, <1>1, <1>3, <2>1, <2>4, NewPulls DEF PullsFromCursor
    <2> QED
      BY <2>2, <2>3, <2>4, TabMoves
  <1> QED
    BY <1>2, <1>3


\* A row of the table a page was cut from: what the page left out for want of
\* room is above the cursor it sets.
LEMMA PageCovers ==
  ASSUME OneTable, Typed, CursorInv, NEW t \in Tabs, ApplyPage(t), NEW i \in Ids,
         Stored(i), rows[i].owner = account[Dev(t)],
         rows[i].seq <= PageCursor(tab[t].request)
  PROVE  LET row == local'[Dev(t)][i]
         IN  row.here /\ (row.dirty \/ row.ver = rows[i].ver)
  <1> DEFINE h == tab[t].request
             d == Dev(t)
  <1>1. /\ h \in Handlers /\ PullAnswered(h) /\ handler[h].state = "pull"
        /\ handler[h].since = cursor[d]
        /\ rows[i].owner = handler[h].user
    BY PageOfCursor
  <1>2. /\ PageRows(h) \subseteq handler[h].got
        /\ PageRows(h) = {} => PageCursor(h) = handler[h].since
        /\ PageRows(h) # {} => \E c \in PageRows(h) : c.seq = PageCursor(h)
    BY <1>1, PageCursorIsLast DEF Typed
  <1>3. /\ handler[h].since \in Nat /\ rows[i].seq \in Nat
        /\ \A c \in handler[h].got : c.seq \in Nat /\ c.id \in Ids
    BY <1>1, Types DEF Typed, Handler, Copy, Row
  <1>4. d \in Devices /\ local[d][i] \in LocalRow
    BY Types DEF Typed
  <1> HIDE DEF h, d
  <1>5. ASSUME NEW c \in PageRows(h), c.id = i
        PROVE  c.ver = rows[i].ver
    <2>1. /\ c \in handler[h].got /\ handler[h].since < c.seq
          /\ Reached(h, i) => c = CopyOf(i)
      BY <1>1, <1>2, <1>5 DEF Typed, Gathers, GotOfPast
    <2>2. Reached(h, i)
      <3>1. CASE rows[i].seq <= handler[h].since
        BY <1>3, <1>5, <2>1, <3>1 DEF Reached
      <3>2. CASE handler[h].since < rows[i].seq
        <4>1. PICK m \in PageRows(h) : m.seq = PageCursor(h)
          BY <1>2, <1>3, <3>2 DEF h
        <4>2. m \in handler[h].got /\ rows[i].seq <= m.seq
              /\ KindOf[m.id] = KindOf[i]
          BY <1>2, <1>3, <4>1 DEF OneTable, h
        <4> QED
          BY <4>2 DEF Reached
      <3> QED
        BY <1>3, <3>1, <3>2
    <2> QED
      BY <2>1, <2>2 DEF CopyOf
  <1>6. CASE \E c \in PageRows(h) : c.id = i /\ local'[d][i] = FromWire(c.ver, c.body)
    BY <1>5, <1>6 DEF FromWire, d
  <1>7. CASE local'[d][i] = local[d][i] /\ KeepsLocal(local[d][i])
    BY <1>7 DEF KeepsLocal, d
  <1>8. CASE local'[d][i] = local[d][i] /\ \A c \in PageRows(h) : c.id # i
    <2>1. rows[i].seq <= cursor[d]
      <3> SUFFICES ASSUME ~(rows[i].seq <= cursor[d]) PROVE FALSE
        OBVIOUS
      <3>1. handler[h].since < rows[i].seq
        BY <1>1, <1>3
      <3>2. PICK m \in PageRows(h) : m.seq = PageCursor(h)
        BY <1>2, <1>3, <3>1 DEF h
      <3>3. m \in handler[h].got /\ rows[i].seq <= m.seq
            /\ KindOf[m.id] = KindOf[i]
        BY <1>2, <1>3, <3>2 DEF OneTable, h
      <3>4. Reached(h, i) /\ rows[i].seq <= PageCursor(h)
        BY <3>3 DEF Reached, h
      <3>5. CopyOf(i) \in PageRows(h)
        BY <1>1, <3>1, <3>4, ReachedIsInPage DEF Typed
      <3> QED
        BY <1>8, <3>5 DEF CopyOf
    <2>2. CoversRow(d, i)
      BY <1>4 DEF CursorInv, Covers
    <2> QED
      BY <1>8, <2>1, <2>2 DEF CoversRow, d
  <1> QED
    BY <1>6, <1>7, <1>8, PageRowApplied DEF h, d

LEMMA CoversStay ==
  ASSUME OneTabEach, FineClock, OneTable, UNCHANGED account, Typed, Typed', IInv, CursorInv,
         [Next]_vars
  PROVE  Covers'
  <1> SUFFICES ASSUME NEW d \in Devices, NEW i \in Ids,
                      Stored(i)', rows'[i].owner = account'[d],
                      rows'[i].seq <= cursor'[d]
               PROVE  local'[d][i].here
                      /\ (local'[d][i].dirty \/ local'[d][i].ver = rows'[i].ver)
    BY DEF Covers, CoversRow
  <1>1. account'[d] = account[d] /\ account[d] \in Users
    BY DEF Typed, TypeOK
  <1>2. /\ cursor[d] <= lastSeq[account[d]]
        /\ cursor[d] \in Nat /\ lastSeq[account[d]] \in Nat
        /\ rows'[i].seq \in Nat
    BY <1>1 DEF CursorInv, CursorOfPast, Typed, TypeOK, ServerTypeOK, Row
  <1>3. ASSUME NEW t \in Tabs, ApplyPage(t), Dev(t) = d
        PROVE  local'[d][i].here
               /\ (local'[d][i].dirty \/ local'[d][i].ver = rows'[i].ver)
    <2>1. rows' = rows
      BY <1>3, PageOfCursor
    <2>2. /\ Stored(i) /\ rows[i].owner = account[Dev(t)]
          /\ rows[i].seq <= PageCursor(tab[t].request)
      BY <1>1, <1>3, <2>1, AfterPage DEF Stored
    <2> QED
      BY <1>3, <2>1, <2>2, PageCovers
  <1>4. ASSUME \A t \in Tabs : ApplyPage(t) => Dev(t) # d
        PROVE  local'[d][i].here
               /\ (local'[d][i].dirty \/ local'[d][i].ver = rows'[i].ver)
    <2>1. cursor'[d] = cursor[d]
      BY <1>4, CursorMoves, AfterPage
    <2>2. rows'[i] = rows[i]
      <3> SUFFICES ASSUME rows'[i] # rows[i] PROVE FALSE
        OBVIOUS
      <3>1. rows'[i].seq > lastSeq[account[d]]
        BY <1>1, WritesLater
      <3> QED
        BY <1>2, <2>1, <3>1
    <2>3. local[d][i].here /\ (local[d][i].dirty \/ local[d][i].ver = rows[i].ver)
      BY <1>1, <2>1, <2>2 DEF CursorInv, Covers, CoversRow, Stored
    <2>4. ASSUME NEW t \in Tabs, NEW r \in tab[t].results,
                 Dev(t) = d, r.id = i, r.status # "forbidden"
          PROVE  r.ver = rows[i].ver
      <3>1. Timely(r, d)
        BY <2>4 DEF CursorInv, AnswersTimely, Heard
      <3> QED
        BY <1>2, <2>1, <2>2, <2>4, <3>1 DEF Timely
    <2>5. \/ local'[d][i] = local[d][i]
          \/ local'[d][i].here /\ local'[d][i].dirty
          \/ local'[d][i].here /\ local'[d][i].ver = rows[i].ver
      <3>1. RowMoves(d, i) /\ ~Pulled(d, i)
        BY <1>4, EachRowMoves DEF Pulled
      <3>2. Forked(d, i) => local'[d][i].here /\ local'[d][i].dirty
        BY Types DEF Forked, Fork, Typed, LocalRow
      <3>3. ASSUME NEW t \in Tabs, NEW r \in tab[t].results, NEW sent,
                   ApplyAccepted(t, r, sent), Dev(t) = d, r.id = i,
                   local'[d][i] = Accepted(local[d][i], r, sent)
            PROVE  local'[d][i].here /\ local'[d][i].ver = rows[i].ver
        <4>1. IsNextResult(t, r, sent) /\ r.status = "accepted"
          BY <3>3 DEF ApplyAccepted
        <4>2. local[d][i].here /\ local[d][i] \in LocalRow
          BY <3>3, <4>1, ResultHeld, Types DEF Held, Typed
        <4> QED
          BY <2>4, <3>3, <4>1, <4>2 DEF Accepted, LocalRow
      <3>4. ASSUME NEW t \in Tabs, NEW r \in tab[t].results, NEW sent,
                   ApplyNoteConflict(t, r, sent) \/ ApplyContainerConflict(t, r, sent),
                   Dev(t) = d, r.id = i, local'[d][i] = FromWire(r.ver, r.body)
            PROVE  local'[d][i].here /\ local'[d][i].ver = rows[i].ver
        <4>1. r.status = "conflict"
          BY <3>4 DEF ApplyNoteConflict, ApplyContainerConflict
        <4> QED
          BY <2>4, <3>4, <4>1 DEF FromWire
      <3> QED
        BY <3>1, <3>2, <3>3, <3>4 DEF RowMoves, Created, Edited, Confirmed, Replaced
    <2> QED
      BY <2>2, <2>3, <2>5
  <1> QED
    BY <1>3, <1>4

LEMMA CursorStep ==
  ASSUME OneTabEach, FineClock, OneTable, UNCHANGED account,
         Typed, Typed', IInv, IInv', CursorInv, [Next]_vars
  PROVE  CursorInv'
  BY CursorStaysPast, CoversStay, AnswersTimelyStay, PullsStay DEF CursorInv

LEMMA InitCursorInv == Init => CursorInv
  BY DEF Init, ServerInit, CursorInv, CursorOfPast, Covers, CoversRow, Stored,
     AnswersTimely, Heard, PullsFromCursor, NoCycle, DevicesAssumption

\* Where all rows are of one table and every browser keeps its account, a device
\* misses nothing at or below its cursor, for every number of devices, accounts,
\* rows, pages, edits and faults: what a pull stores with its rows (pull.ts, applyPage) is a position
\* in what the server holds (sync.go, page).
THEOREM CursorTellsTruth ==
  ASSUME OneTabEach, FineClock, OneTable
  PROVE  Spec /\ AccountsStay => []CursorCovers
  <1>1. /\ Typed /\ Typed' /\ IInv /\ IInv' /\ CursorInv
        /\ [Next]_vars /\ [UNCHANGED account]_account
        => CursorInv'
    BY CursorStep
  <1>2. CursorInv => CursorCovers
    BY DEF CursorInv, Covers, CoversRow, CursorCovers
  <1> QED
    BY <1>1, <1>2, InitCursorInv, Invariant, TypedInvariant, PTL
    DEF Spec, AccountsStay

=============================================================================
