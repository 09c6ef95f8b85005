------------------------ MODULE EditorSession_proofs ------------------------
(***************************************************************************)
(* Proofs about EditorSession, for any notes, devices, tabs, requests,     *)
(* batch and page sizes and any number of edits and faults: an editor's    *)
(* text goes into the note it was typed in.  With one tab per device and   *)
(* distinct stamps, what is typed reaches the server and nothing is sent   *)
(* back that was only received.                                            *)
(*                                                                         *)
(* Flush replaces a text, so the argument of NefixSync_proofs does not     *)
(* carry over: a write may take stored edits away.  What holds instead is  *)
(* about texts on their way.  Cycles carry texts and make none, except     *)
(* that a fork takes a text to a new note (Moves); so whatever is true of  *)
(* all texts of a note stays true until somebody types.                    *)
(***************************************************************************)
EXTENDS EditorSession, NefixSync_proofs

-----------------------------------------------------------------------------
(* Texts on their way.                                                     *)

\* The texts of row i that come from the server.
RowSays(i, b) == Stored(i) /\ b = rows[i].body
HandlerSays(h, i, b) ==
  \/ \E r \in handler[h].results : r.status # "forbidden" /\ r.id = i /\ r.body = b
  \/ \E c \in handler[h].got : c.id = i /\ c.body = b
TabHears(t, i, b) ==
  \E r \in tab[t].results : r.status # "forbidden" /\ r.id = i /\ r.body = b

Said(i, b) ==
  \/ RowSays(i, b)
  \/ \E h \in Handlers : HandlerSays(h, i, b)
  \/ \E t \in Tabs : TabHears(t, i, b)

\* The others: on a device, or sent and not yet answered.
DeviceHas(d, i, b) == local[d][i].here /\ b = local[d][i].body
TabSends(t, i, b)  == \E s \in tab[t].queue \cup tab[t].batch : s.id = i /\ s.body = b
HandlerTakes(h, i, b) == \E in \in handler[h].todo : in.id = i /\ in.body = b

Carried(i, b) ==
  \/ Said(i, b)
  \/ \E d \in Devices : DeviceHas(d, i, b)
  \/ \E t \in Tabs : TabSends(t, i, b)
  \/ \E h \in Handlers : HandlerTakes(h, i, b)

\* Nothing is made but what a fork copies under an id nobody has.
Moves ==
  \A i \in Ids : \A b :
    /\ Said(i, b)' => Said(i, b) \/ b = rows'[i].body
    /\ Carried(i, b)' =>
         \/ Carried(i, b)
         \/ i \notin used /\ KindOf[i] = "note" /\ \E j \in Ids : Carried(j, b)

-----------------------------------------------------------------------------
(* Cycles make no texts.                                                   *)

\* A step of one tab, which leaves the rows and the handlers alone.
LEMMA TabTextsMove ==
  ASSUME Typed, NEW t \in Tabs, NEW new,
         tab' = [tab EXCEPT ![t] = new],
         UNCHANGED <<rows, handler>>,
         \A i \in Ids : \A b : (\E r \in new.results :
           r.status # "forbidden" /\ r.id = i /\ r.body = b) => Said(i, b),
         \A i \in Ids : \A b : (\E s \in new.queue \cup new.batch :
           s.id = i /\ s.body = b) => Carried(i, b),
         \A d \in Devices, i \in Ids : \A b : DeviceHas(d, i, b)' =>
           \/ Carried(i, b)
           \/ i \notin used /\ KindOf[i] = "note" /\ \E j \in Ids : Carried(j, b)
  PROVE  Moves
  <1>1. tab'[t] = new /\ \A s \in Tabs \ {t} : tab'[s] = tab[s]
    BY DEF Typed, TypeOK
  <1> SUFFICES ASSUME NEW i \in Ids, NEW b
               PROVE  /\ Said(i, b)' => Said(i, b) \/ b = rows'[i].body
                      /\ Carried(i, b)' =>
                           \/ Carried(i, b)
                           \/ /\ i \notin used /\ KindOf[i] = "note"
                              /\ \E j \in Ids : Carried(j, b)
    BY DEF Moves
  <1>2. ASSUME NEW s \in Tabs, TabHears(s, i, b)' PROVE Said(i, b)
    <2>1. CASE s = t
      BY <1>1, <1>2, <2>1 DEF TabHears
    <2>2. CASE s # t
      BY <1>1, <1>2, <2>2 DEF TabHears, Said
    <2> QED
      BY <2>1, <2>2
  <1>3. ASSUME NEW s \in Tabs, TabSends(s, i, b)' PROVE Carried(i, b)
    <2>1. CASE s = t
      BY <1>1, <1>3, <2>1 DEF TabSends
    <2>2. CASE s # t
      BY <1>1, <1>3, <2>2 DEF TabSends, Carried
    <2> QED
      BY <2>1, <2>2
  <1>4. /\ RowSays(i, b)' <=> RowSays(i, b)
        /\ \A h \in Handlers : HandlerSays(h, i, b)' <=> HandlerSays(h, i, b)
        /\ \A h \in Handlers : HandlerTakes(h, i, b)' <=> HandlerTakes(h, i, b)
    BY DEF RowSays, Stored, HandlerSays, HandlerTakes
  <1>5. Said(i, b)' => Said(i, b)
    BY <1>2, <1>4 DEF Said
  <1> QED
    BY <1>3, <1>4, <1>5 DEF Carried

\* A step of a handler, with the tab that talks to it.
LEMMA HandlerTextsMove ==
  ASSUME Typed, NEW h \in Handlers, NEW hd,
         handler' = [handler EXCEPT ![h] = hd],
         \A i \in Ids : \A b : (\E in \in hd.todo : in.id = i /\ in.body = b)
           => Carried(i, b),
         \A i \in Ids : \A b : (\E r \in hd.results :
           r.status # "forbidden" /\ r.id = i /\ r.body = b)
           => Said(i, b) \/ (b = rows'[i].body /\ Carried(i, b)),
         \A i \in Ids : \A b : (\E c \in hd.got : c.id = i /\ c.body = b)
           => Said(i, b),
         \A i \in Ids : \A b : RowSays(i, b)' => Carried(i, b),
         \A i \in Ids : \A b : \A t \in Tabs : TabHears(t, i, b)' => Said(i, b),
         \A i \in Ids : \A b : \A t \in Tabs : TabSends(t, i, b)' => Carried(i, b),
         \A i \in Ids : \A b : \A d \in Devices :
           DeviceHas(d, i, b)' => Carried(i, b)
  PROVE  Moves
  <1>1. handler'[h] = hd /\ \A g \in Handlers \ {h} : handler'[g] = handler[g]
    BY DEF Typed, TypeOK, ServerTypeOK
  <1> SUFFICES ASSUME NEW i \in Ids, NEW b
               PROVE  /\ Said(i, b)' => Said(i, b) \/ b = rows'[i].body
                      /\ Carried(i, b)' => Carried(i, b)
    BY Zenon DEF Moves
  <1>2. ASSUME NEW g \in Handlers, HandlerSays(g, i, b)'
        PROVE  Said(i, b) \/ (b = rows'[i].body /\ Carried(i, b))
    <2>1. CASE g = h
      BY <1>1, <1>2, <2>1 DEF HandlerSays
    <2>2. CASE g # h
      BY <1>1, <1>2, <2>2 DEF HandlerSays, Said
    <2> QED
      BY <2>1, <2>2
  <1>3. ASSUME NEW g \in Handlers, HandlerTakes(g, i, b)' PROVE Carried(i, b)
    <2>1. CASE g = h
      BY <1>1, <1>3, <2>1 DEF HandlerTakes
    <2>2. CASE g # h
      BY <1>1, <1>3, <2>2 DEF HandlerTakes, Carried
    <2> QED
      BY <2>1, <2>2
  <1>4. Said(i, b)' => Said(i, b) \/ (b = rows'[i].body /\ Carried(i, b))
    BY <1>2 DEF Said, RowSays
  <1> QED
    BY <1>3, <1>4 DEF Carried


LEMMA NoCycleCarries ==
  NoCycle.queue = {} /\ NoCycle.batch = {} /\ NoCycle.results = {}
  BY DEF NoCycle

\* What the answers and snapshots of a tab say of the rows they name.
LEMMA HearsAndSends ==
  ASSUME NEW t \in Tabs
  PROVE  /\ \A r \in tab[t].results :
              r.status # "forbidden" => TabHears(t, r.id, r.body) /\ Said(r.id, r.body)
         /\ \A s \in tab[t].queue \cup tab[t].batch :
              TabSends(t, s.id, s.body) /\ Carried(s.id, s.body)
  <1>1. \A r \in tab[t].results : r.status # "forbidden" => TabHears(t, r.id, r.body)
    BY DEF TabHears
  <1>2. \A s \in tab[t].queue \cup tab[t].batch : TabSends(t, s.id, s.body)
    BY DEF TabSends
  <1> QED
    BY <1>1, <1>2 DEF Said, Carried

LEMMA StartCycleMoves ==
  ASSUME Typed, NEW t \in Tabs, StartCycle(t)
  PROVE  Moves
  <1> DEFINE new == [NoCycle EXCEPT !.pc = "push", !.queue = DirtyRows(Dev(t))]
  <1>1. tab' = [tab EXCEPT ![t] = new] /\ UNCHANGED <<rows, handler>> /\ UNCHANGED local
    BY DEF StartCycle, serverVars
  <1>2. new.queue = DirtyRows(Dev(t)) /\ new.batch = {} /\ new.results = {}
    BY DEF NoCycle
  <1> HIDE DEF new
  <1>3. \A s \in new.queue \cup new.batch : DeviceHas(Dev(t), s.id, s.body)
    BY <1>2 DEF DirtyRows, DeviceHas
  <1>4. \A s \in new.queue \cup new.batch : Carried(s.id, s.body)
    BY <1>3, Types DEF Carried, Typed
  <1>5. \A d \in Devices, i \in Ids : \A b : DeviceHas(d, i, b)' => Carried(i, b)
    BY <1>1 DEF DeviceHas, Carried
  <1> QED
    BY <1>1, <1>2, <1>4, <1>5, TabTextsMove

\* A step that takes from a tab's texts and leaves everything else.
LEMMA TabForgets ==
  ASSUME Typed, NEW t \in Tabs, NEW new,
         tab' = [tab EXCEPT ![t] = new],
         UNCHANGED <<rows, handler, local>>,
         new.results \subseteq tab[t].results,
         new.queue \cup new.batch \subseteq tab[t].queue \cup tab[t].batch
  PROVE  Moves
  <1>1. \A r \in new.results : r.status # "forbidden" => Said(r.id, r.body)
    BY HearsAndSends
  <1>2. \A s \in new.queue \cup new.batch : Carried(s.id, s.body)
    BY HearsAndSends
  <1>3. \A d \in Devices, i \in Ids : \A b : DeviceHas(d, i, b)' => Carried(i, b)
    BY DEF DeviceHas, Carried
  <1> QED
    BY <1>1, <1>2, <1>3, TabTextsMove

LEMMA GiveUpMoves ==
  ASSUME Typed, NEW t \in Tabs, GiveUp(t)
  PROVE  Moves
  <1>1. tab' = [tab EXCEPT ![t] = NoCycle] /\ UNCHANGED <<rows, handler, local>>
    BY DEF GiveUp, serverVars
  <1>2. /\ NoCycle.results \subseteq tab[t].results
        /\ NoCycle.queue \cup NoCycle.batch \subseteq tab[t].queue \cup tab[t].batch
    BY NoCycleCarries
  <1> QED
    BY <1>1, <1>2, TabForgets

\* One row of the device is replaced by a text the server said, or by one with
\* the text it had; a fork copies it.
LEMMA ApplyResultMoves ==
  ASSUME Typed, NEW t \in Tabs, ApplyResult(t)
  PROVE  Moves
  <1>1. PICK r \in tab[t].results, sent \in tab[t].batch :
          \/ ApplyAccepted(t, r, sent)
          \/ ApplyNoteConflict(t, r, sent)
          \/ ApplyContainerConflict(t, r, sent)
          \/ ApplyForbidden(t, r, sent)
    BY DEF ApplyResult
  <1> DEFINE d == Dev(t)
             i == r.id
             current == local[d][i]
             new == [tab[t] EXCEPT !.results = @ \ {r}]
  <1>2. d \in Devices /\ i \in Ids /\ current \in LocalRow /\ TypeOK /\ tab[t] \in Tab
    BY <1>1, NextResultType, Types DEF ApplyAccepted, ApplyNoteConflict,
       ApplyContainerConflict, ApplyForbidden, Typed
  <1>3. tab' = [tab EXCEPT ![t] = new] /\ UNCHANGED <<rows, handler>>
    BY <1>1 DEF ApplyAccepted, ApplyNoteConflict, ApplyContainerConflict,
                ApplyForbidden, ResultApplied, serverVars
  <1>4. /\ new.results \subseteq tab[t].results
        /\ new.queue \cup new.batch = tab[t].queue \cup tab[t].batch
    BY <1>2 DEF Tab
  <1>5. /\ \A q \in new.results : q.status # "forbidden" => Said(q.id, q.body)
        /\ \A s \in new.queue \cup new.batch : Carried(s.id, s.body)
    BY <1>4, HearsAndSends
  <1> HIDE DEF new
  <1>6. \A c \in Devices, j \in Ids : \A b :
          DeviceHas(c, j, b) => Carried(j, b)
    BY DEF Carried
  <1>7. ASSUME NEW c \in Devices, NEW j \in Ids, NEW b, DeviceHas(c, j, b)'
        PROVE  \/ Carried(j, b)
               \/ j \notin used /\ KindOf[j] = "note" /\ \E k \in Ids : Carried(k, b)
    <2>1. CASE local'[c][j] = local[c][j]
      BY <1>6, <1>7, <2>1 DEF DeviceHas
    <2>2. CASE ApplyAccepted(t, r, sent)
      <3>1. \/ local' = local
            \/ current.here /\ local' = [local EXCEPT ![d][i] = Accepted(current, r, sent)]
        BY <2>2 DEF ApplyAccepted
      <3>2. /\ Accepted(current, r, sent).here = current.here
            /\ Accepted(current, r, sent).body = current.body
        BY <1>2 DEF Accepted, LocalRow
      <3>3. DeviceHas(c, j, b)
        BY <1>2, <1>7, <3>1, <3>2 DEF DeviceHas, TypeOK
      <3> QED
        BY <1>6, <3>3
    <2>3. CASE ApplyNoteConflict(t, r, sent) /\ current.here
      <3>1. PICK fork \in Ids :
              /\ IsFresh(fork, "note")
              /\ used' = used \cup {fork}
              /\ local' = [local EXCEPT ![d][fork] = Fork(current),
                                        ![d][i] = FromWire(r.ver, r.body)]
        BY <2>3 DEF ApplyNoteConflict
      <3>2. Fork(current).body = current.body
        BY <1>2 DEF Fork, LocalRow
      <3>3. Said(i, r.body)
        BY <2>3, HearsAndSends DEF ApplyNoteConflict
      <3>4. \/ local'[c][j] = local[c][j]
            \/ c = d /\ j = i /\ local'[c][j] = FromWire(r.ver, r.body)
            \/ c = d /\ j = fork /\ local'[c][j] = Fork(current)
        BY <1>2, <3>1 DEF TypeOK
      <3>5. CASE c = d /\ j = i /\ local'[c][j] = FromWire(r.ver, r.body)
        BY <1>7, <3>3, <3>5 DEF DeviceHas, FromWire, Carried
      <3>6. CASE c = d /\ j = fork /\ local'[c][j] = Fork(current)
        <4>1. b = current.body /\ Carried(i, b)
          BY <1>2, <1>6, <1>7, <2>3, <3>2, <3>6 DEF DeviceHas
        <4> QED
          BY <1>2, <3>1, <3>6, <4>1 DEF IsFresh
      <3> QED
        BY <2>1, <3>4, <3>5, <3>6
    <2>4. CASE ApplyContainerConflict(t, r, sent)
      <3>1. Said(i, r.body)
        BY <2>4, HearsAndSends DEF ApplyContainerConflict
      <3>2. local' = [local EXCEPT ![d][i] = FromWire(r.ver, r.body)]
        BY <2>4 DEF ApplyContainerConflict
      <3>3. \/ local'[c][j] = local[c][j]
            \/ c = d /\ j = i /\ local'[c][j] = FromWire(r.ver, r.body)
        BY <1>2, <3>2 DEF TypeOK
      <3> QED
        BY <1>7, <2>1, <3>1, <3>3 DEF DeviceHas, FromWire, Carried
    <2>5. CASE ApplyForbidden(t, r, sent) \/ (ApplyNoteConflict(t, r, sent) /\ ~current.here)
      BY <2>1, <2>5 DEF ApplyForbidden, ApplyNoteConflict
    <2> QED
      BY <1>1, <2>2, <2>3, <2>4, <2>5
  <1> QED
    BY <1>3, <1>5, <1>7, TabTextsMove


LEMMA SendBatchMoves ==
  ASSUME Typed, NEW t \in Tabs, NEW h \in Handlers, SendBatch(t, h)
  PROVE  Moves
  <1> DEFINE batch == NextBatch(tab[t].queue)
             sent  == {[id |-> s.id, ver |-> s.ver, body |-> s.body] : s \in batch}
             new   == [tab[t] EXCEPT !.pc = "sent", !.queue = @ \ batch,
                                     !.batch = batch, !.request = h]
             hd    == [Idle EXCEPT !.state = "push", !.user = account[Dev(t)],
                                   !.todo = sent]
  <1>1. /\ tab' = [tab EXCEPT ![t] = new]
        /\ handler' = [handler EXCEPT ![h] = hd]
        /\ UNCHANGED <<rows, local>>
    BY DEF SendBatch, PushArrives
  <1>2. batch \subseteq tab[t].queue /\ TypeOK /\ tab[t] \in Tab
    BY Types DEF NextBatch, Typed
  <1>3. /\ new.queue \cup new.batch \subseteq tab[t].queue
        /\ new.results = tab[t].results
    <2> HIDE DEF batch
    <2> QED BY <1>2 DEF Tab
  <1>4. hd.results = {} /\ hd.got = {} /\ hd.todo = sent
    BY DEF Idle
  <1>5. \A in \in hd.todo : Carried(in.id, in.body)
    <2> HIDE DEF batch
    <2> QED BY <1>2, <1>4, HearsAndSends
  <1> HIDE DEF new, hd
  <1>6. tab'[t] = new /\ \A s \in Tabs \ {t} : tab'[s] = tab[s]
    BY <1>1, <1>2 DEF TypeOK
  <1>7. \A i \in Ids : \A b : \A s \in Tabs : TabHears(s, i, b)' => Said(i, b)
    BY <1>3, <1>6 DEF TabHears, Said
  <1>8. \A i \in Ids : \A b : \A s \in Tabs : TabSends(s, i, b)' => Carried(i, b)
    BY <1>3, <1>6 DEF TabSends, Carried
  <1>9. \A i \in Ids : \A b : RowSays(i, b)' => Carried(i, b)
    BY <1>1 DEF RowSays, Stored, Carried, Said
  <1>10. \A i \in Ids : \A b : \A d \in Devices :
           DeviceHas(d, i, b)' => Carried(i, b)
    BY <1>1 DEF DeviceHas, Carried
  <1> QED
    BY <1>1, <1>4, <1>5, <1>7, <1>8, <1>9, <1>10, HandlerTextsMove

\* A handler takes a pull or is done; a tab may take what it answered.
LEMMA TurnMoves ==
  ASSUME Typed, NEW h \in Handlers, NEW hd,
         handler' = [handler EXCEPT ![h] = hd],
         hd.todo = {}, hd.results = {}, hd.got = {},
         UNCHANGED rows,
         \A i \in Ids : \A b : \A t \in Tabs : TabHears(t, i, b)' => Said(i, b),
         \A i \in Ids : \A b : \A t \in Tabs : TabSends(t, i, b)' => Carried(i, b),
         \A i \in Ids : \A b : \A d \in Devices :
           DeviceHas(d, i, b)' => Carried(i, b)
  PROVE  Moves
  <1>1. \A i \in Ids : \A b : RowSays(i, b)' => Carried(i, b)
    BY DEF RowSays, Stored, Carried, Said
  <1> QED
    BY <1>1, HandlerTextsMove

LEMMA ReceiveResultsMoves ==
  ASSUME Typed, NEW t \in Tabs, ReceiveResults(t)
  PROVE  Moves
  <1> DEFINE h   == tab[t].request
             new == [tab[t] EXCEPT !.pc = "push", !.results = handler[h].results,
                                   !.request = NoHandler]
  <1>1. /\ tab' = [tab EXCEPT ![t] = new]
        /\ handler' = [handler EXCEPT ![h] = Idle]
        /\ UNCHANGED <<rows, local>>
    BY DEF ReceiveResults, Respond
  <1>2. TypeOK /\ tab[t] \in Tab /\ h \in Handlers
    BY Types DEF ReceiveResults, Typed, RequestsKnown, Waits
  <1>3. /\ new.queue = tab[t].queue /\ new.batch = tab[t].batch
        /\ new.results = handler[h].results
    BY <1>2 DEF Tab
  <1> HIDE DEF new
  <1>4. tab'[t] = new /\ \A s \in Tabs \ {t} : tab'[s] = tab[s]
    BY <1>1, <1>2 DEF TypeOK
  <1>5. \A i \in Ids : \A b : \A s \in Tabs : TabHears(s, i, b)' => Said(i, b)
    BY <1>2, <1>3, <1>4 DEF TabHears, Said, HandlerSays
  <1>6. \A i \in Ids : \A b : \A s \in Tabs : TabSends(s, i, b)' => Carried(i, b)
    BY <1>3, <1>4 DEF TabSends, Carried
  <1>7. \A i \in Ids : \A b : \A d \in Devices :
           DeviceHas(d, i, b)' => Carried(i, b)
    BY <1>1 DEF DeviceHas, Carried
  <1>8. Idle.todo = {} /\ Idle.results = {} /\ Idle.got = {}
    BY DEF Idle
  <1> QED
    BY <1>1, <1>2, <1>5, <1>6, <1>7, <1>8, TurnMoves

LEMMA AskPageMoves ==
  ASSUME Typed, NEW t \in Tabs, NEW h \in Handlers, NEW since, AskPage(t, h, since)
  PROVE  Moves
  <1> DEFINE new == [NoCycle EXCEPT !.pc = "wait", !.pages = tab[t].pages,
                                    !.request = h]
             hd  == [Idle EXCEPT !.state = "pull", !.user = account[Dev(t)],
                                 !.since = since, !.limit = PageSize,
                                 !.unread = Kinds,
                                 !.start = lastSeq[account[Dev(t)]]]
  <1>1. /\ tab' = [tab EXCEPT ![t] = new]
        /\ handler' = [handler EXCEPT ![h] = hd]
        /\ UNCHANGED <<rows, local>>
    BY DEF AskPage, PullArrives
  <1>2. /\ new.queue = {} /\ new.batch = {} /\ new.results = {}
        /\ hd.todo = {} /\ hd.results = {} /\ hd.got = {}
    BY DEF NoCycle, Idle
  <1> HIDE DEF new, hd
  <1>3. tab'[t] = new /\ \A s \in Tabs \ {t} : tab'[s] = tab[s]
    BY <1>1 DEF Typed, TypeOK
  <1>4. \A i \in Ids : \A b : \A s \in Tabs : TabHears(s, i, b)' => Said(i, b)
    BY <1>2, <1>3 DEF TabHears, Said
  <1>5. \A i \in Ids : \A b : \A s \in Tabs : TabSends(s, i, b)' => Carried(i, b)
    BY <1>2, <1>3 DEF TabSends, Carried
  <1>6. \A i \in Ids : \A b : \A d \in Devices :
           DeviceHas(d, i, b)' => Carried(i, b)
    BY <1>1 DEF DeviceHas, Carried
  <1> QED
    BY <1>1, <1>2, <1>4, <1>5, <1>6, TurnMoves

LEMMA ApplyPageMoves ==
  ASSUME Typed, NEW t \in Tabs, ApplyPage(t)
  PROVE  Moves
  <1> DEFINE d == Dev(t)
             h == tab[t].request
             pages == tab[t].pages + 1
             more == [NoCycle EXCEPT !.pc = "pull", !.since = PageCursor(h),
                                     !.pages = pages]
             new == IF HasMore(h) /\ pages < MaxPages THEN more ELSE NoCycle
  <1>1. /\ tab' = [tab EXCEPT ![t] = new]
        /\ handler' = [handler EXCEPT ![h] = Idle]
        /\ UNCHANGED rows
    BY DEF ApplyPage, Respond
  <1>2. TypeOK /\ h \in Handlers /\ d \in Devices
    BY Types DEF ApplyPage, Typed, RequestsKnown, Waits
  <1>3. /\ new.queue = {} /\ new.batch = {} /\ new.results = {}
        /\ Idle.todo = {} /\ Idle.results = {} /\ Idle.got = {}
    BY DEF NoCycle, Idle
  <1> HIDE DEF new
  <1>4. tab'[t] = new /\ \A s \in Tabs \ {t} : tab'[s] = tab[s]
    BY <1>1, <1>2 DEF TypeOK
  <1>5. \A i \in Ids : \A b : \A s \in Tabs : TabHears(s, i, b)' => Said(i, b)
    BY <1>3, <1>4 DEF TabHears, Said
  <1>6. \A i \in Ids : \A b : \A s \in Tabs : TabSends(s, i, b)' => Carried(i, b)
    BY <1>3, <1>4 DEF TabSends, Carried
  <1>7. ASSUME NEW i \in Ids, NEW b, NEW c \in Devices, DeviceHas(c, i, b)'
        PROVE  Carried(i, b)
    <2>1. CASE local'[c][i] = local[c][i]
      BY <1>7, <2>1 DEF DeviceHas, Carried
    <2>2. CASE local'[c][i] # local[c][i]
      <3>1. c = d
        BY <1>2, <2>2 DEF ApplyPage, TypeOK
      <3>2. PICK x \in PageRows(h) :
              x.id = i /\ local'[c][i] = FromWire(x.ver, x.body)
        BY <2>2, <3>1, PageRowApplied
      <3>3. x \in handler[h].got
        BY LowestIsSubset DEF PageRows
      <3> QED
        BY <1>2, <1>7, <3>2, <3>3 DEF DeviceHas, FromWire, Carried, Said, HandlerSays
    <2> QED
      BY <2>1, <2>2
  <1> QED
    BY <1>1, <1>2, <1>3, <1>5, <1>6, <1>7, TurnMoves


\* The server answers with what was sent to it, or with what it stores.
LEMMA ServerStepMoves ==
  ASSUME Typed, NEW h \in Handlers, ServerStep(h)
  PROVE  Moves
  <1> DEFINE hdl == handler[h]
  <1>1. UNCHANGED clientVars /\ TypeOK /\ hdl \in Handler
    BY Types DEF ServerStep, Cancel, Typed
  <1>2. \A i \in Ids : \A b : \A t \in Tabs : TabHears(t, i, b)' => Said(i, b)
    BY <1>1 DEF clientVars, TabHears, Said
  <1>3. \A i \in Ids : \A b : \A t \in Tabs : TabSends(t, i, b)' => Carried(i, b)
    BY <1>1 DEF clientVars, TabSends, Carried
  <1>4. \A i \in Ids : \A b : \A d \in Devices :
           DeviceHas(d, i, b)' => Carried(i, b)
    BY <1>1 DEF clientVars, DeviceHas, Carried
  <1>5. /\ \A in \in hdl.todo : Carried(in.id, in.body)
        /\ \A r \in hdl.results : r.status # "forbidden" => Said(r.id, r.body)
        /\ \A c \in hdl.got : Said(c.id, c.body)
    BY DEF Carried, HandlerTakes, Said, HandlerSays
  <1>6. UNCHANGED rows => \A i \in Ids : \A b : RowSays(i, b)' => Carried(i, b)
    BY DEF RowSays, Stored, Carried, Said
  <1>7. ASSUME NEW in \in hdl.todo, NEW result, Answer(h, in, result),
               result.id = in.id,
               result.status # "forbidden" =>
                 \/ Said(in.id, result.body)
                 \/ result.body = rows'[in.id].body /\ Carried(in.id, result.body),
               \A i \in Ids : \A b : RowSays(i, b)' => Carried(i, b)
        PROVE  Moves
    <2> DEFINE hd == [hdl EXCEPT !.todo = @ \ {in}, !.results = @ \cup {result}]
    <2>1. handler' = [handler EXCEPT ![h] = hd]
      BY <1>7 DEF Answer
    <2>2. /\ hd.todo = hdl.todo \ {in} /\ hd.results = hdl.results \cup {result}
          /\ hd.got = hdl.got
      BY <1>1 DEF Handler
    <2> HIDE DEF hd
    <2>3. \A i \in Ids : \A b : (\E r \in hd.results :
            r.status # "forbidden" /\ r.id = i /\ r.body = b)
            => Said(i, b) \/ (b = rows'[i].body /\ Carried(i, b))
      BY <1>5, <1>7, <2>2
    <2>4. \A i \in Ids : \A b : (\E c \in hd.got : c.id = i /\ c.body = b) => Said(i, b)
      BY <1>5, <2>2
    <2>5. \A i \in Ids : \A b : (\E x \in hd.todo : x.id = i /\ x.body = b)
            => Carried(i, b)
      BY <1>5, <2>2
    <2>6. \A i \in Ids : \A b : RowSays(i, b)' => Carried(i, b)
      BY <1>7
    <2> QED
      BY <1>2, <1>3, <1>4, <2>1, <2>3, <2>4, <2>5, <2>6, HandlerTextsMove
  <1>8. CASE PushRow(h)
    <2>1. PICK in \in hdl.todo :
            UpsertAccepted(h, in) \/ UpsertConflict(h, in) \/ UpsertForbidden(h, in)
      BY <1>8 DEF PushRow
    <2>2. in.id \in Ids /\ Carried(in.id, in.body)
      BY <1>1, <1>5 DEF Handler, Input
    <2>3. CASE UpsertAccepted(h, in)
      <3> DEFINE result == [id |-> in.id, status |-> "accepted",
                            ver |-> rows[in.id].ver + 1, body |-> in.body]
      <3>1. Answer(h, in, result) /\ rows'[in.id].body = in.body
        BY <2>3, UpsertWrites DEF UpsertAccepted, Typed
      <3>2. \A i \in Ids \ {in.id} : rows'[i] = rows[i]
        BY <1>1, <2>3 DEF UpsertAccepted, TypeOK, ServerTypeOK
      <3>3. \A i \in Ids : \A b : RowSays(i, b)' => Carried(i, b)
        BY <2>2, <3>1, <3>2 DEF RowSays, Stored, Carried, Said
      <3>4. /\ result.id = in.id
            /\ result.body = rows'[in.id].body /\ Carried(in.id, result.body)
        BY <2>2, <3>1
      <3> HIDE DEF result
      <3> QED
        BY <1>7, <3>1, <3>3, <3>4
    <2>4. CASE UpsertConflict(h, in)
      <3>1. Answer(h, in, ServerCopy(in.id, "conflict")) /\ UNCHANGED rows
        BY <2>4 DEF UpsertConflict
      <3>2. Said(in.id, rows[in.id].body)
        BY <2>2, <2>4 DEF UpsertConflict, IsConflict, Said, RowSays
      <3>3. /\ ServerCopy(in.id, "conflict").id = in.id
            /\ ServerCopy(in.id, "conflict").body = rows[in.id].body
        BY DEF ServerCopy
      <3> QED
        BY <1>6, <1>7, <3>1, <3>2, <3>3
    <2>5. CASE UpsertForbidden(h, in)
      <3> DEFINE result == [id |-> in.id, status |-> "forbidden", ver |-> 0,
                            body |-> NoBody]
      <3>1. Answer(h, in, result) /\ UNCHANGED rows
        BY <2>5 DEF UpsertForbidden
      <3>2. result.id = in.id /\ result.status = "forbidden"
        OBVIOUS
      <3> HIDE DEF result
      <3> QED
        BY <1>6, <1>7, <3>1, <3>2
    <2> QED
      BY <2>1, <2>3, <2>4, <2>5
  <1>9. CASE Query(h)
    <2>1. PICK k \in Kinds : ReadTable(h, k)
      BY <1>9 DEF Query
    <2> DEFINE S  == Since(hdl.user, k, hdl.since)
               L  == Lowest(S, hdl.limit + 1)
               hd == [hdl EXCEPT !.unread = @ \ {k}, !.got = @ \cup L]
    <2>2. handler' = [handler EXCEPT ![h] = hd] /\ UNCHANGED rows
      BY <2>1 DEF ReadTable
    <2>3. hd.todo = hdl.todo /\ hd.results = hdl.results /\ hd.got = hdl.got \cup L
      <3> HIDE DEF L
      <3> QED BY <1>1 DEF Handler
    <2>4. \A c \in S : Said(c.id, c.body)
      <3>1. \A i \in Ids : rows[i].owner = hdl.user => Stored(i)
        BY <2>1, UsersAssumption DEF Typed, ServerIInv, OwnersKnown,
                                     HandlersHaveUsers, ReadTable
      <3> QED
        BY <3>1 DEF Since, Said, RowSays
    <2>5. \A c \in L : Said(c.id, c.body)
      <3> HIDE DEF S
      <3> QED BY <2>4, LowestIsSubset
    <2> HIDE DEF hd, L
    <2>6. \A i \in Ids : \A b : (\E c \in hd.got : c.id = i /\ c.body = b) => Said(i, b)
      BY <1>5, <2>3, <2>5
    <2>7. \A i \in Ids : \A b : (\E r \in hd.results :
            r.status # "forbidden" /\ r.id = i /\ r.body = b) => Said(i, b)
      BY <1>5, <2>3
    <2>8. \A i \in Ids : \A b : (\E x \in hd.todo : x.id = i /\ x.body = b)
            => Carried(i, b)
      BY <1>5, <2>3
    <2> QED
      BY <1>2, <1>3, <1>4, <1>6, <2>2, <2>6, <2>7, <2>8, HandlerTextsMove
  <1>10. CASE Cancel(h)
    <2>1. handler' = [handler EXCEPT ![h] = Idle] /\ UNCHANGED rows
      BY <1>10 DEF Cancel, HandlerFails
    <2>2. Idle.todo = {} /\ Idle.results = {} /\ Idle.got = {}
      BY DEF Idle
    <2> QED
      BY <1>2, <1>3, <1>4, <2>1, <2>2, TurnMoves
  <1> QED
    BY <1>8, <1>9, <1>10 DEF ServerStep

LEMMA SyncMoves ==
  ASSUME Typed, SyncStep
  PROVE  Moves
  <1>1. ASSUME NEW t \in Tabs, CycleStep(t) PROVE Moves
    BY <1>1, StartCycleMoves, ReceiveResultsMoves, ApplyResultMoves,
       ApplyPageMoves, SendBatchMoves, AskPageMoves
    DEF CycleStep, AskFirstPage, AskNextPage
  <1> QED
    BY <1>1, GiveUpMoves, ServerStepMoves DEF SyncStep


-----------------------------------------------------------------------------
(* Rows in cycles.                                                         *)

\* A cycle confirms a row, takes the server's copy of it or forks another one
\* into its place, and leaves it alone otherwise.
ForkedFrom(d, i) ==
  /\ i \notin used /\ i \in used'
  /\ \E t \in Tabs : \E r \in tab[t].results, sent \in tab[t].batch :
       /\ ApplyNoteConflict(t, r, sent)
       /\ Dev(t) = d /\ local[d][r.id].here
       /\ local'[d][i] = Fork(local[d][r.id])

RowSyncs(d, i) ==
  \/ local'[d][i] = local[d][i]
  \/ Confirmed(d, i)
  \/ Replaced(d, i) \/ Pulled(d, i)
  \/ ForkedFrom(d, i)

LEMMA ResultRowsSync ==
  ASSUME Typed, NEW t \in Tabs, ApplyResult(t),
         NEW d \in Devices, NEW i \in Ids
  PROVE  RowSyncs(d, i)
  <1>1. PICK r \in tab[t].results, sent \in tab[t].batch :
          \/ ApplyAccepted(t, r, sent)
          \/ ApplyNoteConflict(t, r, sent)
          \/ ApplyContainerConflict(t, r, sent)
          \/ ApplyForbidden(t, r, sent)
    BY DEF ApplyResult
  <1> DEFINE c == Dev(t)
             j == r.id
             current == local[c][j]
  <1>2. c \in Devices /\ j \in Ids /\ TypeOK
    BY <1>1, NextResultType DEF ApplyAccepted, ApplyNoteConflict,
       ApplyContainerConflict, ApplyForbidden, Typed
  <1>3. CASE ApplyAccepted(t, r, sent)
    <2>1. \/ local' = local
          \/ local' = [local EXCEPT ![c][j] = Accepted(current, r, sent)]
      BY <1>3 DEF ApplyAccepted
    <2>2. \/ local'[d][i] = local[d][i]
          \/ d = c /\ i = j /\ local'[d][i] = Accepted(current, r, sent)
      BY <1>2, <2>1 DEF TypeOK
    <2> QED
      BY <1>3, <2>2 DEF RowSyncs, Confirmed
  <1>4. CASE ApplyNoteConflict(t, r, sent)
    <2>1. CASE current.here
      <3>1. PICK fork \in Ids :
              /\ IsFresh(fork, "note")
              /\ used' = used \cup {fork}
              /\ local' = [local EXCEPT ![c][fork] = Fork(current),
                                        ![c][j] = FromWire(r.ver, r.body)]
        BY <1>4, <2>1 DEF ApplyNoteConflict
      <3>2. \/ local'[d][i] = local[d][i]
            \/ d = c /\ i = j /\ local'[d][i] = FromWire(r.ver, r.body)
            \/ d = c /\ i = fork /\ local'[d][i] = Fork(current)
        BY <1>2, <3>1 DEF TypeOK
      <3>3. fork \notin used /\ fork \in used'
        BY <3>1 DEF IsFresh
      <3>4. CASE d = c /\ i = j /\ local'[d][i] = FromWire(r.ver, r.body)
        BY <1>4, <3>4 DEF RowSyncs, Replaced
      <3>5. CASE d = c /\ i = fork /\ local'[d][i] = Fork(current)
        BY <1>4, <2>1, <3>3, <3>5 DEF RowSyncs, ForkedFrom
      <3> QED
        BY <3>2, <3>4, <3>5 DEF RowSyncs
    <2> QED
      BY <1>4, <2>1 DEF ApplyNoteConflict, RowSyncs
  <1>5. CASE ApplyContainerConflict(t, r, sent)
    <2>1. local' = [local EXCEPT ![c][j] = FromWire(r.ver, r.body)]
      BY <1>5 DEF ApplyContainerConflict
    <2>2. \/ local'[d][i] = local[d][i]
          \/ d = c /\ i = j /\ local'[d][i] = FromWire(r.ver, r.body)
      BY <1>2, <2>1 DEF TypeOK
    <2> QED
      BY <1>5, <2>2 DEF RowSyncs, Replaced
  <1>6. CASE ApplyForbidden(t, r, sent)
    BY <1>6 DEF ApplyForbidden, RowSyncs
  <1> QED
    BY <1>1, <1>3, <1>4, <1>5, <1>6

LEMMA RowsSync ==
  ASSUME Typed, SyncStep, NEW d \in Devices, NEW i \in Ids
  PROVE  RowSyncs(d, i)
  <1>1. ASSUME NEW t \in Tabs, ApplyPage(t) PROVE RowSyncs(d, i)
    BY <1>1, RowsPulled DEF OnlyAt, RowSyncs
  <1>2. UNCHANGED local => RowSyncs(d, i)
    BY DEF RowSyncs
  <1>3. ASSUME NEW t \in Tabs, CycleStep(t) PROVE RowSyncs(d, i)
    <2>1. StartCycle(t) \/ ReceiveResults(t) => UNCHANGED local
      BY DEF StartCycle, ReceiveResults
    <2>2. ASSUME NEW h \in Handlers,
                 SendBatch(t, h) \/ AskFirstPage(t, h) \/ AskNextPage(t, h)
          PROVE  UNCHANGED local
      BY <2>2 DEF SendBatch, AskFirstPage, AskNextPage, AskPage
    <2> QED
      BY <1>1, <1>2, <1>3, <2>1, <2>2, ResultRowsSync DEF CycleStep
  <1>4. ASSUME NEW t \in Tabs, GiveUp(t) PROVE UNCHANGED local
    BY <1>4 DEF GiveUp
  <1>5. ASSUME NEW h \in Handlers, ServerStep(h) PROVE UNCHANGED local
    BY <1>5 DEF ServerStep, Cancel, clientVars
  <1> QED
    BY <1>2, <1>3, <1>4, <1>5 DEF SyncStep

\* No cycle takes a row off a device.
LEMMA RowsStayHere ==
  ASSUME Typed, SyncStep, NEW d \in Devices, NEW i \in Ids, local[d][i].here
  PROVE  local'[d][i].here
  <1>1. RowSyncs(d, i)
    BY RowsSync
  <1>2. \A j \in Ids : local[d][j] \in LocalRow
    BY Types DEF Typed
  <1>3. CASE Confirmed(d, i)
    <2>1. PICK r, sent : local'[d][i] = Accepted(local[d][i], r, sent)
      BY <1>3 DEF Confirmed
    <2> QED
      BY <1>2, <2>1 DEF Accepted, LocalRow
  <1>4. CASE Replaced(d, i) \/ Pulled(d, i)
    <2>1. PICK ver, body : local'[d][i] = FromWire(ver, body)
      BY <1>4 DEF Replaced, Pulled
    <2> QED
      BY <2>1 DEF FromWire
  <1>5. CASE ForkedFrom(d, i)
    <2>1. PICK t \in Tabs : \E r \in tab[t].results, sent \in tab[t].batch :
            /\ ApplyNoteConflict(t, r, sent)
            /\ Dev(t) = d /\ local[d][r.id].here
            /\ local'[d][i] = Fork(local[d][r.id])
      BY <1>5 DEF ForkedFrom
    <2>2. PICK r \in tab[t].results, sent \in tab[t].batch :
            /\ ApplyNoteConflict(t, r, sent)
            /\ Dev(t) = d /\ local[d][r.id].here
            /\ local'[d][i] = Fork(local[d][r.id])
      BY <2>1
    <2>3. r.id \in Ids
      BY <2>2, NextResultType DEF ApplyNoteConflict
    <2> QED
      BY <1>2, <2>2, <2>3 DEF Fork, LocalRow
  <1> QED
    BY <1>1, <1>3, <1>4, <1>5 DEF RowSyncs


-----------------------------------------------------------------------------
(* The text of a note.                                                     *)

\* What may be written as the text of i: a note's, of edits that were made,
\* and no other seed's.
Fits(i, body) ==
  /\ KindOf[i] = "note"
  /\ body \subseteq 1..edits
  /\ i \in Seeds => body \cap Seeds = {i}

AllFit == \A i \in Ids : \A b : Carried(i, b) => Fits(i, b)

SeedsHere ==
  /\ Seeds \subseteq used \cap (1..edits)
  /\ \A d \in Devices, i \in Seeds : local[d][i].here

\* An editor shows a note that is here, and what it has pending is for the
\* note it shows.
EditorFits(d, e) ==
  /\ e.note # NoNote => local[d][e.note].here /\ Fits(e.note, e.doc)
  /\ e.pending # NoWrite =>
       /\ e.note # NoNote /\ e.pending.id = e.note
       /\ Fits(e.note, e.pending.body) /\ e.pending.body # {}

EditorsFit == \A t \in Tabs : EditorFits(Dev(t), editor[t])

EditorParts ==
  /\ editor \in [Tabs -> Editor]
  /\ deletions \subseteq noteEdits
  /\ made \in [Devices -> SUBSET Edits]
  /\ reached \subseteq 1..edits
  /\ refused \subseteq 1..edits

FitInv ==
  /\ Typed
  /\ EditorParts
  /\ AllFit
  /\ UnstoredEmpty
  /\ SeedsHere
  /\ EditorsFit

LEMMA SeedsType ==
  /\ Cardinality(Seeds) \in Nat /\ Cardinality(Seeds) <= MaxEdits
  /\ Seeds \subseteq Ids /\ Seeds \subseteq Edits
  /\ \A i \in Seeds : i \in Nat /\ i # 0 /\ KindOf[i] = "note"
  <1>1. /\ Seeds \subseteq Ids /\ Seeds \subseteq Edits
        /\ \A i \in Seeds : KindOf[i] = "note"
    BY SeedsAssumption
  <1>2. IsFiniteSet(Edits) /\ Cardinality(Edits) = MaxEdits
    BY BoundsAssumption, FS_Interval DEF Edits
  <1>3. Cardinality(Seeds) \in Nat /\ Cardinality(Seeds) <= MaxEdits
    BY <1>1, <1>2, FS_Subset, FS_CardinalityType
  <1> QED
    BY <1>1, <1>3 DEF Edits

LEMMA FitsOn ==
  ASSUME edits \in Nat, edits' \in Nat, edits <= edits',
         NEW i, NEW b, Fits(i, b)
  PROVE  Fits(i, b)'
  BY DEF Fits

LEMMA EditorTypes ==
  ASSUME FitInv, NEW t \in Tabs
  PROVE  /\ Dev(t) \in Devices
         /\ editor[t] \in Editor
         /\ editor[t].note \in Ids \cup {NoNote}
         /\ editor[t].note # NoNote => editor[t].note \in Ids
         /\ EditorFits(Dev(t), editor[t])
         /\ 0 \notin Ids
  BY Types, SeedsAssumption DEF FitInv, Typed, EditorParts, EditorsFit, Editor

\* Without a cycle that sends, texts come from the rows of the devices only.
LEMMA NewTexts ==
  ASSUME UNCHANGED handler,
         \A s \in Tabs : tab'[s] = tab[s] \/ tab'[s] = NoCycle,
         NEW i \in Ids, NEW b, Carried(i, b)'
  PROVE  \/ Carried(i, b)
         \/ RowSays(i, b)'
         \/ \E d \in Devices : DeviceHas(d, i, b)'
  <1>1. /\ \A h \in Handlers : HandlerSays(h, i, b)' => HandlerSays(h, i, b)
        /\ \A h \in Handlers : HandlerTakes(h, i, b)' => HandlerTakes(h, i, b)
    BY DEF HandlerSays, HandlerTakes
  <1>2. ASSUME NEW s \in Tabs
        PROVE  /\ TabHears(s, i, b)' => TabHears(s, i, b)
               /\ TabSends(s, i, b)' => TabSends(s, i, b)
    <2>1. CASE tab'[s] = tab[s]
      BY <2>1 DEF TabHears, TabSends
    <2>2. CASE tab'[s] = NoCycle
      BY <2>2, NoCycleCarries DEF TabHears, TabSends
    <2> QED
      BY <2>1, <2>2
  <1> QED
    BY <1>1, <1>2 DEF Carried, Said

\* What was reached has been made.
LEMMA ReachedType ==
  ASSUME reached' = reached \cup UNION {rows'[i].body : i \in Ids},
         reached \subseteq 1..edits', AllFit', UnstoredEmpty'
  PROVE  reached' \subseteq 1..edits'
  <1>1. ASSUME NEW i \in Ids PROVE rows'[i].body \subseteq 1..edits'
    <2>1. CASE Stored(i)'
      <3>1. Carried(i, rows[i].body)'
        BY <2>1 DEF Carried, Said, RowSays
      <3> QED
        BY <3>1 DEF AllFit, Fits
    <2>2. CASE ~Stored(i)'
      BY <2>2 DEF UnstoredEmpty
    <2> QED
      BY <2>1, <2>2
  <1> QED
    BY <1>1


\* A step of one editor: it changes the device's rows, and nothing else that
\* carries a text.
LEMMA DeviceStepFits ==
  ASSUME FitInv, NEW t \in Tabs, NEW e \in Editor,
         UNCHANGED serverVars, ClientTypeOK', edits <= edits', used' = used,
         \A s \in Tabs : tab'[s] = tab[s] \/ tab'[s] = NoCycle,
         editor' = [editor EXCEPT ![t] = e],
         EditorFits(Dev(t), e)',
         \A d \in Devices, i \in Ids : local[d][i].here => local'[d][i].here,
         \A d \in Devices, i \in Ids : \A b :
           DeviceHas(d, i, b)' => Carried(i, b) \/ Fits(i, b)',
         deletions' \subseteq noteEdits', made' \in [Devices -> SUBSET Edits],
         refused' \subseteq 1..edits',
         reached' = reached \cup UNION {rows'[i].body : i \in Ids}
  PROVE  FitInv'
  <1>1. edits \in Nat /\ edits' \in Nat
    BY DEF FitInv, Typed, TypeOK, ClientTypeOK
  <1>2. Typed'
    BY ServerSame DEF FitInv, Typed, TypeOK, ClientTypeOK, ServerIInv
  <1>3. UnstoredEmpty'
    BY DEF FitInv, UnstoredEmpty, Stored, serverVars
  <1>4. ASSUME NEW i \in Ids, NEW b, Carried(i, b)' PROVE Fits(i, b)'
    <2>1. RowSays(i, b)' => Carried(i, b)
      BY DEF RowSays, Stored, Carried, Said, serverVars
    <2>2. Carried(i, b) \/ Fits(i, b)'
      BY <1>4, <2>1, NewTexts DEF serverVars
    <2>3. Carried(i, b) => Fits(i, b)
      BY DEF FitInv, AllFit
    <2> QED
      BY <1>1, <2>2, <2>3, FitsOn
  <1>5. AllFit'
    BY <1>4 DEF AllFit
  <1>6. 1..edits \subseteq 1..edits'
    BY <1>1
  <1>7. SeedsHere'
    BY <1>6, SeedsType DEF FitInv, SeedsHere
  <1>8. editor' \in [Tabs -> Editor]
    BY DEF FitInv, EditorParts
  <1>9. reached' \subseteq 1..edits'
    BY <1>3, <1>5, <1>6, ReachedType DEF FitInv, EditorParts
  <1>10. ASSUME NEW s \in Tabs PROVE EditorFits(Dev(s), editor[s])'
    <2>1. CASE s = t
      BY <2>1 DEF FitInv, EditorParts, Dev
    <2>2. CASE s # t
      <3>1. editor'[s] = editor[s]
        BY <2>2 DEF FitInv, EditorParts
      <3>2. /\ EditorFits(Dev(s), editor[s]) /\ Dev(s) \in Devices
            /\ editor[s].note # NoNote => editor[s].note \in Ids
        BY EditorTypes
      <3>3. \A i \in Ids : \A b : Fits(i, b) => Fits(i, b)'
        BY <1>1, FitsOn
      <3> QED
        BY <3>1, <3>2, <3>3 DEF EditorFits, Dev
    <2> QED
      BY <2>1, <2>2
  <1> QED
    BY <1>2, <1>3, <1>5, <1>7, <1>8, <1>9, <1>10
    DEF FitInv, EditorParts, EditorsFit

\* The edit a text is stamped with.
LEMMA NewestIs ==
  ASSUME NEW text \in SUBSET Edits, text # {}
  PROVE  Newest(text) \in text /\ Newest(text) \in 0..MaxEdits
  <1>1. text \subseteq Nat /\ MaxEdits \in Nat /\ \A e \in text : e <= MaxEdits
    BY BoundsAssumption DEF Edits
  <1>2. \E m \in text : \A e \in text : e <= m
    BY <1>1, MaxExists
  <1>3. Newest(text) \in text
    BY <1>2 DEF Newest
  <1>4. \A e \in text : e \in 0..MaxEdits
    BY <1>1 DEF Edits
  <1> QED
    BY <1>3, <1>4

\* What is flushed is a text of the note it was typed in.
LEMMA FlushFits ==
  ASSUME FitInv, NEW t \in Tabs, NEW open, Flush(t, open)
  PROVE  /\ local' \in [Devices -> [Ids -> LocalRow]]
         /\ refused' \subseteq 1..edits
         /\ \A d \in Devices, i \in Ids : local'[d][i].here = local[d][i].here
         /\ \A d \in Devices, i \in Ids : \A b :
              DeviceHas(d, i, b)' => Carried(i, b) \/ Fits(i, b)
  <1> DEFINE write == editor[t].pending
             d == Dev(t)
             j == write.id
             new == Saved(local[d][j], write)
  <1>0. /\ local \in [Devices -> [Ids -> LocalRow]] /\ refused \subseteq 1..edits
        /\ \A c \in Devices, i \in Ids : \A b : DeviceHas(c, i, b) => Carried(i, b)
    BY DEF FitInv, Typed, TypeOK, EditorParts, Carried
  <1>1. CASE UNCHANGED <<local, refused>>
    BY <1>0, <1>1 DEF DeviceHas
  <1>2. CASE write # NoWrite
    <2>1. /\ d \in Devices /\ j \in Ids /\ Fits(j, write.body)
          /\ write.body # {} /\ write.body \in SUBSET Edits /\ local[d][j].here
      BY <1>2, EditorTypes DEF EditorFits, Editor
    <2>2. CASE Deleted(local[d][j].body)
      <3>1. refused' = refused \cup write.body /\ UNCHANGED local
        BY <1>2, <2>2 DEF Flush
      <3> QED
        BY <1>0, <2>1, <3>1 DEF DeviceHas, Fits
    <2>3. CASE ~Deleted(local[d][j].body)
      <3>1. local' = [local EXCEPT ![d][j] = new] /\ UNCHANGED refused
        BY <1>2, <2>3 DEF Flush
      <3>2. local[d][j] \in LocalRow
        BY <1>0, <2>1
      <3>3. /\ new \in LocalRow
            /\ new.here = local[d][j].here /\ new.body = write.body
        BY <2>1, <3>2, NewestIs DEF Saved, LocalRow
      <3> HIDE DEF new
      <3>4. local' \in [Devices -> [Ids -> LocalRow]]
        BY <1>0, <2>1, <3>1, <3>3
      <3>5. ASSUME NEW c \in Devices, NEW i \in Ids
            PROVE  \/ local'[c][i] = local[c][i]
                   \/ c = d /\ i = j /\ local'[c][i] = new
        BY <1>0, <3>1
      <3>6. \A c \in Devices, i \in Ids : local'[c][i].here = local[c][i].here
        BY <3>3, <3>5
      <3>7. ASSUME NEW c \in Devices, NEW i \in Ids, NEW b, DeviceHas(c, i, b)'
            PROVE  Carried(i, b) \/ Fits(i, b)
        <4>1. CASE local'[c][i] = local[c][i]
          BY <1>0, <3>7, <4>1 DEF DeviceHas
        <4>2. CASE i = j /\ local'[c][i] = new
          BY <2>1, <3>3, <3>7, <4>2 DEF DeviceHas
        <4> QED
          BY <3>5, <4>1, <4>2
      <3> QED
        BY <1>0, <3>1, <3>4, <3>6, <3>7
    <2> QED
      BY <2>2, <2>3
  <1> QED
    BY <1>1, <1>2 DEF Flush


\* The steps of an editor that neither make an edit nor start a cycle.
LEMMA QuietStepFits ==
  ASSUME FitInv, NEW t \in Tabs, NEW e \in Editor, NEW open, Flush(t, open), Rest,
         editor' = [editor EXCEPT ![t] = e], EditorFits(Dev(t), e),
         tab' = tab \/ tab' = [tab EXCEPT ![t] = NoCycle],
         UNCHANGED faults \/ Fault,
         UNCHANGED <<deletions, made>>,
         reached' = reached \cup UNION {rows'[i].body : i \in Ids}
  PROVE  FitInv'
  <1>1. /\ local' \in [Devices -> [Ids -> LocalRow]]
        /\ refused' \subseteq 1..edits
        /\ \A d \in Devices, i \in Ids : local'[d][i].here = local[d][i].here
        /\ \A d \in Devices, i \in Ids : \A b :
             DeviceHas(d, i, b)' => Carried(i, b) \/ Fits(i, b)
    BY FlushFits
  <1>2. UNCHANGED <<serverVars, cursor, account, used, edits, noteEdits>>
    BY Zenon DEF Rest
  <1>3. Typed /\ TypeOK /\ Dev(t) \in Devices /\ edits \in Nat
    BY EditorTypes DEF FitInv, Typed, TypeOK
  <1>4. faults' \in 0..MaxFaults
    BY <1>3, FaultType DEF TypeOK
  <1>5. /\ tab' \in [Tabs -> Tab]
        /\ \A s \in Tabs : tab'[s] = tab[s] \/ tab'[s] = NoCycle
    BY <1>3, NoCycleType DEF TypeOK
  <1>6. RequestsKnown'
    BY <1>3, <1>5, NoCycleType DEF Typed, RequestsKnown
  <1>7. ClientTypeOK'
    BY <1>1, <1>2, <1>3, <1>4, <1>5, <1>6 DEF ClientTypeOK, TypeOK
  <1>8. \A i, b : Fits(i, b)' <=> Fits(i, b)
    BY <1>2 DEF Fits
  <1>9. EditorFits(Dev(t), e)'
    <2>1. e.note # NoNote => e.note \in Ids
      BY DEF Editor
    <2>2. Dev(t)' = Dev(t)
      BY DEF Dev
    <2> QED
      BY <1>1, <1>3, <1>8, <2>1, <2>2 DEF EditorFits
  <1>10. edits <= edits' /\ refused' \subseteq 1..edits' /\ used' = used
    BY <1>1, <1>2, <1>3
  <1>11. /\ deletions' \subseteq noteEdits' /\ made' \in [Devices -> SUBSET Edits]
    BY <1>2 DEF FitInv, EditorParts
  <1>12. UNCHANGED serverVars
    BY <1>2
  <1>13. \A d \in Devices, i \in Ids : local[d][i].here => local'[d][i].here
    BY <1>1
  <1>14. \A d \in Devices, i \in Ids : \A b :
           DeviceHas(d, i, b)' => Carried(i, b) \/ Fits(i, b)'
    BY <1>1, <1>8
  <1> QED
    BY <1>5, <1>7, <1>9, <1>10, <1>11, <1>12, <1>13, <1>14, DeviceStepFits

Reaches == reached' = reached \cup UNION {rows'[i].body : i \in Ids}

LEMMA AutosaveFits ==
  ASSUME FitInv, NEW t \in Tabs, AutosaveFires(t), Reaches
  PROVE  FitInv'
  <1> DEFINE e == [editor[t] EXCEPT !.pending = NoWrite]
  <1>1. /\ Flush(t, editor[t].note) /\ Rest
        /\ editor' = [editor EXCEPT ![t] = e]
        /\ UNCHANGED <<tab, faults, deletions, made>>
    BY DEF AutosaveFires
  <1>2. editor[t] \in Editor /\ EditorFits(Dev(t), editor[t])
    BY EditorTypes
  <1>3. /\ e \in Editor /\ e.note = editor[t].note /\ e.doc = editor[t].doc
        /\ e.pending = NoWrite
    BY <1>2 DEF Editor, NoWrite
  <1> HIDE DEF e
  <1>4. EditorFits(Dev(t), e)
    BY <1>2, <1>3 DEF EditorFits
  <1> QED
    BY <1>1, <1>3, <1>4, QuietStepFits DEF Reaches

LEMMA ClosedFits == Closed \in Editor /\ \A d : EditorFits(d, Closed)
  BY DEF Closed, Editor, NoWrite, EditorFits

LEMMA LeaveFits ==
  ASSUME FitInv, NEW t \in Tabs, Leave(t), Reaches
  PROVE  FitInv'
  BY ClosedFits, QuietStepFits DEF Leave, Reaches

LEMMA TabEndsFits ==
  ASSUME FitInv, NEW t \in Tabs, TabEnds(t), Reaches
  PROVE  FitInv'
  BY ClosedFits, QuietStepFits DEF TabEnds, Reaches

LEMMA HereFits ==
  ASSUME FitInv, NEW d \in Devices, NEW i \in Ids, local[d][i].here
  PROVE  Fits(i, local[d][i].body)
  BY DEF FitInv, AllFit, Carried, DeviceHas

LEMMA OpenFits ==
  ASSUME FitInv, NEW t \in Tabs, NEW i \in Ids, Open(t, i), Reaches
  PROVE  FitInv'
  <1> DEFINE row == local[Dev(t)][i]
             e == [Closed EXCEPT !.note = i, !.doc = row.body]
  <1>1. /\ Flush(t, i) /\ Rest /\ row.here
        /\ editor' = [editor EXCEPT ![t] = e]
        /\ UNCHANGED <<tab, faults, deletions, made>>
    BY DEF Open
  <1>2. Dev(t) \in Devices /\ row \in LocalRow
    BY EditorTypes, Types DEF FitInv, Typed
  <1>3. Fits(i, row.body)
    BY <1>1, <1>2, HereFits
  <1>4. e \in Editor /\ e.note = i /\ e.doc = row.body /\ e.pending = NoWrite
    BY <1>2 DEF Editor, Closed, NoWrite, LocalRow
  <1> HIDE DEF e
  <1>5. EditorFits(Dev(t), e)
    BY <1>1, <1>3, <1>4 DEF EditorFits
  <1> QED
    BY <1>1, <1>4, <1>5, QuietStepFits DEF Reaches

\* A row that is seen changes the document, and nothing that is written.
LEMMA RowSeenFits ==
  ASSUME FitInv, NEW t \in Tabs, RowSeen(t), Reaches
  PROVE  FitInv'
  <1> DEFINE row == local[Dev(t)][editor[t].note]
             calm == [editor[t] EXCEPT !.unsaved = FALSE]
             take == [editor[t] EXCEPT !.doc = row.body]
  <1>1. /\ editor[t].note # NoNote
        /\ UNCHANGED <<vars, deletions, made, refused>>
        /\ \/ editor' = [editor EXCEPT ![t] = calm]
           \/ editor' = [editor EXCEPT ![t] = take]
    BY DEF RowSeen
  <1>2. /\ editor[t] \in Editor /\ EditorFits(Dev(t), editor[t])
        /\ Dev(t) \in Devices /\ editor[t].note \in Ids /\ row \in LocalRow
    BY <1>1, EditorTypes, Types DEF FitInv, Typed
  <1>3. row.here /\ Fits(editor[t].note, row.body)
    BY <1>1, <1>2, HereFits DEF EditorFits
  <1>4. /\ calm \in Editor /\ calm.note = editor[t].note
        /\ calm.doc = editor[t].doc /\ calm.pending = editor[t].pending
    BY <1>2 DEF Editor
  <1>5. /\ take \in Editor /\ take.note = editor[t].note
        /\ take.doc = row.body /\ take.pending = editor[t].pending
    BY <1>2 DEF Editor, LocalRow
  <1> HIDE DEF calm, take
  <1>6. EditorFits(Dev(t), calm) /\ EditorFits(Dev(t), take)
    BY <1>2, <1>3, <1>4, <1>5 DEF EditorFits
  <1>7. PICK e \in Editor : /\ editor' = [editor EXCEPT ![t] = e]
                            /\ EditorFits(Dev(t), e)
    BY <1>1, <1>4, <1>5, <1>6
  <1>8. UNCHANGED <<serverVars, local, cursor, tab, account, used, edits,
                    noteEdits, faults>>
    BY <1>1 DEF vars, clientVars
  <1>9. EditorFits(Dev(t), e)'
    BY <1>7, <1>8 DEF EditorFits, Fits, Dev
  <1>10. ClientTypeOK'
    BY <1>8, ClientSame DEF FitInv, Typed, TypeOK
  <1>11. \A d \in Devices, i \in Ids : \A b :
           DeviceHas(d, i, b)' => Carried(i, b)
    BY <1>8 DEF DeviceHas, Carried
  <1>12. edits <= edits' /\ edits' = edits
    BY <1>8 DEF FitInv, Typed, TypeOK
  <1>13. /\ deletions' \subseteq noteEdits' /\ made' \in [Devices -> SUBSET Edits]
         /\ refused' \subseteq 1..edits'
    BY <1>1, <1>8 DEF FitInv, EditorParts
  <1>14. /\ UNCHANGED serverVars /\ used' = used
         /\ \A s \in Tabs : tab'[s] = tab[s]
         /\ \A d \in Devices, i \in Ids : local[d][i].here => local'[d][i].here
    BY <1>8
  <1> QED
    BY <1>7, <1>9, <1>10, <1>11, <1>12, <1>13, <1>14, DeviceStepFits DEF Reaches


-----------------------------------------------------------------------------
(* Edits.                                                                  *)

\* A text of a note with the edit that is being made.
LEMMA FitsMore ==
  ASSUME FitInv, NEW i \in Ids, NEW b, NEW more, Fits(i, b), Authored(i),
         more = b \cup {edits + 1}
  PROVE  Fits(i, more)'
  <1>1. edits \in Nat /\ edits' = edits + 1 /\ Seeds \subseteq 1..edits
    BY DEF FitInv, Typed, TypeOK, Authored, SeedsHere
  <1>2. edits + 1 \notin Seeds /\ edits + 1 \in 1..edits' /\ 1..edits \subseteq 1..edits'
    BY <1>1
  <1>3. more \cap Seeds = b \cap Seeds
    BY <1>2
  <1>4. more \subseteq 1..edits'
    BY <1>2 DEF Fits
  <1> QED
    BY <1>3, <1>4 DEF Fits

\* What an edit leaves as typed as it was.
LEMMA AuthoredParts ==
  ASSUME FitInv, NEW i \in Ids, KindOf[i] = "note", Authored(i)
  PROVE  /\ edits \in Nat /\ edits' = edits + 1 /\ edits + 1 \in Edits
         /\ edits <= edits' /\ edits' \in 0..MaxEdits
         /\ noteEdits' = noteEdits \cup {edits + 1} /\ noteEdits' \subseteq 1..edits'
         /\ 1..edits \subseteq 1..edits' /\ edits + 1 \notin 1..edits
         /\ refused \subseteq 1..edits' /\ reached \subseteq 1..edits'
  <1>1. /\ edits \in Nat /\ edits + 1 \in Edits /\ edits' \in 0..MaxEdits
        /\ noteEdits' \subseteq 1..edits'
    BY AuthoredType DEF FitInv
  <1>2. edits' = edits + 1 /\ noteEdits' = noteEdits \cup {edits + 1}
    BY DEF Authored
  <1> QED
    BY <1>1, <1>2 DEF FitInv, EditorParts

\* What a keystroke makes of the editor and of the histories.
LEMMA TypedDoc ==
  ASSUME FitInv, NEW t \in Tabs, Type(t)
  PROVE  \E new \in Editor :
           /\ editor' = [editor EXCEPT ![t] = new]
           /\ new.note = editor[t].note /\ new.unsaved
           /\ new.doc = editor[t].doc \cup {edits + 1}
           /\ new.pending.id = new.note /\ new.pending.body = new.doc
           /\ new.note \in Ids /\ new.note # NoNote
           /\ local[Dev(t)][new.note].here /\ KindOf[new.note] = "note"
           /\ Authored(new.note) /\ Fits(new.note, editor[t].doc)
           /\ edits + 1 \in Edits
           /\ made' = [made EXCEPT ![Dev(t)] = @ \cup {edits + 1}]
           /\ UNCHANGED <<serverVars, local, cursor, tab, account, used, faults,
                          deletions, refused>>
  <1> DEFINE note == editor[t].note
  <1>0. PICK doc : doc = editor[t].doc \cup {edits + 1}
    OBVIOUS
  <1> DEFINE pend == [id |-> note, body |-> doc]
             e1 == [editor[t] EXCEPT !.doc = doc]
             e2 == [e1 EXCEPT !.unsaved = TRUE]
             e  == [e2 EXCEPT !.pending = pend]
  <1>1. /\ note # NoNote /\ Authored(note)
        /\ editor' = [editor EXCEPT ![t].doc = doc, ![t].unsaved = TRUE,
                                    ![t].pending = pend]
        /\ made' = [made EXCEPT ![Dev(t)] = @ \cup {edits + 1}]
        /\ UNCHANGED <<serverVars, local, cursor, tab, account, used, faults,
                       deletions, refused>>
    BY <1>0 DEF Type
  <1>2. /\ editor[t] \in Editor /\ EditorFits(Dev(t), editor[t])
        /\ note \in Ids /\ editor \in [Tabs -> Editor]
    BY <1>1, EditorTypes DEF FitInv, EditorParts
  <1>3. Fits(note, editor[t].doc) /\ local[Dev(t)][note].here
    BY <1>1, <1>2 DEF EditorFits
  <1>4. KindOf[note] = "note"
    BY <1>3 DEF Fits
  <1>5. edits + 1 \in Edits
    BY <1>1, <1>2, <1>4, AuthoredParts
  <1>6. doc \in SUBSET Edits /\ pend.id = note /\ pend.body = doc
        /\ pend \in [id : Ids \cup {NoNote}, body : SUBSET Edits]
    BY <1>0, <1>2, <1>5 DEF Editor
  <1> HIDE DEF pend
  <1>7. e1 \in Editor /\ e1.note = note /\ e1.doc = doc
    BY <1>2, <1>6 DEF Editor
  <1>8. e2 \in Editor /\ e2.note = note /\ e2.doc = doc /\ e2.unsaved
    <2> HIDE DEF e1, note
    <2> QED BY <1>7 DEF Editor
  <1>9. e \in Editor /\ e.note = note /\ e.doc = doc /\ e.unsaved /\ e.pending = pend
    <2> HIDE DEF e1, e2, note
    <2> QED BY <1>6, <1>8 DEF Editor
  <1>10. editor' = [editor EXCEPT ![t] = e]
    <2> HIDE DEF note
    <2> QED BY <1>1, <1>2 DEF Editor
  <1> HIDE DEF e1, e2, e
  <1>11. /\ editor' = [editor EXCEPT ![t] = e]
         /\ e.note = editor[t].note /\ e.unsaved
         /\ e.doc = editor[t].doc \cup {edits + 1}
         /\ e.pending.id = e.note /\ e.pending.body = e.doc
         /\ e.note \in Ids /\ e.note # NoNote
         /\ local[Dev(t)][e.note].here /\ KindOf[e.note] = "note"
         /\ Authored(e.note) /\ Fits(e.note, editor[t].doc)
    BY <1>0, <1>1, <1>2, <1>3, <1>4, <1>6, <1>9, <1>10
  <1> QED
    BY <1>1, <1>5, <1>9, <1>11

LEMMA TypeFits ==
  ASSUME FitInv, NEW t \in Tabs, Type(t), Reaches
  PROVE  FitInv'
  <1>1. PICK new \in Editor :
           /\ editor' = [editor EXCEPT ![t] = new]
           /\ new.note = editor[t].note /\ new.unsaved
           /\ new.doc = editor[t].doc \cup {edits + 1}
           /\ new.pending.id = new.note /\ new.pending.body = new.doc
           /\ new.note \in Ids /\ new.note # NoNote
           /\ local[Dev(t)][new.note].here /\ KindOf[new.note] = "note"
           /\ Authored(new.note) /\ Fits(new.note, editor[t].doc)
           /\ edits + 1 \in Edits
           /\ made' = [made EXCEPT ![Dev(t)] = @ \cup {edits + 1}]
           /\ UNCHANGED <<serverVars, local, cursor, tab, account, used, faults,
                          deletions, refused>>
    BY TypedDoc
  <1>2. /\ Dev(t) \in Devices /\ editor \in [Tabs -> Editor]
    BY EditorTypes DEF FitInv, EditorParts
  <1>3. /\ edits \in Nat /\ edits' = edits + 1
        /\ edits <= edits' /\ edits' \in 0..MaxEdits
        /\ noteEdits' = noteEdits \cup {edits + 1} /\ noteEdits' \subseteq 1..edits'
        /\ 1..edits \subseteq 1..edits' /\ refused \subseteq 1..edits'
    BY <1>1, AuthoredParts
  <1>4. PICK n, doc, text : n = new.note /\ doc = new.doc /\ text = editor[t].doc
    OBVIOUS
  <1>5. Fits(n, doc)'
    <2>1. n \in Ids /\ Fits(n, text) /\ Authored(n) /\ doc = text \cup {edits + 1}
      BY <1>1, <1>4
    <2> QED
      BY <2>1, FitsMore
  <1>6. EditorFits(Dev(t), new)'
    <2>1. Dev(t)' = Dev(t) /\ local'[Dev(t)][n].here
      BY <1>1, <1>4 DEF Dev
    <2>2. doc # {}
      BY <1>1, <1>4
    <2> QED
      BY <1>1, <1>4, <1>5, <2>1, <2>2 DEF EditorFits
  <1>7. ClientTypeOK'
    BY <1>1, <1>3 DEF FitInv, Typed, TypeOK, ClientTypeOK, RequestsKnown
  <1>8. /\ deletions' \subseteq noteEdits' /\ refused' \subseteq 1..edits'
        /\ made' \in [Devices -> SUBSET Edits]
    BY <1>1, <1>2, <1>3 DEF FitInv, EditorParts
  <1>9. \A d \in Devices, i \in Ids : \A b : DeviceHas(d, i, b)' => Carried(i, b)
    BY <1>1 DEF DeviceHas, Carried
  <1>10. /\ UNCHANGED serverVars /\ used' = used
         /\ \A s \in Tabs : tab'[s] = tab[s]
         /\ \A d \in Devices, i \in Ids : local[d][i].here => local'[d][i].here
    BY <1>1
  <1> QED
    BY <1>1, <1>3, <1>6, <1>7, <1>8, <1>9, <1>10, DeviceStepFits
    DEF Reaches

LEMMA DeleteFits ==
  ASSUME FitInv, NEW t \in Tabs, NEW i \in Ids, DeleteFromList(t, i), Reaches
  PROVE  FitInv'
  <1> DEFINE d == Dev(t)
             row == local[d][i]
  <1>0. PICK body : body = row.body \cup {edits + 1}
    OBVIOUS
  <1>1. /\ Edit(d, i) /\ UNCHANGED <<editor, refused>>
        /\ deletions' = deletions \cup {edits + 1}
        /\ made' = [made EXCEPT ![d] = @ \cup {edits + 1}]
    BY DEF DeleteFromList
  <1>2. /\ d \in Devices /\ row \in LocalRow /\ editor[t] \in Editor
        /\ EditorFits(d, editor[t]) /\ editor \in [Tabs -> Editor]
    BY EditorTypes, Types DEF FitInv, Typed, EditorParts
  <1>3. /\ row.here /\ Authored(i)
        /\ UNCHANGED <<serverVars, cursor, tab, account, used, faults>>
    BY <1>1, Zenon DEF Edit
  <1>4. Fits(i, row.body) /\ KindOf[i] = "note"
    BY <1>2, <1>3, HereFits DEF Fits
  <1>5. Fits(i, body)'
    BY <1>0, <1>3, <1>4, FitsMore
  <1>6. /\ edits \in Nat /\ edits + 1 \in Edits /\ edits <= edits' /\ edits' \in Nat
        /\ noteEdits' = noteEdits \cup {edits + 1}
        /\ refused \subseteq 1..edits'
    BY <1>3, <1>4, AuthoredParts
  <1>7. PICK stamp : local' = [local EXCEPT ![d][i] =
                       [row EXCEPT !.dirty = TRUE, !.stamp = stamp,
                                   !.body = @ \cup {edits + 1}]]
    BY <1>1, Zenon DEF Edit
  <1> DEFINE new == [row EXCEPT !.dirty = TRUE, !.stamp = stamp,
                                !.body = @ \cup {edits + 1}]
  <1>8. new.here /\ new.body = body
    BY <1>0, <1>2, <1>3 DEF LocalRow
  <1> HIDE DEF new
  <1>9. ASSUME NEW c \in Devices, NEW j \in Ids
        PROVE  \/ local'[c][j] = local[c][j]
               \/ c = d /\ j = i /\ local'[c][j] = new
    BY <1>7 DEF new, FitInv, Typed, TypeOK
  <1>10. \A c \in Devices, j \in Ids : local[c][j].here => local'[c][j].here
    BY <1>8, <1>9
  <1>11. \A c \in Devices, j \in Ids : \A b :
           DeviceHas(c, j, b)' => Carried(j, b) \/ Fits(j, b)'
    BY <1>5, <1>8, <1>9 DEF DeviceHas, Carried
  <1>12. ClientTypeOK'
    BY <1>1, <1>2, EditTyped DEF FitInv
  <1>13. /\ deletions' \subseteq noteEdits' /\ refused' \subseteq 1..edits'
         /\ made' \in [Devices -> SUBSET Edits]
    BY <1>1, <1>2, <1>6 DEF FitInv, EditorParts
  <1>14. editor' = [editor EXCEPT ![t] = editor[t]]
    BY <1>1, <1>2
  <1>15. ASSUME NEW e \in Editor, EditorFits(d, e)
         PROVE  EditorFits(Dev(t), e)'
    <2>1. e.note # NoNote => e.note \in Ids
      BY DEF Editor
    <2>2. \A j \in Ids : \A b : Fits(j, b) => Fits(j, b)'
      BY <1>6, FitsOn
    <2>3. Dev(t)' = d
      BY DEF Dev
    <2> QED
      BY <1>2, <1>10, <1>15, <2>1, <2>2, <2>3 DEF EditorFits
  <1>16. PICK e \in Editor : /\ editor' = [editor EXCEPT ![t] = e]
                             /\ EditorFits(Dev(t), e)'
    BY <1>2, <1>14, <1>15
  <1>17. UNCHANGED serverVars /\ used' = used /\ \A s \in Tabs : tab'[s] = tab[s]
    BY <1>3
  <1> QED
    BY <1>6, <1>10, <1>11, <1>12, <1>13, <1>16, <1>17, DeviceStepFits
    DEF Reaches


-----------------------------------------------------------------------------
(* Other devices.                                                          *)

\* A write of another device is one more version of the row.
LEMMA RemoteRow ==
  ASSUME FitInv, NEW i \in Ids, RemoteEdit(i)
  PROVE  \E new \in Row :
           /\ rows' = [rows EXCEPT ![i] = new]
           /\ new.owner = rows[i].owner /\ new.ver = rows[i].ver + 1
           /\ new.seq = lastSeq[rows[i].owner] + 1
           /\ new.body = rows[i].body \cup {edits + 1}
           /\ lastSeq' = [lastSeq EXCEPT ![rows[i].owner] = new.seq]
           /\ rows[i].owner \in Users /\ Authored(i) /\ Fits(i, rows[i].body)
  <1> DEFINE o  == rows[i].owner
             n1 == [rows[i] EXCEPT !.ver = rows[i].ver + 1]
             n2 == [n1 EXCEPT !.seq = NextSeq(o)]
             n3 == [n2 EXCEPT !.body = rows[i].body \cup {edits + 1}]
  <1>1. /\ Authored(i) /\ Stored(i)
        /\ rows' = [rows EXCEPT ![i].ver = @ + 1, ![i].seq = NextSeq(o),
                                ![i].body = @ \cup {edits + 1}]
        /\ lastSeq' = [lastSeq EXCEPT ![o] = NextSeq(o)]
    BY DEF RemoteEdit
  <1>2. /\ rows \in [Ids -> Row] /\ rows[i] \in Row /\ rows[i].body \subseteq Edits
        /\ lastSeq \in [Users -> Nat] /\ o \in Users
    BY <1>1, Types DEF FitInv, Typed, TypeOK, ServerTypeOK, ServerIInv, OwnersKnown
  <1>3. Carried(i, rows[i].body)
    BY <1>1 DEF Carried, Said, RowSays
  <1>4. Fits(i, rows[i].body)
    BY <1>3 DEF FitInv, AllFit
  <1>5. edits + 1 \in Edits
    BY <1>1, AuthoredType DEF FitInv
  <1>6. NextSeq(o) \in Nat /\ NextSeq(o) = lastSeq[o] + 1
    BY <1>2 DEF NextSeq
  <1>7. /\ n1 \in Row /\ n1.owner = o /\ n1.ver = rows[i].ver + 1
    BY <1>2 DEF Row
  <1>8. /\ n2 \in Row /\ n2.owner = o /\ n2.ver = rows[i].ver + 1
        /\ n2.seq = NextSeq(o)
    <2> HIDE DEF n1
    <2> QED BY <1>6, <1>7 DEF Row
  <1>9. rows[i].body \cup {edits + 1} \in Bodies
    BY <1>2, <1>5, ContentAssumption
  <1>10. /\ n3 \in Row /\ n3.owner = o /\ n3.ver = rows[i].ver + 1
         /\ n3.seq = NextSeq(o) /\ n3.body = rows[i].body \cup {edits + 1}
    <2> HIDE DEF n1, n2
    <2> QED BY <1>8, <1>9 DEF Row
  <1>11. rows' = [rows EXCEPT ![i] = n3]
    BY <1>1, <1>2 DEF Row
  <1> HIDE DEF n1, n2, n3
  <1> QED
    BY <1>1, <1>2, <1>4, <1>6, <1>10, <1>11

LEMMA RemoteServer ==
  ASSUME FitInv, NEW i \in Ids, RemoteEdit(i)
  PROVE  ServerIInv' /\ Gathers' /\ UnstoredEmpty'
  <1>1. PICK new \in Row :
          /\ rows' = [rows EXCEPT ![i] = new]
          /\ new.owner = rows[i].owner /\ new.ver = rows[i].ver + 1
          /\ new.seq = lastSeq[rows[i].owner] + 1
          /\ new.body = rows[i].body \cup {edits + 1}
          /\ lastSeq' = [lastSeq EXCEPT ![rows[i].owner] = new.seq]
          /\ rows[i].owner \in Users /\ Authored(i) /\ Fits(i, rows[i].body)
    BY RemoteRow
  <1> DEFINE o == rows[i].owner
  <1>2. /\ rows \in [Ids -> Row] /\ lastSeq \in [Users -> Nat] /\ o \in Users
        /\ rows[i].ver \in Nat /\ lastSeq[o] \in Nat /\ Stored(i)
        /\ handler' = handler
    BY <1>1 DEF FitInv, Typed, TypeOK, ServerTypeOK, Row, RemoteEdit
  <1>3. /\ rows'[i] = new /\ \A j \in Ids \ {i} : rows'[j] = rows[j]
        /\ lastSeq'[o] = lastSeq[o] + 1
        /\ \A u \in Users \ {o} : lastSeq'[u] = lastSeq[u]
    BY <1>1, <1>2
  <1>4. ServerTypeOK'
    <2>1. rows' \in [Ids -> Row]
      BY <1>1, <1>2
    <2>2. lastSeq' \in [Users -> Nat]
      BY <1>1, <1>2
    <2> QED
      BY <1>2, <2>1, <2>2 DEF FitInv, Typed, TypeOK, ServerTypeOK
  <1>5. HandlersHaveUsers'
    BY <1>2 DEF FitInv, Typed, ServerIInv, HandlersHaveUsers
  <1>6. \A j \in Ids : Stored(j)' <=> Stored(j)
    BY <1>1, <1>2, <1>3 DEF Stored
  <1>7. \A j \in Ids : rows'[j].owner = rows[j].owner
    BY <1>1, <1>3
  <1>8. OwnersKnown'
    BY <1>6, <1>7 DEF FitInv, Typed, ServerIInv, OwnersKnown
  <1>9. \A j \in Ids : Stored(j) =>
          /\ rows[j].owner \in Users /\ rows[j].seq \in Nat
          /\ rows[j].seq <= lastSeq[rows[j].owner]
          /\ lastSeq[rows[j].owner] \in Nat
    BY <1>2 DEF FitInv, Typed, ServerIInv, OwnersKnown, SeqsDistinct, Row
  <1>10. SeqsDistinct'
    <2>1. ASSUME NEW j \in Ids, Stored(j)
          PROVE  rows'[j].seq <= lastSeq'[rows'[j].owner]
      <3>1. CASE j = i
        BY <1>1, <1>2, <1>3, <3>1
      <3>2. CASE j # i
        BY <1>2, <1>3, <1>9, <2>1, <3>2
      <3> QED
        BY <3>1, <3>2
    <2>2. ASSUME NEW j \in Ids, NEW k \in Ids, Stored(j), Stored(k), j # k,
                 rows'[j].owner = rows'[k].owner
          PROVE  rows'[j].seq # rows'[k].seq
      <3>1. CASE j = i
        BY <1>1, <1>2, <1>3, <1>7, <1>9, <2>2, <3>1
      <3>2. CASE k = i
        BY <1>1, <1>2, <1>3, <1>7, <1>9, <2>2, <3>2
      <3>3. CASE j # i /\ k # i
        BY <1>3, <2>2, <3>3 DEF FitInv, Typed, ServerIInv, SeqsDistinct
      <3> QED
        BY <3>1, <3>2, <3>3
    <2> QED
      BY <1>6, <2>1, <2>2 DEF SeqsDistinct
  <1>11. ServerIInv'
    BY <1>4, <1>5, <1>8, <1>10 DEF ServerIInv
  <1>12. Gathers'
    <2>1. \A u \in Users : lastSeq[u] <= lastSeq'[u]
      BY <1>2, <1>3
    <2>2. \A j \in Ids : \/ rows'[j] = rows[j]
                         \/ /\ rows'[j].seq > lastSeq[rows'[j].owner]
                            /\ Stored(j) => rows'[j].owner = rows[j].owner
      BY <1>1, <1>2, <1>3
    <2>3. \A h \in Handlers : handler'[h] = handler[h]
      BY <1>2
    <2> QED
      BY <1>4, <2>1, <2>2, <2>3, GathersStays DEF FitInv, Typed
  <1>13. UnstoredEmpty'
    BY <1>2, <1>3, <1>6 DEF FitInv, UnstoredEmpty
  <1> QED
    BY <1>11, <1>12, <1>13

LEMMA RemoteFits ==
  ASSUME FitInv, NEW i \in Ids, RemoteWrite(i) \/ RemoteDelete(i), Reaches
  PROVE  FitInv'
  <1>1. /\ RemoteEdit(i)
        /\ deletions' \subseteq deletions \cup {edits + 1}
    BY DEF RemoteWrite, RemoteDelete
  <1>2. PICK new \in Row :
          /\ rows' = [rows EXCEPT ![i] = new]
          /\ new.owner = rows[i].owner /\ new.ver = rows[i].ver + 1
          /\ new.seq = lastSeq[rows[i].owner] + 1
          /\ new.body = rows[i].body \cup {edits + 1}
          /\ lastSeq' = [lastSeq EXCEPT ![rows[i].owner] = new.seq]
          /\ rows[i].owner \in Users /\ Authored(i) /\ Fits(i, rows[i].body)
    BY <1>1, RemoteRow
  <1>3. UNCHANGED <<handler, local, cursor, tab, account, used, faults, editor,
                    made, refused>>
    BY <1>1, Zenon DEF RemoteEdit
  <1>4. KindOf[i] = "note"
    BY <1>2 DEF Fits
  <1>5. /\ edits \in Nat /\ edits' \in Nat /\ edits <= edits'
        /\ edits' \in 0..MaxEdits
        /\ noteEdits' = noteEdits \cup {edits + 1} /\ noteEdits' \subseteq 1..edits'
        /\ 1..edits \subseteq 1..edits' /\ refused \subseteq 1..edits'
        /\ reached \subseteq 1..edits'
    BY <1>2, <1>4, AuthoredParts
  <1>6. ServerIInv' /\ Gathers' /\ UnstoredEmpty'
    BY <1>1, RemoteServer
  <1>7. ClientTypeOK'
    BY <1>3, <1>5 DEF FitInv, Typed, TypeOK, ClientTypeOK, RequestsKnown
  <1>8. Typed'
    BY <1>6, <1>7 DEF Typed, TypeOK, ClientTypeOK, ServerIInv
  <1>9. \A j \in Ids : \A b : Fits(j, b) => Fits(j, b)'
    BY <1>5, FitsOn
  <1>10. Fits(i, new.body)'
    BY <1>2, FitsMore
  <1>11. ASSUME NEW j \in Ids, NEW b, Carried(j, b)' PROVE Fits(j, b)'
    <2>1. ASSUME NEW d \in Devices, DeviceHas(d, j, b)' PROVE Carried(j, b)
      BY <1>3, <2>1 DEF DeviceHas, Carried
    <2>2. ASSUME RowSays(j, b)' PROVE Carried(j, b) \/ Fits(j, b)'
      <3>1. CASE j = i
        <4>1. b = new.body
          BY <1>2, <2>2, <3>1 DEF RowSays, FitInv, Typed, TypeOK, ServerTypeOK
        <4> QED
          BY <1>10, <3>1, <4>1
      <3>2. CASE j # i
        <4>1. rows'[j] = rows[j]
          BY <1>2, <3>2 DEF FitInv, Typed, TypeOK, ServerTypeOK
        <4> QED
          BY <2>2, <4>1 DEF RowSays, Stored, Carried, Said
      <3> QED
        BY <3>1, <3>2
    <2>3. Carried(j, b) \/ Fits(j, b)'
      BY <1>3, <1>11, <2>1, <2>2, NewTexts
    <2> QED
      BY <1>9, <2>3 DEF FitInv, AllFit
  <1>12. AllFit'
    BY <1>11 DEF AllFit
  <1>13. SeedsHere'
    BY <1>3, <1>5 DEF FitInv, SeedsHere
  <1>14. ASSUME NEW t \in Tabs PROVE EditorFits(Dev(t), editor[t])'
    <2>1. /\ EditorFits(Dev(t), editor[t])
          /\ editor[t].note # NoNote => editor[t].note \in Ids
      BY EditorTypes
    <2> QED
      BY <1>3, <1>9, <2>1 DEF EditorFits, Dev
  <1>15. reached' \subseteq 1..edits'
    BY <1>5, <1>6, <1>12, ReachedType DEF Reaches
  <1>16. EditorParts'
    BY <1>1, <1>3, <1>5, <1>15 DEF FitInv, EditorParts
  <1> QED
    BY <1>6, <1>8, <1>12, <1>13, <1>14, <1>16 DEF FitInv, EditorsFit


-----------------------------------------------------------------------------
(* Cycles.                                                                 *)

\* Cycles make no edits, and take no id back.
LEMMA SyncSame ==
  ASSUME SyncStep
  PROVE  /\ UNCHANGED <<account, edits, noteEdits, editor, deletions, made, refused>>
         /\ used \subseteq used'
         /\ Next
  <1>1. ASSUME NEW t \in Tabs, CycleStep(t)
        PROVE  UNCHANGED <<account, edits, noteEdits>> /\ used \subseteq used'
    <2>1. CASE StartCycle(t)
      BY <2>1 DEF StartCycle
    <2>2. CASE ReceiveResults(t)
      BY <2>2 DEF ReceiveResults
    <2>3. CASE ApplyResult(t)
      BY <2>3 DEF ApplyResult, ApplyAccepted, ApplyNoteConflict,
                  ApplyContainerConflict, ApplyForbidden
    <2>4. CASE ApplyPage(t)
      BY <2>4 DEF ApplyPage
    <2>5. ASSUME NEW h \in Handlers,
                 SendBatch(t, h) \/ AskFirstPage(t, h) \/ AskNextPage(t, h)
          PROVE  UNCHANGED <<account, edits, noteEdits, used>>
      BY <2>5 DEF SendBatch, AskFirstPage, AskNextPage, AskPage
    <2> QED
      BY <1>1, <2>1, <2>2, <2>3, <2>4, <2>5 DEF CycleStep
  <1>2. ASSUME NEW t \in Tabs, GiveUp(t)
        PROVE  UNCHANGED <<account, edits, noteEdits, used>>
    BY <1>2 DEF GiveUp
  <1>3. ASSUME NEW h \in Handlers, ServerStep(h)
        PROVE  UNCHANGED <<account, edits, noteEdits, used>>
    BY <1>3 DEF ServerStep, Cancel, clientVars
  <1>4. UNCHANGED <<editor, deletions, made, refused>>
    BY DEF SyncStep, editorVars
  <1>5. UNCHANGED <<account, edits, noteEdits>> /\ used \subseteq used'
    BY <1>1, <1>2, <1>3 DEF SyncStep
  <1>6. Next
    BY Zenon DEF SyncStep, Next
  <1> QED
    BY <1>4, <1>5, <1>6

\* A row that is not stored stays empty.
LEMMA UnstoredStays ==
  ASSUME Typed, UnstoredEmpty, Next
  PROVE  UnstoredEmpty'
  <1>1. ASSUME NEW h \in Handlers, NEW in \in handler[h].todo, UpsertAccepted(h, in)
        PROVE  UnstoredEmpty'
    <2>1. /\ in.id \in Ids /\ rows[in.id].ver \in Nat
          /\ rows'[in.id].ver = rows[in.id].ver + 1
          /\ \A j \in Ids \ {in.id} : rows'[j] = rows[j]
      BY <1>1, UpsertWrites DEF Typed
    <2> QED
      BY <2>1 DEF UnstoredEmpty, Stored
  <1>2. CASE \A h \in Handlers : \A in \in handler[h].todo : ~UpsertAccepted(h, in)
    BY <1>2, OnlyUpsertsWrite DEF UnstoredEmpty, Stored
  <1> QED
    BY <1>1, <1>2

LEMMA SyncFits ==
  ASSUME FitInv, SyncStep, Reaches
  PROVE  FitInv'
  <1>1. /\ UNCHANGED <<account, edits, noteEdits, editor, deletions, made, refused>>
        /\ used \subseteq used' /\ Next
    BY SyncSame
  <1>2. Typed /\ AllFit /\ UnstoredEmpty /\ SeedsHere /\ EditorParts
    BY DEF FitInv
  <1>3. Typed'
    BY <1>1, <1>2, TypedStep
  <1>4. UnstoredEmpty'
    BY <1>1, <1>2, UnstoredStays
  <1>5. Moves
    BY <1>2, SyncMoves
  <1>6. \A i, b : Fits(i, b)' <=> Fits(i, b)
    BY <1>1 DEF Fits
  <1>7. ASSUME NEW i \in Ids, NEW b, Carried(i, b)' PROVE Fits(i, b)
    <2>1. CASE Carried(i, b)
      BY <1>2, <2>1 DEF AllFit
    <2>2. CASE i \notin used /\ KindOf[i] = "note" /\ \E j \in Ids : Carried(j, b)
      BY <1>2, <2>2 DEF AllFit, Fits, SeedsHere
    <2> QED
      BY <1>5, <1>7, <2>1, <2>2 DEF Moves
  <1>8. AllFit'
    BY <1>6, <1>7 DEF AllFit
  <1>9. \A d \in Devices, i \in Ids : local[d][i].here => local'[d][i].here
    BY <1>2, RowsStayHere
  <1>10. SeedsHere'
    BY <1>1, <1>2, <1>9, SeedsType DEF SeedsHere
  <1>11. ASSUME NEW t \in Tabs PROVE EditorFits(Dev(t), editor[t])'
    <2>1. /\ EditorFits(Dev(t), editor[t]) /\ Dev(t) \in Devices
          /\ editor[t].note # NoNote => editor[t].note \in Ids
      BY EditorTypes
    <2> QED
      BY <1>1, <1>6, <1>9, <2>1 DEF EditorFits, Dev
  <1>12. reached' \subseteq 1..edits'
    BY <1>1, <1>2, <1>4, <1>8, ReachedType DEF Reaches, EditorParts
  <1>13. EditorParts'
    BY <1>1, <1>2, <1>12 DEF EditorParts
  <1> QED
    BY <1>3, <1>4, <1>8, <1>10, <1>11, <1>13 DEF FitInv, EditorsFit

\* At the start every device and the server hold the seeds, and nobody works.
LEMMA EditorInitFits == EditorInit => FitInv
  <1> SUFFICES ASSUME EditorInit PROVE FitInv
    OBVIOUS
  <1> DEFINE N == Cardinality(Seeds)
  <1>1. PICK u \in Users :
          /\ account = [d \in Devices |-> u]
          /\ rows = [i \in Ids |->
               IF i \in Seeds
               THEN [owner |-> u, ver |-> 1, seq |-> i, body |-> {i}]
               ELSE [owner |-> NoUser, ver |-> 0, seq |-> 0, body |-> NoBody]]
          /\ lastSeq = [v \in Users |-> IF v = u THEN N ELSE 0]
    BY DEF EditorInit
  <1>2. /\ handler = [h \in Handlers |-> Idle]
        /\ local = [d \in Devices |-> [i \in Ids |->
             IF i \in Seeds THEN FromWire(1, {i}) ELSE Missing]]
        /\ cursor = [d \in Devices |-> N]
        /\ tab = [t \in Tabs |-> NoCycle]
        /\ used = Seeds /\ edits = N /\ noteEdits = Seeds /\ faults = 0
        /\ editor = [t \in Tabs |-> Closed]
        /\ deletions = {} /\ made = [d \in Devices |-> {}]
        /\ reached = Seeds /\ refused = {}
    BY DEF EditorInit
  <1>3. /\ N \in Nat /\ N <= MaxEdits /\ Seeds \subseteq Ids /\ Seeds \subseteq Edits
        /\ Seeds = 1..N /\ MaxEdits \in Nat
        /\ \A i \in Seeds : i \in Nat /\ i # 0 /\ KindOf[i] = "note" /\ i <= N
    BY SeedsType, SeedsAssumption, BoundsAssumption
  <1> HIDE DEF N
  <1>4. \A i \in Seeds : {i} \in Bodies /\ {i} \in SUBSET Edits
    BY <1>3, ContentAssumption
  <1>5. rows \in [Ids -> Row]
    <2>1. ASSUME NEW i \in Seeds
          PROVE  [owner |-> u, ver |-> 1, seq |-> i, body |-> {i}] \in Row
      BY <1>3, <1>4 DEF Row
    <2>2. [owner |-> NoUser, ver |-> 0, seq |-> 0, body |-> NoBody] \in Row
      BY DEF Row
    <2> QED
      BY <1>1, <2>1, <2>2
  <1>6. lastSeq \in [Users -> Nat] /\ handler \in [Handlers -> Handler]
    BY <1>1, <1>2, <1>3, IdleIsHandler
  <1>7. /\ \A i \in Seeds : rows[i].owner = u /\ rows[i].ver = 1 /\ rows[i].seq = i
                            /\ rows[i].body = {i}
        /\ \A i \in Ids \ Seeds : rows[i].owner = NoUser /\ rows[i].ver = 0
                                  /\ rows[i].body = {}
    BY <1>1, <1>3, ContentAssumption
  <1>8. \A i \in Ids : Stored(i) <=> i \in Seeds
    BY <1>7 DEF Stored
  <1>9. ServerIInv
    <2>1. HandlersHaveUsers
      BY <1>2 DEF HandlersHaveUsers, Idle
    <2>2. OwnersKnown
      BY <1>3, <1>7, <1>8 DEF OwnersKnown
    <2>3. SeqsDistinct
      BY <1>1, <1>3, <1>7, <1>8 DEF SeqsDistinct
    <2> QED
      BY <1>5, <1>6, <2>1, <2>2, <2>3 DEF ServerIInv, ServerTypeOK
  <1>10. Gathers
    BY <1>2 DEF Gathers, Idle
  <1>11. UnstoredEmpty
    BY <1>7, <1>8 DEF UnstoredEmpty
  <1>12. local \in [Devices -> [Ids -> LocalRow]]
    <2>1. \A i \in Seeds : FromWire(1, {i}) \in LocalRow
      BY <1>4, FromWireType
    <2>2. Missing \in LocalRow
      BY BoundsAssumption DEF Missing, LocalRow
    <2> QED
      BY <1>2, <2>1, <2>2
  <1>13. ClientTypeOK
    BY <1>1, <1>2, <1>3, <1>12, NoCycleType, BoundsAssumption
    DEF ClientTypeOK, RequestsKnown
  <1>14. Typed
    BY <1>9, <1>10, <1>13, TypedParts
  <1>15. ASSUME NEW i \in Ids, NEW b, Carried(i, b) PROVE Fits(i, b)
    <2>1. ASSUME NEW d \in Devices, DeviceHas(d, i, b) PROVE i \in Seeds /\ b = {i}
      BY <1>2, <2>1 DEF DeviceHas, FromWire, Missing
    <2>2. RowSays(i, b) => i \in Seeds /\ b = {i}
      BY <1>7, <1>8 DEF RowSays
    <2>3. \A h \in Handlers : ~HandlerSays(h, i, b) /\ ~HandlerTakes(h, i, b)
      BY <1>2 DEF HandlerSays, HandlerTakes, Idle
    <2>4. \A t \in Tabs : ~TabHears(t, i, b) /\ ~TabSends(t, i, b)
      BY <1>2, NoCycleCarries DEF TabHears, TabSends
    <2>5. i \in Seeds /\ b = {i}
      BY <1>15, <2>1, <2>2, <2>3, <2>4 DEF Carried, Said
    <2> QED
      BY <1>2, <1>3, <2>5 DEF Fits
  <1>16. AllFit
    BY <1>15 DEF AllFit
  <1>17. SeedsHere
    BY <1>2, <1>3 DEF SeedsHere, FromWire
  <1>18. EditorsFit
    BY <1>2, ClosedFits DEF EditorsFit
  <1>19. EditorParts
    BY <1>2, <1>3, ClosedFits DEF EditorParts
  <1> QED
    BY <1>11, <1>14, <1>16, <1>17, <1>18, <1>19 DEF FitInv

LEMMA FitStep == FitInv /\ [SessionNext]_sessionVars => FitInv'
  <1> SUFFICES ASSUME FitInv, [SessionNext]_sessionVars PROVE FitInv'
    OBVIOUS
  <1>1. CASE UNCHANGED sessionVars
    <2>1. UNCHANGED <<vars, serverVars, editor, deletions, made, refused, reached>>
      BY <1>1 DEF sessionVars, editorVars, vars
    <2>2. UNCHANGED <<rows, handler, local, cursor, tab, account, used, edits,
                      noteEdits, faults>>
      BY <2>1 DEF vars, serverVars, clientVars
    <2>3. Typed'
      BY <2>1, TypedStep DEF FitInv
    <2>4. AllFit'
      BY <2>2 DEF FitInv, AllFit, Carried, Said, RowSays, HandlerSays, TabHears,
         DeviceHas, TabSends, HandlerTakes, Fits, Stored
    <2>5. UnstoredEmpty' /\ SeedsHere'
      BY <2>2 DEF FitInv, UnstoredEmpty, Stored, SeedsHere
    <2>6. EditorsFit'
      BY <2>1, <2>2 DEF FitInv, EditorsFit, EditorFits, Fits, Dev
    <2>7. EditorParts'
      BY <2>1, <2>2 DEF FitInv, EditorParts
    <2> QED
      BY <2>3, <2>4, <2>5, <2>6, <2>7 DEF FitInv
  <1>2. CASE SessionNext
    <2>1. Reaches
      BY <1>2 DEF SessionNext, Reaches
    <2>2. ASSUME NEW t \in Tabs, EditorStep(t) PROVE FitInv'
      BY <2>1, <2>2, AutosaveFits, LeaveFits, TypeFits, RowSeenFits, TabEndsFits,
         OpenFits, DeleteFits DEF EditorStep
    <2> QED
      BY <1>2, <2>1, <2>2, SyncFits, RemoteFits DEF SessionNext
  <1> QED
    BY <1>1, <1>2

LEMMA FitInvariant == SessionSpec => []FitInv
  BY EditorInitFits, FitStep, PTL DEF SessionSpec

\* The editors, and the histories their properties speak of, keep their types:
\* a deletion is always an edit of a note, and what was stored or refused has
\* been made.
THEOREM EditorTypeCorrect == SessionSpec => []EditorTypeOK
  <1>1. FitInv => EditorTypeOK
    BY DEF FitInv, Typed, EditorParts, EditorTypeOK
  <1> QED
    BY <1>1, FitInvariant, PTL

\* Text goes into the note it was typed in: switches of notes with a write
\* pending, pulls, conflicts, forks and tabs that end leave every note that was
\* there at the start with the edit that made it and no other one's.
THEOREM TextsStayInTheirNote == SessionSpec => []NotesKeepTheirText
  <1>1. ASSUME FitInv, NEW d \in Devices, NEW i \in Seeds
        PROVE  local[d][i].body \cap Seeds = {i}
    <2>1. i \in Ids /\ local[d][i].here
      BY <1>1, SeedsType DEF FitInv, SeedsHere
    <2> QED
      BY <1>1, <2>1, HereFits DEF Fits
  <1>2. FitInv => NotesKeepTheirText
    BY <1>1 DEF NotesKeepTheirText
  <1> QED
    BY <1>2, FitInvariant, PTL


-----------------------------------------------------------------------------
(* Cycles and their requests.  These facts are part of the invariant of     *)
(* NefixSync_proofs, which editors break: a write may take stored edits     *)
(* away.  Here they are kept on their own.                                 *)

Ordered == CyclesOrderly /\ RequestsServed

\* A step that leaves the tabs but T and the handlers but H alone.
LEMMA OrderStays ==
  ASSUME Typed, Ordered, NEW H, NEW T \in SUBSET Tabs,
         \A g \in Handlers \ H : handler'[g] = handler[g],
         \A s \in Tabs \ T : tab'[s] = tab[s] /\ tab[s].request \notin H,
         \A s \in T : TabServed(s)' /\ Orderly(tab'[s]),
         \A s \in T : \/ tab'[s].request = NoHandler
                      \/ /\ tab'[s].request \in H
                         /\ T = {s}
  PROVE  Ordered'
  <1>1. RequestsServed'
    <2>1. TypeOK /\ RequestsServed
      BY DEF Typed, Ordered
    <2>2. \A s \in T : TabServed(s)'
      OBVIOUS
    <2> QED
      BY <2>1, <2>2, RequestsStay
  <1>2. CyclesOrderly'
    <2>1. \A s \in Tabs : Orderly(tab'[s])
      BY DEF Ordered, CyclesOrderly
    <2> QED
      BY <2>1 DEF CyclesOrderly
  <1> QED
    BY <1>1, <1>2 DEF Ordered

\* A tab whose request is over, or that has none.
LEMMA TabOrdered ==
  ASSUME Typed, Ordered, NEW H, NEW t \in Tabs, NEW new,
         \A g \in Handlers \ H : handler'[g] = handler[g],
         tab' = [tab EXCEPT ![t] = new],
         \A s \in Tabs \ {t} : tab[s].request \notin H,
         Orderly(new), new.pc \notin {"sent", "wait"}, new.request = NoHandler
  PROVE  Ordered'
  <1> DEFINE T == {t}
  <1>1. tab'[t] = new /\ \A s \in Tabs \ T : tab'[s] = tab[s]
    BY DEF Typed, TypeOK
  <1>2. \A s \in T : TabServed(s)' /\ Orderly(tab'[s]) /\ tab'[s].request = NoHandler
    BY <1>1 DEF TabServed
  <1>3. T \in SUBSET Tabs
    OBVIOUS
  <1>4. \A s \in Tabs \ T : tab'[s] = tab[s] /\ tab[s].request \notin H
    BY <1>1
  <1>5. \A s \in T : TabServed(s)' /\ Orderly(tab'[s])
    BY <1>2
  <1>6. \A s \in T : \/ tab'[s].request = NoHandler
                    \/ /\ tab'[s].request \in H
                       /\ T = {s}
    BY <1>2
  <1> HIDE DEF T
  <1> QED
    BY <1>3, <1>4, <1>5, <1>6, OrderStays, Zenon

LEMMA FreeUnheard ==
  ASSUME Ordered, NEW h \in Handlers, handler[h].state = "free", NEW t \in Tabs
  PROVE  tab[t].request # h
  BY DevicesAssumption DEF Ordered, RequestsServed, TabServed, Serves

LEMMA StartCycleOrdered ==
  ASSUME Typed, Ordered, NEW t \in Tabs, StartCycle(t)
  PROVE  Ordered'
  <1> DEFINE new == [NoCycle EXCEPT !.pc = "push", !.queue = DirtyRows(Dev(t))]
             none == {}
  <1>1. /\ new.queue = DirtyRows(Dev(t)) /\ new.batch = {} /\ new.results = {}
        /\ new.pc = "push" /\ new.request = NoHandler
    BY DEF NoCycle
  <1>2. tab' = [tab EXCEPT ![t] = new] /\ handler' = handler
    BY DEF StartCycle, serverVars
  <1> HIDE DEF new
  <1>3. Orderly(new)
    BY <1>1 DEF Orderly, Answers, DirtyRows
  <1>4. /\ \A g \in Handlers \ none : handler'[g] = handler[g]
        /\ \A s \in Tabs \ {t} : tab[s].request \notin none
    BY <1>2
  <1> HIDE DEF none
  <1> QED
    BY <1>1, <1>2, <1>3, <1>4, TabOrdered

LEMMA SendBatchOrdered ==
  ASSUME Typed, Ordered, NEW t \in Tabs, NEW h \in Handlers, SendBatch(t, h)
  PROVE  Ordered'
  <1> PICK batch : batch = NextBatch(tab[t].queue)
    OBVIOUS
  <1> DEFINE cyc  == tab[t]
             sent == {[id |-> s.id, ver |-> s.ver, body |-> s.body] : s \in batch}
             new  == [cyc EXCEPT !.pc = "sent", !.queue = @ \ batch,
                                 !.batch = batch, !.request = h]
             hd   == [Idle EXCEPT !.state = "push", !.user = account[Dev(t)],
                                  !.todo = sent]
             H == {h}
             T == {t}
  <1>1. TypeOK /\ cyc \in Tab /\ batch \subseteq cyc.queue
    BY Types DEF Typed, NextBatch
  <1>2. /\ new.queue = cyc.queue \ batch /\ new.batch = batch
        /\ new.results = cyc.results /\ new.pc = "sent" /\ new.request = h
        /\ cyc.results = {}
    BY <1>1 DEF Tab, SendBatch
  <1>3. hd.state = "push" /\ hd.todo = sent /\ hd.results = {}
    BY DEF Idle
  <1>4. /\ tab' = [tab EXCEPT ![t] = new]
        /\ handler[h].state = "free"
        /\ handler' = [handler EXCEPT ![h] = hd]
    BY DEF SendBatch, PushArrives
  <1> HIDE DEF new, hd
  <1>5. /\ tab'[t] = new /\ \A s \in Tabs \ {t} : tab'[s] = tab[s]
        /\ handler'[h] = hd /\ \A g \in Handlers \ {h} : handler'[g] = handler[g]
    BY <1>1, <1>4 DEF TypeOK, ServerTypeOK
  <1>6. \A s, q \in cyc.queue : s.id = q.id => s = q
    BY DEF Ordered, CyclesOrderly, Orderly
  <1>7. Orderly(new)
    BY <1>1, <1>2, <1>6 DEF Orderly, Answers
  <1>8. Serves(h, batch)'
    <2>1. \A s, q \in batch : s.id = q.id => s = q
      BY <1>1, <1>6
    <2>2. \A in, q \in sent : in.id = q.id => in = q
      BY <2>1
    <2>3. \A in \in sent, s \in batch : in.id = s.id => in.body = s.body
      BY <2>1
    <2> HIDE DEF sent
    <2> QED
      BY <1>3, <1>5, <2>2, <2>3 DEF Serves, Answers
  <1>9. TabServed(t)'
    BY <1>2, <1>5, <1>8 DEF TabServed
  <1>10. \A s \in T : /\ TabServed(s)' /\ Orderly(tab'[s])
                      /\ tab'[s].request \in H /\ T = {s}
    BY <1>2, <1>5, <1>7, <1>9
  <1>11. \A s \in Tabs \ T : tab'[s] = tab[s] /\ tab[s].request \notin H
    BY <1>4, <1>5, FreeUnheard
  <1>12. T \in SUBSET Tabs /\ \A g \in Handlers \ H : handler'[g] = handler[g]
    BY <1>5
  <1> HIDE DEF H, T
  <1> QED
    BY <1>10, <1>11, <1>12, OrderStays

LEMMA ReceiveResultsOrdered ==
  ASSUME Typed, Ordered, NEW t \in Tabs, ReceiveResults(t)
  PROVE  Ordered'
  <1> DEFINE cyc == tab[t]
             h   == cyc.request
             new == [cyc EXCEPT !.pc = "push", !.results = handler[h].results,
                                !.request = NoHandler]
             H   == {h}
  <1>1. TypeOK /\ cyc \in Tab /\ h \in Handlers /\ Serves(h, cyc.batch)
    BY Types DEF Typed, ReceiveResults, Ordered, RequestsServed, TabServed
  <1>2. /\ new.queue = cyc.queue /\ new.batch = cyc.batch /\ new.pc = "push"
        /\ new.results = handler[h].results /\ new.request = NoHandler
    BY <1>1 DEF Tab
  <1>3. /\ tab' = [tab EXCEPT ![t] = new]
        /\ handler' = [handler EXCEPT ![h] = Idle]
    BY DEF ReceiveResults, Respond
  <1> HIDE DEF new
  <1>4. Orderly(new)
    BY <1>1, <1>2 DEF Serves, Orderly, Ordered, CyclesOrderly
  <1>5. \A g \in Handlers \ H : handler'[g] = handler[g]
    BY <1>1, <1>3 DEF TypeOK, ServerTypeOK
  <1>6. \A s \in Tabs \ {t} : tab[s].request \notin H
    BY <1>1, DevicesAssumption DEF Ordered, RequestsServed
  <1>7. new.pc \notin {"sent", "wait"}
    BY <1>2
  <1> HIDE DEF H
  <1> QED
    BY <1>2, <1>3, <1>4, <1>5, <1>6, <1>7, TabOrdered


LEMMA ApplyResultOrdered ==
  ASSUME Typed, Ordered, NEW t \in Tabs, ApplyResult(t)
  PROVE  Ordered'
  <1>1. PICK r \in tab[t].results : ResultApplied(t, r) /\ UNCHANGED serverVars
    BY Zenon DEF ApplyResult, ApplyAccepted, ApplyNoteConflict,
                 ApplyContainerConflict, ApplyForbidden
  <1> DEFINE cyc == tab[t]
             new == [cyc EXCEPT !.results = @ \ {r}]
  <1>2. /\ cyc \in Tab /\ TypeOK
        /\ new.queue = cyc.queue /\ new.batch = cyc.batch /\ new.pc = cyc.pc
        /\ new.results = cyc.results \ {r} /\ new.request = cyc.request
    BY Types DEF Typed, Tab
  <1>3. tab' = [tab EXCEPT ![t] = new] /\ UNCHANGED <<rows, handler>>
    BY <1>1 DEF ResultApplied, serverVars
  <1> HIDE DEF new
  <1>4. tab'[t] = new /\ \A s \in Tabs \ {t} : tab'[s] = tab[s]
    BY <1>2, <1>3 DEF TypeOK
  <1>5. Orderly(new)
    BY <1>2 DEF Ordered, CyclesOrderly, Orderly, Answers
  <1>6. CyclesOrderly'
    BY <1>4, <1>5 DEF Ordered, CyclesOrderly
  <1>7. RequestsServed'
    BY <1>2, <1>3, <1>4 DEF Ordered, RequestsServed, TabServed, Serves, Answers
  <1> QED
    BY <1>6, <1>7 DEF Ordered

LEMMA AskPageOrdered ==
  ASSUME Typed, Ordered, NEW t \in Tabs, NEW h \in Handlers, NEW since,
         AskPage(t, h, since)
  PROVE  Ordered'
  <1> DEFINE new == [NoCycle EXCEPT !.pc = "wait", !.pages = tab[t].pages,
                                    !.request = h]
             hd  == [Idle EXCEPT !.state = "pull", !.user = account[Dev(t)],
                                 !.since = since, !.limit = PageSize,
                                 !.unread = Kinds,
                                 !.start = lastSeq[account[Dev(t)]]]
             H == {h}
             T == {t}
  <1>1. /\ new.queue = {} /\ new.batch = {} /\ new.results = {}
        /\ new.pc = "wait" /\ new.request = h
        /\ hd.state = "pull"
    BY DEF NoCycle, Idle
  <1>2. /\ tab' = [tab EXCEPT ![t] = new]
        /\ handler[h].state = "free"
        /\ handler' = [handler EXCEPT ![h] = hd]
    BY DEF AskPage, PullArrives
  <1> HIDE DEF new, hd
  <1>3. /\ tab'[t] = new /\ \A s \in Tabs \ {t} : tab'[s] = tab[s]
        /\ handler'[h] = hd /\ \A g \in Handlers \ {h} : handler'[g] = handler[g]
    BY <1>2 DEF Typed, TypeOK, ServerTypeOK
  <1>4. Orderly(new)
    BY <1>1 DEF Orderly, Answers
  <1>5. \A s \in T : TabServed(s)' /\ Orderly(tab'[s])
    BY <1>1, <1>3, <1>4 DEF TabServed
  <1>6. \A s \in T : \/ tab'[s].request = NoHandler
                    \/ /\ tab'[s].request \in H
                       /\ T = {s}
    BY <1>1, <1>3
  <1>7. \A s \in Tabs \ T : tab'[s] = tab[s] /\ tab[s].request \notin H
    BY <1>2, <1>3, FreeUnheard
  <1>8. T \in SUBSET Tabs
    OBVIOUS
  <1>9. \A g \in Handlers \ H : handler'[g] = handler[g]
    BY <1>3
  <1> HIDE DEF H, T
  <1> QED
    BY <1>5, <1>6, <1>7, <1>8, <1>9, OrderStays, Zenon

LEMMA ApplyPageOrdered ==
  ASSUME Typed, Ordered, NEW t \in Tabs, ApplyPage(t)
  PROVE  Ordered'
  <1> DEFINE h == tab[t].request
             pages == tab[t].pages + 1
             more == [NoCycle EXCEPT !.pc = "pull", !.since = PageCursor(h),
                                     !.pages = pages]
             new == IF HasMore(h) /\ pages < MaxPages THEN more ELSE NoCycle
             H == {h}
  <1>1. /\ tab' = [tab EXCEPT ![t] = new]
        /\ handler' = [handler EXCEPT ![h] = Idle]
    BY DEF ApplyPage, Respond
  <1>2. TypeOK /\ h \in Handlers
    BY DEF ApplyPage, Typed, RequestsKnown, Waits
  <1>3. /\ new.queue = {} /\ new.batch = {} /\ new.results = {}
        /\ new.pc \notin {"sent", "wait"} /\ new.request = NoHandler
    BY DEF NoCycle
  <1> HIDE DEF new
  <1>4. Orderly(new)
    BY <1>3 DEF Orderly, Answers
  <1>5. \A g \in Handlers \ H : handler'[g] = handler[g]
    BY <1>1, <1>2 DEF TypeOK, ServerTypeOK
  <1>6. \A s \in Tabs \ {t} : tab[s].request \notin H
    BY <1>2, DevicesAssumption DEF Ordered, RequestsServed
  <1>7. new.pc \notin {"sent", "wait"} /\ new.request = NoHandler
    BY <1>3
  <1> HIDE DEF H
  <1> QED
    BY <1>1, <1>4, <1>5, <1>6, <1>7, TabOrdered, Zenon

\* Cycles that end, and handlers nobody waits for.
LEMMA EndsOrdered ==
  ASSUME Typed, Ordered, UNCHANGED handler,
         \A s \in Tabs : tab'[s] = tab[s] \/ tab'[s] = NoCycle
  PROVE  Ordered'
  <1> DEFINE T == {s \in Tabs : tab'[s] = NoCycle}
             H == {}
  <1>1. T \in SUBSET Tabs /\ \A g \in Handlers \ H : handler'[g] = handler[g]
    OBVIOUS
  <1>2. \A s \in Tabs \ T : tab'[s] = tab[s] /\ tab[s].request \notin H
    OBVIOUS
  <1>3. NoCycle.pc \notin {"sent", "wait"} /\ NoCycle.request = NoHandler
        /\ Orderly(NoCycle)
    BY NoCycleOrderly
  <1>4. \A s \in T : TabServed(s)' /\ Orderly(tab'[s])
    BY <1>3 DEF TabServed
  <1>5. \A s \in T : \/ tab'[s].request = NoHandler
                    \/ /\ tab'[s].request \in H
                       /\ T = {s}
    BY <1>3
  <1> HIDE DEF H, T
  <1> QED
    BY <1>1, <1>2, <1>4, <1>5, OrderStays, Zenon

LEMMA AnswerOrdered ==
  ASSUME NEW h \in Handlers, NEW in \in handler[h].todo, NEW result,
         Typed, Ordered, handler[h].state = "push",
         Answer(h, in, result), result.id = in.id,
         result.status = "accepted" => result.body = in.body,
         UNCHANGED tab
  PROVE  Ordered'
  <1>1. TypeOK
    BY DEF Typed
  <1>2. /\ handler'[h].state = "push"
        /\ handler'[h].todo = handler[h].todo \ {in}
        /\ handler'[h].results = handler[h].results \cup {result}
        /\ \A g \in Handlers \ {h} : handler'[g] = handler[g]
    BY <1>1, Types DEF Answer, Handler, TypeOK, ServerTypeOK
  <1>3. ASSUME NEW t \in Tabs PROVE TabServed(t)'
    <2>1. CASE tab[t].request = h
      <3>1. tab[t].pc = "sent" /\ Serves(h, tab[t].batch)
        BY <2>1, DevicesAssumption DEF Ordered, RequestsServed, TabServed
      <3>2. Serves(h, tab[t].batch)'
        BY <1>2, <3>1 DEF Serves, Answers
      <3> QED
        BY <2>1, <3>1, <3>2 DEF TabServed
    <2>2. CASE tab[t].request # h
      <3> DEFINE H == {h}
      <3>1. /\ \A g \in Handlers \ H : handler'[g] = handler[g]
            /\ tab[t].request \notin H /\ tab'[t] = tab[t] /\ RequestsServed
        BY <1>2, <2>2 DEF Ordered
      <3> HIDE DEF H
      <3> QED
        BY <1>1, <3>1, ServedStays
    <2> QED
      BY <2>1, <2>2
  <1>4. RequestsServed'
    BY <1>3 DEF Ordered, RequestsServed
  <1>5. CyclesOrderly'
    BY DEF Ordered, CyclesOrderly
  <1> QED
    BY <1>4, <1>5 DEF Ordered

LEMMA ServerStepOrdered ==
  ASSUME Typed, Ordered, NEW h \in Handlers, ServerStep(h)
  PROVE  Ordered'
  <1>1. UNCHANGED tab /\ UNCHANGED clientVars
    BY DEF ServerStep, Cancel, clientVars
  <1>2. ASSUME PushRow(h) PROVE Ordered'
    <2>1. PICK in \in handler[h].todo :
            UpsertAccepted(h, in) \/ UpsertConflict(h, in) \/ UpsertForbidden(h, in)
      BY <1>2 DEF PushRow
    <2>2. handler[h].state = "push"
      BY <2>1 DEF UpsertAccepted, UpsertConflict, UpsertForbidden, IsNext
    <2>3. \E result : /\ Answer(h, in, result) /\ result.id = in.id
                      /\ result.status = "accepted" => result.body = in.body
      <3>1. CASE UpsertAccepted(h, in)
        <4> DEFINE result == [id |-> in.id, status |-> "accepted",
                              ver |-> rows[in.id].ver + 1, body |-> in.body]
        <4>1. /\ Answer(h, in, result) /\ result.id = in.id
              /\ result.body = in.body
          BY <3>1 DEF UpsertAccepted
        <4> QED
          BY <4>1
      <3>2. CASE UpsertConflict(h, in)
        <4> DEFINE result == ServerCopy(in.id, "conflict")
        <4>1. /\ Answer(h, in, result) /\ result.id = in.id
              /\ result.status # "accepted"
          BY <3>2 DEF UpsertConflict, ServerCopy
        <4> QED
          BY <4>1
      <3>3. CASE UpsertForbidden(h, in)
        <4> DEFINE result == [id |-> in.id, status |-> "forbidden", ver |-> 0,
                              body |-> NoBody]
        <4>1. /\ Answer(h, in, result) /\ result.id = in.id
              /\ result.status # "accepted"
          BY <3>3 DEF UpsertForbidden
        <4> QED
          BY <4>1
      <3> QED
        BY <2>1, <3>1, <3>2, <3>3
    <2> QED
      BY <1>1, <2>2, <2>3, AnswerOrdered
  <1>3. ASSUME Query(h) PROVE Ordered'
    <2>1. PICK k \in Kinds : ReadTable(h, k)
      BY <1>3 DEF Query
    <2>2. /\ handler[h].state = "pull" /\ handler'[h].state = "pull"
          /\ \A g \in Handlers \ {h} : handler'[g] = handler[g]
      BY <2>1, Types DEF ReadTable, Handler, Typed, TypeOK, ServerTypeOK
    <2>3. ASSUME NEW t \in Tabs PROVE TabServed(t)'
      <3>1. TabServed(t)
        BY DEF Ordered, RequestsServed
      <3>2. CASE tab[t].pc = "sent"
        <4>1. Serves(tab[t].request, tab[t].batch) /\ tab[t].request # h
          BY <2>2, <3>1, <3>2 DEF TabServed, Serves
        <4>2. Serves(tab[t].request, tab[t].batch)'
          BY <1>1, <2>2, <3>1, <3>2, <4>1 DEF TabServed, Serves, Answers
        <4> QED
          BY <1>1, <3>1, <3>2, <4>2 DEF TabServed
      <3>3. CASE tab[t].pc # "sent"
        BY <1>1, <2>2, <3>1, <3>3 DEF TabServed
      <3> QED
        BY <3>2, <3>3
    <2>4. RequestsServed'
      BY <1>1, <2>3 DEF Ordered, RequestsServed
    <2> QED
      BY <1>1, <2>4 DEF Ordered, CyclesOrderly
  <1>4. ASSUME Cancel(h) PROVE Ordered'
    <2> DEFINE H == {h}
               T == {}
    <2>1. /\ \A g \in Handlers \ H : handler'[g] = handler[g]
          /\ T \in SUBSET Tabs
      BY <1>4 DEF Cancel, HandlerFails, Typed, TypeOK, ServerTypeOK
    <2>2. \A s \in Tabs \ T : tab'[s] = tab[s] /\ tab[s].request \notin H
      BY <1>1, <1>4 DEF Cancel, Unheard
    <2>3. \A s \in T : FALSE
      OBVIOUS
    <2> HIDE DEF H, T
    <2> QED
      BY <2>1, <2>2, <2>3, OrderStays, Zenon
  <1> QED
    BY <1>2, <1>3, <1>4 DEF ServerStep

LEMMA SyncOrdered ==
  ASSUME Typed, Ordered, SyncStep
  PROVE  Ordered'
  <1>1. ASSUME NEW t \in Tabs, CycleStep(t) PROVE Ordered'
    BY <1>1, StartCycleOrdered, ReceiveResultsOrdered, ApplyResultOrdered,
       ApplyPageOrdered, SendBatchOrdered, AskPageOrdered
    DEF CycleStep, AskFirstPage, AskNextPage
  <1>2. ASSUME NEW t \in Tabs, GiveUp(t) PROVE Ordered'
    <2>1. UNCHANGED handler /\ tab' = [tab EXCEPT ![t] = NoCycle]
      BY <1>2 DEF GiveUp, serverVars
    <2>2. \A s \in Tabs : tab'[s] = tab[s] \/ tab'[s] = NoCycle
      BY <2>1 DEF Typed, TypeOK
    <2> QED
      BY <2>1, <2>2, EndsOrdered
  <1> QED
    BY <1>1, <1>2, ServerStepOrdered DEF SyncStep



-----------------------------------------------------------------------------
(* What a cycle still has to settle.                                       *)

\* A snapshot that is not settled yet stands for a dirty row of the device,
\* and for its text as long as the stamp is the one that was taken.
SentHere(d, s) ==
  LET row == local[d][s.id]
  IN  /\ row.here /\ row.dirty
      /\ row.stamp = s.stamp => row.body = s.body
      /\ s.stamp \in s.body

SnapshotsHere == \A t \in Tabs : \A s \in Pending(t) : SentHere(Dev(t), s)

DirtyStamped ==
  \A d \in Devices, i \in Ids :
    local[d][i].dirty => local[d][i].here /\ local[d][i].stamp \in local[d][i].body

\* Nobody is told what the server has never stored.
AllSaidReached == \A i \in Ids : \A b : Said(i, b) => b \subseteq reached

CycleInv == Ordered /\ Fresh /\ SnapshotsHere /\ DirtyStamped /\ AllSaidReached

LEMMA ResultSent ==
  ASSUME Typed, CycleInv, NEW t \in Tabs, NEW r, NEW sent, IsNextResult(t, r, sent)
  PROVE  /\ SentHere(Dev(t), sent) /\ r.id = sent.id
         /\ r.id \in Ids /\ r.id \in used
         /\ r.status # "forbidden" => r.body \subseteq reached
         /\ r.status = "accepted" => r.body = sent.body
  <1>1. r \in tab[t].results /\ sent \in tab[t].batch /\ r.id = sent.id
    BY DEF IsNextResult
  <1>2. SentHere(Dev(t), sent)
    BY <1>1 DEF Pending, CycleInv, SnapshotsHere
  <1>3. r.id \in Ids /\ Dev(t) \in Devices
    BY NextResultType
  <1>4. r.id \in used
    BY <1>1, <1>2, <1>3 DEF SentHere, CycleInv, Fresh
  <1>5. r.status # "forbidden" => r.body \subseteq reached
    BY <1>1, <1>3, HearsAndSends DEF CycleInv, AllSaidReached
  <1>6. r.status = "accepted" => r.body = sent.body
    BY <1>1 DEF CycleInv, Ordered, CyclesOrderly, Orderly, Answers
  <1> QED
    BY <1>1, <1>2, <1>3, <1>4, <1>5, <1>6

\* A row is settled when the server has its text; it is taken from the server
\* only when a copy of what it said waits under another id, or when nothing in
\* it was waiting.
Settles(d, i) ==
  /\ local[d][i].here /\ local[d][i].dirty
  /\ local'[d][i].here
  /\ local'[d][i].body = local[d][i].body /\ local'[d][i].stamp = local[d][i].stamp
  /\ local'[d][i].dirty \/ local[d][i].body \subseteq reached

CopyWaits(d, b) == \E j \in Ids : /\ local'[d][j].here /\ local'[d][j].dirty
                               /\ local'[d][j].body = b

Takes(d, i) ==
  /\ i \in used
  /\ local'[d][i].here /\ ~local'[d][i].dirty
  /\ local'[d][i].body \subseteq reached
  /\ local[d][i].dirty => CopyWaits(d, local[d][i].body)

Copies(d, i) ==
  /\ i \notin used /\ i \in used'
  /\ \E j \in Ids : /\ local[d][j].here /\ local[d][j].dirty
                    /\ local'[d][i].here /\ local'[d][i].dirty
                    /\ local'[d][i].body = local[d][j].body
                    /\ local'[d][i].stamp = local[d][j].stamp

RowSettles(d, i) ==
  local'[d][i] = local[d][i] \/ Settles(d, i) \/ Takes(d, i) \/ Copies(d, i)

LEMMA RowsSettle ==
  ASSUME FitInv, CycleInv, SyncStep, NEW d \in Devices, NEW i \in Ids
  PROVE  RowSettles(d, i)
  <1>1. Typed /\ TypeOK /\ \A j \in Ids : local[d][j] \in LocalRow
    BY Types DEF FitInv, Typed
  <1>2. RowSyncs(d, i)
    BY <1>1, RowsSync
  <1>3. CASE Confirmed(d, i)
    <2>1. PICK t \in Tabs : \E r \in tab[t].results, sent \in tab[t].batch :
            /\ ApplyAccepted(t, r, sent)
            /\ Dev(t) = d /\ r.id = i
            /\ local'[d][i] = Accepted(local[d][i], r, sent)
      BY <1>3 DEF Confirmed
    <2>2. PICK r \in tab[t].results, sent \in tab[t].batch :
            /\ ApplyAccepted(t, r, sent)
            /\ Dev(t) = d /\ r.id = i
            /\ local'[d][i] = Accepted(local[d][i], r, sent)
      BY <2>1
    <2>3. IsNextResult(t, r, sent) /\ r.status = "accepted"
      BY <2>2 DEF ApplyAccepted
    <2>4. /\ SentHere(d, sent) /\ i = sent.id
          /\ r.body \subseteq reached /\ r.body = sent.body
      BY <1>1, <2>2, <2>3, ResultSent
    <2>5. /\ local'[d][i].here = local[d][i].here
          /\ local'[d][i].body = local[d][i].body
          /\ local'[d][i].stamp = local[d][i].stamp
          /\ local'[d][i].dirty <=> local[d][i].stamp # sent.stamp
      BY <1>1, <2>2 DEF Accepted, LocalRow
    <2>6. Settles(d, i)
      BY <2>4, <2>5 DEF SentHere, Settles
    <2> QED
      BY <2>6 DEF RowSettles
  <1>4. CASE Replaced(d, i)
    <2>1. PICK t \in Tabs : \E r \in tab[t].results, sent \in tab[t].batch :
            /\ ApplyNoteConflict(t, r, sent) \/ ApplyContainerConflict(t, r, sent)
            /\ Dev(t) = d /\ r.id = i
            /\ local'[d][i] = FromWire(r.ver, r.body)
      BY <1>4 DEF Replaced
    <2>2. PICK r \in tab[t].results, sent \in tab[t].batch :
            /\ ApplyNoteConflict(t, r, sent) \/ ApplyContainerConflict(t, r, sent)
            /\ Dev(t) = d /\ r.id = i
            /\ local'[d][i] = FromWire(r.ver, r.body)
      BY <2>1
    <2>3. IsNextResult(t, r, sent) /\ r.status # "forbidden"
      BY <2>2 DEF ApplyNoteConflict, ApplyContainerConflict
    <2>4. /\ SentHere(d, sent) /\ i = sent.id /\ i \in used
          /\ r.body \subseteq reached
      BY <1>1, <2>2, <2>3, ResultSent
    <2>5. KindOf[i] = "note"
      BY <2>4, HereFits DEF SentHere, Fits
    <2>6. ApplyNoteConflict(t, r, sent) /\ local[d][i].here
      BY <2>2, <2>4, <2>5 DEF ApplyContainerConflict, Forks, SentHere
    <2>7. PICK fork \in Ids :
            /\ IsFresh(fork, "note")
            /\ used' = used \cup {fork}
            /\ local' = [local EXCEPT ![d][fork] = Fork(local[d][i]),
                                      ![d][i] = FromWire(r.ver, r.body)]
      BY <2>2, <2>6 DEF ApplyNoteConflict
    <2>8. fork # i
      BY <2>4, <2>7 DEF IsFresh
    <2>9. local'[d][fork] = Fork(local[d][i])
      BY <1>1, <2>7, <2>8 DEF TypeOK
    <2>10. CopyWaits(d, local[d][i].body)
      BY <1>1, <2>4, <2>9 DEF Fork, LocalRow, SentHere, CopyWaits
    <2>11. Takes(d, i)
      BY <2>2, <2>4, <2>10 DEF Takes, FromWire
    <2> QED
      BY <2>11 DEF RowSettles
  <1>5. CASE Pulled(d, i) /\ local'[d][i] # local[d][i]
    <2>1. PICK t \in Tabs : /\ ApplyPage(t)
                            /\ Dev(t) = d
                            /\ \E c \in PageRows(tab[t].request) :
                                 c.id = i /\ local'[d][i] = FromWire(c.ver, c.body)
      BY <1>5 DEF Pulled
    <2>2. PICK c \in PageRows(tab[t].request) :
            c.id = i /\ local'[d][i] = FromWire(c.ver, c.body)
      BY <2>1
    <2> DEFINE h == tab[t].request
    <2>3. ~KeepsLocal(local[d][i])
      BY <1>1, <1>5, <2>1, PageRowApplied
    <2>4. ~local[d][i].dirty
      BY <2>3 DEF KeepsLocal, CycleInv, DirtyStamped
    <2>5. h \in Handlers /\ handler[h].state = "pull" /\ c \in handler[h].got
      BY <1>1, <2>1, <2>2, LowestIsSubset
      DEF ApplyPage, PullAnswered, PageRows, Typed, RequestsKnown, Waits
    <2>6. Said(i, c.body)
      BY <2>2, <2>5 DEF Said, HandlerSays
    <2>7. Stored(i)
      <3>1. rows[i].owner = handler[h].user /\ handler[h].user \in Users
        BY <1>1, <2>2, <2>5 DEF Typed, Gathers, GotOfPast, ServerIInv,
                                HandlersHaveUsers
      <3> QED
        BY <1>1, <3>1, UsersAssumption DEF Typed, ServerIInv, OwnersKnown
    <2>8. i \in used /\ c.body \subseteq reached
      BY <2>6, <2>7 DEF CycleInv, Fresh, AllSaidReached
    <2>9. Takes(d, i)
      BY <2>2, <2>4, <2>8 DEF Takes, FromWire
    <2> QED
      BY <2>9 DEF RowSettles
  <1>6. CASE ForkedFrom(d, i)
    <2>1. PICK t \in Tabs : \E r \in tab[t].results, sent \in tab[t].batch :
            /\ ApplyNoteConflict(t, r, sent)
            /\ Dev(t) = d /\ local[d][r.id].here
            /\ local'[d][i] = Fork(local[d][r.id])
      BY <1>6 DEF ForkedFrom
    <2>2. PICK r \in tab[t].results, sent \in tab[t].batch :
            /\ ApplyNoteConflict(t, r, sent)
            /\ Dev(t) = d /\ local[d][r.id].here
            /\ local'[d][i] = Fork(local[d][r.id])
      BY <2>1
    <2>3. IsNextResult(t, r, sent)
      BY <2>2 DEF ApplyNoteConflict
    <2>4. SentHere(d, sent) /\ r.id = sent.id /\ r.id \in Ids
      BY <1>1, <2>2, <2>3, ResultSent
    <2>5. Copies(d, i)
      BY <1>1, <1>6, <2>2, <2>4 DEF Copies, ForkedFrom, Fork, LocalRow, SentHere
    <2> QED
      BY <2>5 DEF RowSettles
  <1> QED
    BY <1>2, <1>3, <1>4, <1>5, <1>6 DEF RowSyncs, RowSettles


LEMMA SyncStamped ==
  ASSUME FitInv, CycleInv, SyncStep
  PROVE  DirtyStamped'
  <1> SUFFICES ASSUME NEW d \in Devices, NEW i \in Ids, local'[d][i].dirty
               PROVE  local'[d][i].here /\ local'[d][i].stamp \in local'[d][i].body
    BY DEF DirtyStamped
  <1>1. \A j \in Ids : local[d][j].dirty =>
          local[d][j].here /\ local[d][j].stamp \in local[d][j].body
    BY DEF CycleInv, DirtyStamped
  <1>2. RowSettles(d, i)
    BY RowsSettle
  <1> QED
    BY <1>1, <1>2 DEF RowSettles, Settles, Takes, Copies

LEMMA SyncSaid ==
  ASSUME Typed, CycleInv, SyncStep, Reaches
  PROVE  AllSaidReached'
  <1>1. Moves
    BY SyncMoves
  <1> SUFFICES ASSUME NEW i \in Ids, NEW b, Said(i, b)'
               PROVE  b \subseteq reached'
    BY Zenon DEF AllSaidReached
  <1>2. Said(i, b) \/ b = rows'[i].body
    BY <1>1 DEF Moves
  <1>3. CASE Said(i, b)
    BY <1>3 DEF CycleInv, AllSaidReached, Reaches
  <1>4. CASE b = rows'[i].body
    BY <1>4 DEF Reaches
  <1> QED
    BY <1>2, <1>3, <1>4

\* What a handler is sent is on the device that sends it.
LEMMA SyncTodo ==
  ASSUME Typed, CycleInv, SyncStep, NEW h \in Handlers, NEW in \in handler'[h].todo
  PROVE  in.id \in used
  <1>1. TypeOK /\ \A g \in Handlers : handler[g] \in Handler
    BY Types DEF Typed
  <1>2. \A g \in Handlers : \A x \in handler[g].todo : x.id \in Ids /\ x.id \in used
    BY <1>1 DEF Handler, Input, CycleInv, Fresh
  <1>3. ASSUME handler'[h].todo \subseteq handler[h].todo PROVE in.id \in used
    BY <1>2, <1>3
  <1>4. ASSUME NEW g \in Handlers, handler' = [handler EXCEPT ![g] = Idle]
        PROVE  in.id \in used
    BY <1>1, <1>3, <1>4 DEF TypeOK, ServerTypeOK, Idle
  <1>5. ASSUME UNCHANGED handler PROVE in.id \in used
    BY <1>3, <1>5
  <1>6. ASSUME NEW t \in Tabs, NEW g \in Handlers, SendBatch(t, g)
        PROVE  in.id \in used
    <2> DEFINE batch == NextBatch(tab[t].queue)
               sent  == {[id |-> s.id, ver |-> s.ver, body |-> s.body] : s \in batch}
               hd    == [Idle EXCEPT !.state = "push", !.user = account[Dev(t)],
                                     !.todo = sent]
    <2>1. handler' = [handler EXCEPT ![g] = hd] /\ hd.todo = sent
      BY <1>6 DEF SendBatch, PushArrives, Idle
    <2>2. batch \subseteq Pending(t)
      BY DEF NextBatch, Pending
    <2> HIDE DEF batch, hd
    <2>3. ASSUME NEW s \in batch PROVE s.id \in used
      <3>1. SentHere(Dev(t), s) /\ s.id \in Ids /\ Dev(t) \in Devices
        BY <1>1, <2>2, PendingType, Types DEF CycleInv, SnapshotsHere, Snapshot
      <3> QED
        BY <3>1 DEF SentHere, CycleInv, Fresh
    <2>4. \A x \in sent : x.id \in used
      BY <2>3
    <2>5. handler'[h].todo = IF h = g THEN sent ELSE handler[h].todo
      BY <1>1, <2>1 DEF TypeOK, ServerTypeOK
    <2> HIDE DEF sent
    <2> QED
      BY <1>2, <2>4, <2>5
  <1>7. ASSUME NEW t \in Tabs, NEW g \in Handlers, NEW since, AskPage(t, g, since)
        PROVE  in.id \in used
    <2> DEFINE hd == [Idle EXCEPT !.state = "pull", !.user = account[Dev(t)],
                                  !.since = since, !.limit = PageSize,
                                  !.unread = Kinds,
                                  !.start = lastSeq[account[Dev(t)]]]
    <2>1. handler' = [handler EXCEPT ![g] = hd] /\ hd.todo = {}
      BY <1>7 DEF AskPage, PullArrives, Idle
    <2> HIDE DEF hd
    <2> QED
      BY <1>1, <1>3, <2>1 DEF TypeOK, ServerTypeOK
  <1>8. ASSUME NEW t \in Tabs, CycleStep(t) PROVE in.id \in used
    <2>1. StartCycle(t) \/ ApplyResult(t) => UNCHANGED handler
      BY DEF StartCycle, ApplyResult, ApplyAccepted, ApplyNoteConflict,
             ApplyContainerConflict, ApplyForbidden, serverVars
    <2>2. ReceiveResults(t) \/ ApplyPage(t) =>
            \E g \in Handlers : handler' = [handler EXCEPT ![g] = Idle]
      BY DEF ReceiveResults, ApplyPage, Respond, Typed, RequestsKnown, Waits
    <2> QED
      BY <1>4, <1>5, <1>6, <1>7, <1>8, <2>1, <2>2
      DEF CycleStep, AskFirstPage, AskNextPage
  <1>9. ASSUME NEW t \in Tabs, GiveUp(t) PROVE in.id \in used
    BY <1>5, <1>9 DEF GiveUp, serverVars
  <1>10. ASSUME NEW g \in Handlers, ServerStep(g) PROVE in.id \in used
    <2>1. CASE Cancel(g)
      BY <1>4, <2>1 DEF Cancel, HandlerFails
    <2>2. ASSUME NEW k \in Kinds, ReadTable(g, k) PROVE in.id \in used
      BY <1>1, <1>3, <2>2 DEF ReadTable, TypeOK, ServerTypeOK, Handler
    <2>3. ASSUME NEW x \in handler[g].todo, NEW result, Answer(g, x, result)
          PROVE  in.id \in used
      BY <1>1, <1>3, <2>3 DEF Answer, TypeOK, ServerTypeOK, Handler
    <2> QED
      BY <1>10, <2>1, <2>2, <2>3
      DEF ServerStep, Query, PushRow, UpsertAccepted, UpsertConflict, UpsertForbidden
  <1> QED
    BY <1>8, <1>9, <1>10 DEF SyncStep

LEMMA SyncFresh ==
  ASSUME FitInv, CycleInv, SyncStep
  PROVE  Fresh'
  <1>0. Typed
    BY DEF FitInv
  <1>1. /\ used \subseteq used' /\ Next
    BY SyncSame
  <1>2. ASSUME NEW i \in Ids, i \notin used' PROVE ~Stored(i)'
    <2>1. ASSUME NEW h \in Handlers, NEW in \in handler[h].todo, UpsertAccepted(h, in)
          PROVE  rows'[i] = rows[i]
      <3>1. in.id # i
        BY <1>1, <1>2 DEF CycleInv, Fresh
      <3> QED
        BY <2>1, <3>1, <1>0 DEF UpsertAccepted, Typed, TypeOK, ServerTypeOK
    <2>2. rows'[i] = rows[i]
      BY <1>1, <2>1, OnlyUpsertsWrite
    <2> QED
      BY <1>1, <1>2, <2>2 DEF CycleInv, Fresh, Stored
  <1>3. ASSUME NEW i \in Ids, i \notin used', NEW d \in Devices
        PROVE  ~local'[d][i].here
    <2>1. RowSettles(d, i) /\ i \notin used /\ ~local[d][i].here
      BY <1>1, <1>3, RowsSettle DEF CycleInv, Fresh
    <2> QED
      BY <1>3, <2>1 DEF RowSettles, Settles, Takes, Copies
  <1>4. \A i \in Ids \ used' : \A h \in Handlers : \A in \in handler'[h].todo : in.id # i
    BY <1>0, <1>1, SyncTodo
  <1> QED
    BY <1>2, <1>3, <1>4 DEF Fresh


\* An answer that was applied settles its snapshot and no other.
LEMMA AppliedSettles ==
  ASSUME Typed, Ordered, NEW t \in Tabs, NEW r, NEW sent,
         IsNextResult(t, r, sent), ResultApplied(t, r), NEW q \in Pending(t)'
  PROVE  q \in Pending(t) /\ q.id # r.id
  <1> DEFINE cyc == tab[t]
             new == [cyc EXCEPT !.results = @ \ {r}]
  <1>1. TypeOK /\ cyc \in Tab /\ Orderly(cyc)
    BY Types DEF Typed, Ordered, CyclesOrderly
  <1>2. /\ new.queue = cyc.queue /\ new.batch = cyc.batch /\ new.pc = cyc.pc
        /\ new.results = cyc.results \ {r}
    BY <1>1 DEF Tab
  <1>3. tab' = [tab EXCEPT ![t] = new]
    BY DEF ResultApplied
  <1> HIDE DEF new
  <1>4. tab'[t] = new
    BY <1>1, <1>3 DEF TypeOK
  <1>5. q \in Pending(t)
    BY <1>2, <1>4 DEF Pending
  <1>6. ASSUME q.id = r.id PROVE FALSE
    <2>1. sent \in cyc.batch /\ sent.id = r.id /\ cyc.pc = "push" /\ r \in cyc.results
      BY DEF IsNextResult
    <2>2. q = sent
      BY <1>1, <1>5, <1>6, <2>1 DEF Pending, Orderly
    <2>3. q \notin cyc.queue
      BY <1>1, <2>1, <2>2 DEF Orderly
    <2>4. PICK p \in cyc.results \ {r} : p.id = q.id
      BY <1>2, <1>4, <2>1, <2>3 DEF Pending
    <2> QED
      BY <1>1, <1>6, <2>1, <2>4 DEF Orderly
  <1> QED
    BY <1>5, <1>6

\* Snapshots are taken when a cycle starts.
LEMMA PendingMoves ==
  ASSUME Typed, Ordered, SyncStep, NEW t \in Tabs, NEW q \in Pending(t)'
  PROVE  q \in Pending(t) \/ (StartCycle(t) /\ q \in DirtyRows(Dev(t)))
  <1>1. TypeOK /\ \A s \in Tabs : tab[s] \in Tab
    BY Types DEF Typed
  <1>2. ASSUME NEW s \in Tabs, NEW new, tab' = [tab EXCEPT ![s] = new],
               new.queue \subseteq tab[s].queue,
               \A x \in new.batch : new.pc = "sent" \/ (\E r \in new.results : r.id = x.id)
                 => x \in Pending(s)
        PROVE  q \in Pending(t)
    BY <1>1, <1>2 DEF Pending, TypeOK
  <1>3. ASSUME tab' = tab PROVE q \in Pending(t)
    BY <1>3 DEF Pending
  <1>4. ASSUME NEW s \in Tabs, NEW new, tab' = [tab EXCEPT ![s] = new],
               new.queue = {}, new.batch = {}
        PROVE  q \in Pending(t)
    BY <1>2, <1>4
  <1>5. ASSUME NEW s \in Tabs, StartCycle(s)
        PROVE  q \in Pending(t) \/ (StartCycle(t) /\ q \in DirtyRows(Dev(t)))
    <2> DEFINE new == [NoCycle EXCEPT !.pc = "push", !.queue = DirtyRows(Dev(s))]
    <2>1. tab' = [tab EXCEPT ![s] = new]
      BY <1>5 DEF StartCycle
    <2>2. new.queue = DirtyRows(Dev(s)) /\ new.batch = {}
      BY DEF NoCycle
    <2> HIDE DEF new
    <2>3. tab'[s] = new /\ \A x \in Tabs \ {s} : tab'[x] = tab[x]
      BY <1>1, <2>1 DEF TypeOK
    <2>4. CASE t = s
      BY <1>5, <2>2, <2>3, <2>4 DEF Pending
    <2>5. CASE t # s
      BY <2>3, <2>5 DEF Pending
    <2> QED
      BY <2>4, <2>5
  <1>6. ASSUME NEW s \in Tabs, NEW h \in Handlers, SendBatch(s, h)
        PROVE  q \in Pending(t)
    <2> PICK batch : batch = NextBatch(tab[s].queue)
      OBVIOUS
    <2> DEFINE new == [tab[s] EXCEPT !.pc = "sent", !.queue = @ \ batch,
                                     !.batch = batch, !.request = h]
    <2>1. tab' = [tab EXCEPT ![s] = new]
      BY <1>6 DEF SendBatch
    <2>2. new.queue = tab[s].queue \ batch /\ new.batch = batch
      BY <1>1 DEF Tab
    <2>3. batch \subseteq tab[s].queue
      BY DEF NextBatch
    <2> HIDE DEF new
    <2>4. new.queue \subseteq tab[s].queue /\ new.batch \subseteq Pending(s)
      BY <2>2, <2>3 DEF Pending
    <2> QED
      BY <1>2, <2>1, <2>4
  <1>7. ASSUME NEW s \in Tabs, ReceiveResults(s) PROVE q \in Pending(t)
    <2> DEFINE new == [tab[s] EXCEPT !.pc = "push",
                                     !.results = handler[tab[s].request].results,
                                     !.request = NoHandler]
    <2>1. tab' = [tab EXCEPT ![s] = new] /\ tab[s].pc = "sent"
      BY <1>7 DEF ReceiveResults
    <2>2. new.queue = tab[s].queue /\ new.batch = tab[s].batch
      BY <1>1 DEF Tab
    <2> HIDE DEF new
    <2>3. new.queue \subseteq tab[s].queue /\ new.batch \subseteq Pending(s)
      BY <2>1, <2>2 DEF Pending
    <2> QED
      BY <1>2, <2>1, <2>3
  <1>8. ASSUME NEW s \in Tabs, ApplyResult(s) PROVE q \in Pending(t)
    <2>1. PICK r \in tab[s].results : ResultApplied(s, r)
      BY <1>8, Zenon DEF ApplyResult, ApplyAccepted, ApplyNoteConflict,
                         ApplyContainerConflict, ApplyForbidden
    <2> DEFINE new == [tab[s] EXCEPT !.results = @ \ {r}]
    <2>2. /\ new.queue = tab[s].queue /\ new.batch = tab[s].batch
          /\ new.pc = tab[s].pc /\ new.results = tab[s].results \ {r}
      BY <1>1 DEF Tab
    <2>3. tab' = [tab EXCEPT ![s] = new]
      BY <2>1 DEF ResultApplied
    <2> HIDE DEF new
    <2>4. /\ new.queue \subseteq tab[s].queue
          /\ \A x \in new.batch : new.pc = "sent" \/ (\E p \in new.results : p.id = x.id)
               => x \in Pending(s)
      BY <2>2 DEF Pending
    <2> QED
      BY <1>2, <2>3, <2>4
  <1>9. ASSUME NEW s \in Tabs, NEW h \in Handlers, NEW since, AskPage(s, h, since)
        PROVE  q \in Pending(t)
    <2> DEFINE new == [NoCycle EXCEPT !.pc = "wait", !.pages = tab[s].pages,
                                      !.request = h]
    <2>1. tab' = [tab EXCEPT ![s] = new] /\ new.queue = {} /\ new.batch = {}
      BY <1>9 DEF AskPage, NoCycle
    <2> HIDE DEF new
    <2> QED
      BY <1>4, <2>1
  <1>10. ASSUME NEW s \in Tabs, ApplyPage(s) PROVE q \in Pending(t)
    <2> DEFINE h == tab[s].request
               pages == tab[s].pages + 1
               more == [NoCycle EXCEPT !.pc = "pull", !.since = PageCursor(h),
                                       !.pages = pages]
               new == IF HasMore(h) /\ pages < MaxPages THEN more ELSE NoCycle
    <2>1. tab' = [tab EXCEPT ![s] = new]
      BY <1>10 DEF ApplyPage
    <2>2. new.queue = {} /\ new.batch = {}
      BY DEF NoCycle
    <2> HIDE DEF new
    <2> QED
      BY <1>4, <2>1, <2>2
  <1>11. ASSUME NEW s \in Tabs, GiveUp(s) PROVE q \in Pending(t)
    <2>1. tab' = [tab EXCEPT ![s] = NoCycle] /\ NoCycle.queue = {} /\ NoCycle.batch = {}
      BY <1>11, NoCycleCarries DEF GiveUp
    <2> QED
      BY <1>4, <2>1
  <1>12. ASSUME NEW h \in Handlers, ServerStep(h) PROVE q \in Pending(t)
    BY <1>3, <1>12 DEF ServerStep, Cancel, clientVars
  <1> QED
    BY <1>5, <1>6, <1>7, <1>8, <1>9, <1>10, <1>11, <1>12
    DEF SyncStep, CycleStep, AskFirstPage, AskNextPage

LEMMA SyncSnapshots ==
  ASSUME OneTabEach, FitInv, CycleInv, SyncStep
  PROVE  SnapshotsHere'
  <1>0. Typed /\ TypeOK /\ Ordered
    BY DEF FitInv, Typed, CycleInv
  <1> SUFFICES ASSUME NEW t \in Tabs, NEW q \in Pending(t)'
               PROVE  SentHere(Dev(t), q)'
    BY DEF SnapshotsHere
  <1> DEFINE d == Dev(t)
  <1>1. CASE StartCycle(t) /\ q \in DirtyRows(d)
    <2>1. PICK i \in Ids : /\ local[d][i].here /\ local[d][i].dirty
                           /\ q = [id |-> i, ver |-> local[d][i].ver,
                                   stamp |-> local[d][i].stamp,
                                   body |-> local[d][i].body]
      BY <1>1 DEF DirtyRows
    <2>2. d \in Devices /\ local' = local
      BY <1>0, <1>1, Types DEF StartCycle
    <2>3. local[d][i].stamp \in local[d][i].body
      BY <2>1, <2>2 DEF CycleInv, DirtyStamped
    <2> QED
      BY <2>1, <2>2, <2>3 DEF SentHere, Dev
  <1>2. CASE q \in Pending(t)
    <2> DEFINE i == q.id
    <2>1. SentHere(d, q) /\ d \in Devices /\ i \in Ids
      BY <1>0, <1>2, PendingType, Types DEF CycleInv, SnapshotsHere, Snapshot
    <2>2. i \in used
      BY <2>1 DEF SentHere, CycleInv, Fresh
    <2>3. RowSyncs(d, i)
      BY <1>0, <2>1, RowsSync
    <2>4. ASSUME NEW s \in Tabs, NEW r \in tab[s].results, NEW sent \in tab[s].batch,
                 IsNextResult(s, r, sent), ResultApplied(s, r), Dev(s) = d, r.id = i
          PROVE  FALSE
      <3>1. s = t
        BY <2>4 DEF OneTabEach
      <3> QED
        BY <1>0, <2>4, <3>1, AppliedSettles
    <2>5. ~Confirmed(d, i)
      BY <2>4 DEF Confirmed, ApplyAccepted
    <2>6. ~Replaced(d, i)
      BY <2>4 DEF Replaced, ApplyNoteConflict, ApplyContainerConflict
    <2>7. ~Pulled(d, i)
      <3> SUFFICES ASSUME NEW s \in Tabs, ApplyPage(s), Dev(s) = d PROVE FALSE
        BY DEF Pulled
      <3> DEFINE h == tab[s].request
                 pages == tab[s].pages + 1
                 more == [NoCycle EXCEPT !.pc = "pull", !.since = PageCursor(h),
                                         !.pages = pages]
                 new == IF HasMore(h) /\ pages < MaxPages THEN more ELSE NoCycle
      <3>1. tab' = [tab EXCEPT ![s] = new] /\ s = t
        BY DEF ApplyPage, OneTabEach
      <3>2. new.queue = {} /\ new.batch = {}
        BY DEF NoCycle
      <3> HIDE DEF new
      <3>3. tab'[t] = new
        BY <1>0, <3>1 DEF TypeOK
      <3> QED
        BY <3>2, <3>3 DEF Pending
    <2>8. ~ForkedFrom(d, i)
      BY <2>2 DEF ForkedFrom
    <2>9. local'[d][i] = local[d][i]
      BY <2>3, <2>5, <2>6, <2>7, <2>8 DEF RowSyncs
    <2> QED
      BY <2>1, <2>9 DEF SentHere, Dev
  <1> QED
    BY <1>0, <1>1, <1>2, PendingMoves

LEMMA SyncCycles ==
  ASSUME OneTabEach, FitInv, CycleInv, SyncStep, Reaches
  PROVE  CycleInv'
  <1>1. Typed /\ Ordered
    BY DEF FitInv, CycleInv
  <1> QED
    BY <1>1, SyncOrdered, SyncFresh, SyncSnapshots, SyncStamped, SyncSaid DEF CycleInv



-----------------------------------------------------------------------------
(* Editors and what they have pending.                                     *)

\* What the row of an open note holds and the document does not is stored, so
\* a write of the document takes nothing away that waits.
OpenCovers ==
  \A t \in Tabs : LET e == editor[t] IN
    e.note # NoNote => local[Dev(t)][e.note].body \subseteq e.doc \cup reached

\* A write that is pending is the document, and its newest edit was typed
\* here and is nowhere else yet.
WritesOwn(t) ==
  LET e == editor[t]
      n == Newest(e.doc)
  IN  /\ e.unsaved
      /\ e.pending.body = e.doc
      /\ n \notin deletions /\ n \in made[Dev(t)]
      /\ \A i \in Ids : \A b : Carried(i, b) => n \notin b
      /\ \A s \in Tabs \ {t} : editor[s].note # NoNote => n \notin editor[s].doc

Writing == \A t \in Tabs : editor[t].pending # NoWrite => WritesOwn(t)

SendInv ==
  /\ FitInv
  /\ CycleInv
  /\ OpenCovers
  /\ Writing
  /\ DirtyIsOurs
  /\ TypingReachesServer

\* Where an edit waits that the server has not stored.
InEditor(e) == \E t \in Tabs : e \in editor[t].pending.body
InRow(e)    == \E d \in Devices, i \in Ids : local[d][i].dirty /\ e \in local[d][i].body

LEMMA SyncSends ==
  ASSUME OneTabEach, SendInv, SyncStep, Reaches
  PROVE  SendInv'
  <1>0. FitInv /\ CycleInv /\ Typed
    BY DEF SendInv, FitInv
  <1>1. FitInv' /\ CycleInv'
    BY <1>0, SyncFits, SyncCycles
  <1>2. /\ UNCHANGED <<edits, noteEdits, editor, deletions, made, refused>>
        /\ reached \subseteq reached'
    BY SyncSame DEF Reaches
  <1>3. \A d \in Devices, i \in Ids : RowSettles(d, i)
    BY <1>0, RowsSettle
  <1>4. ASSUME NEW t \in Tabs, editor'[t].note # NoNote
        PROVE  local'[Dev(t)][editor'[t].note].body \subseteq editor'[t].doc \cup reached'
    <2> DEFINE d == Dev(t)
               i == editor[t].note
    <2>1. d \in Devices /\ i \in Ids /\ local[d][i].here
      BY <1>0, <1>2, <1>4, EditorTypes DEF EditorFits
    <2>2. i \in used
      BY <1>0, <2>1 DEF CycleInv, Fresh
    <2>3. local'[d][i].body = local[d][i].body \/ local'[d][i].body \subseteq reached
      BY <1>3, <2>1, <2>2 DEF RowSettles, Settles, Takes, Copies
    <2> QED
      BY <1>2, <1>4, <2>3 DEF SendInv, OpenCovers
  <1>5. OpenCovers'
    BY <1>4 DEF OpenCovers, Dev
  <1>6. Writing'
    <2> SUFFICES ASSUME NEW t \in Tabs, editor'[t].pending # NoWrite
                 PROVE  WritesOwn(t)'
      BY DEF Writing
    <2> DEFINE n == Newest(editor[t].doc)
    <2>1. WritesOwn(t)
      BY <1>2 DEF SendInv, Writing
    <2>2. Moves
      BY <1>0, SyncMoves
    <2>3. ASSUME NEW i \in Ids, NEW b, Carried(i, b)' PROVE n \notin b
      <3>1. \E j \in Ids : Carried(j, b)
        BY <2>2, <2>3 DEF Moves
      <3> QED
        BY <2>1, <3>1 DEF WritesOwn
    <2> QED
      BY <1>2, <2>1, <2>3 DEF WritesOwn, Dev
  <1>7. DirtyIsOurs'
    <2> SUFFICES ASSUME NEW d \in Devices, NEW i \in Ids,
                        local'[d][i].here, local'[d][i].dirty
                 PROVE  local'[d][i].body \cap made[d] # {}
      BY <1>2 DEF DirtyIsOurs
    <2>1. RowSettles(d, i)
      BY <1>3
    <2> QED
      BY <2>1 DEF RowSettles, Settles, Takes, Copies, SendInv, DirtyIsOurs
  <1>8. TypingReachesServer'
    <2> SUFFICES ASSUME NEW e \in noteEdits, e \notin reached', e \notin refused
                 PROVE  InEditor(e)' \/ InRow(e)'
      BY <1>2 DEF TypingReachesServer, InEditor, InRow
    <2>1. InEditor(e) \/ InRow(e)
      BY <1>2 DEF SendInv, TypingReachesServer, InEditor, InRow
    <2>2. InEditor(e) => InEditor(e)'
      BY <1>2 DEF InEditor
    <2>3. ASSUME NEW d \in Devices, NEW i \in Ids,
                 local[d][i].dirty, e \in local[d][i].body
          PROVE  InRow(e)'
      <3>1. RowSettles(d, i)
        BY <1>3
      <3>2. local[d][i].here /\ i \in used
        BY <1>0, <2>3 DEF CycleInv, DirtyStamped, Fresh
      <3>3. CASE local'[d][i] = local[d][i]
        BY <2>3, <3>3 DEF InRow
      <3>4. CASE Settles(d, i)
        BY <1>2, <2>3, <3>4 DEF Settles, InRow
      <3>5. CASE Takes(d, i)
        BY <2>3, <3>5 DEF Takes, CopyWaits, InRow
      <3> QED
        BY <3>1, <3>2, <3>3, <3>4, <3>5 DEF RowSettles, Copies
    <2> QED
      BY <2>1, <2>2, <2>3 DEF InRow
  <1> QED
    BY <1>1, <1>5, <1>6, <1>7, <1>8 DEF SendInv


\* A step that is no cycle's: what it must show of the rows it writes.
LEMMA CyclesStand ==
  ASSUME Typed, CycleInv, UNCHANGED handler, used' = used,
         \A s \in Tabs : tab'[s] = tab[s] \/ tab'[s] = NoCycle,
         \A i \in Ids : Stored(i)' => Stored(i),
         \A d \in Devices, i \in Ids : local'[d][i].here => local[d][i].here,
         \A t \in Tabs : \A q \in Pending(t) : SentHere(Dev(t), q)',
         DirtyStamped', Reaches
  PROVE  CycleInv'
  <1>1. Ordered'
    BY EndsOrdered DEF CycleInv
  <1>2. Fresh'
    BY DEF CycleInv, Fresh
  <1>3. \A t \in Tabs : Pending(t)' \subseteq Pending(t)
    BY NoCycleCarries DEF Pending
  <1>4. SnapshotsHere'
    BY <1>3 DEF SnapshotsHere
  <1>5. AllSaidReached'
    <2> SUFFICES ASSUME NEW i \in Ids, NEW b, Said(i, b)'
                 PROVE  b \subseteq reached'
      BY Zenon DEF AllSaidReached
    <2>1. CASE RowSays(i, b)'
      BY <2>1 DEF RowSays, Reaches
    <2>2. CASE ~RowSays(i, b)'
      <3>1. \A h \in Handlers : HandlerSays(h, i, b)' => HandlerSays(h, i, b)
        BY DEF HandlerSays
      <3>2. ASSUME NEW s \in Tabs, TabHears(s, i, b)' PROVE TabHears(s, i, b)
        <4>1. CASE tab'[s] = tab[s]
          BY <3>2, <4>1 DEF TabHears
        <4>2. CASE tab'[s] = NoCycle
          BY <3>2, <4>2, NoCycleCarries DEF TabHears
        <4> QED
          BY <4>1, <4>2
      <3>3. Said(i, b)
        BY <2>2, <3>1, <3>2 DEF Said
      <3> QED
        BY <3>3 DEF CycleInv, AllSaidReached, Reaches
    <2> QED
      BY <2>1, <2>2
  <1> QED
    BY <1>1, <1>2, <1>4, <1>5 DEF CycleInv

\* The row of the open note takes the document.
Written(t) ==
  \E new \in LocalRow :
    /\ local' = [local EXCEPT ![Dev(t)][editor[t].note] = new]
    /\ new.here /\ new.dirty
    /\ new.body = editor[t].doc
    /\ new.stamp = Newest(editor[t].doc) /\ new.stamp \in new.body

LEMMA FlushCases ==
  ASSUME SendInv, NEW t \in Tabs, NEW open, Flush(t, open)
  PROVE  \/ editor[t].pending = NoWrite /\ UNCHANGED <<local, refused>>
         \/ /\ editor[t].pending # NoWrite
            /\ UNCHANGED local /\ refused' = refused \cup editor[t].doc
         \/ editor[t].pending # NoWrite /\ UNCHANGED refused /\ Written(t)
  <1> DEFINE e == editor[t]
             write == e.pending
             d == Dev(t)
             j == write.id
             new == Saved(local[d][j], write)
  <1>1. CASE write = NoWrite
    BY <1>1 DEF Flush
  <1>2. CASE write # NoWrite
    <2>1. /\ FitInv /\ d \in Devices /\ e.note # NoNote /\ e.note \in Ids
          /\ j = e.note /\ write.body # {} /\ write.body \in SUBSET Edits
          /\ local[d][j].here
      BY <1>2, EditorTypes DEF SendInv, EditorFits, Editor
    <2>2. write.body = e.doc
      BY <1>2 DEF SendInv, Writing, WritesOwn
    <2>3. CASE Deleted(local[d][j].body)
      BY <1>2, <2>2, <2>3 DEF Flush
    <2>4. CASE ~Deleted(local[d][j].body)
      <3>1. local' = [local EXCEPT ![d][j] = new] /\ UNCHANGED refused
        BY <1>2, <2>4 DEF Flush
      <3>2. local[d][j] \in LocalRow
        BY <2>1, Types DEF FitInv, Typed
      <3>3. Newest(write.body) \in write.body /\ Newest(write.body) \in 0..MaxEdits
        BY <2>1, NewestIs
      <3>4. /\ new \in LocalRow /\ new.here /\ new.dirty
            /\ new.body = write.body /\ new.stamp = Newest(write.body)
        BY <2>1, <3>2, <3>3 DEF Saved, LocalRow
      <3> HIDE DEF new
      <3>5. Written(t)
        BY <2>1, <2>2, <3>1, <3>3, <3>4 DEF Written
      <3> QED
        BY <1>2, <3>1, <3>5
    <2> QED
      BY <2>3, <2>4
  <1> QED
    BY <1>1, <1>2

\* A write that was pending is in no snapshot, so the row's stamp tells it
\* from all of them.
LEMMA WrittenCycles ==
  ASSUME SendInv, NEW t \in Tabs, editor[t].pending # NoWrite, Written(t),
         UNCHANGED <<rows, handler>>, used' = used,
         \A s \in Tabs : tab'[s] = tab[s] \/ tab'[s] = NoCycle, Reaches
  PROVE  CycleInv'
  <1> DEFINE d == Dev(t)
             i == editor[t].note
  <1>0. FitInv /\ CycleInv /\ Typed /\ TypeOK
    BY DEF SendInv, FitInv, Typed
  <1>1. d \in Devices /\ i \in Ids /\ local[d][i].here
    BY <1>0, EditorTypes DEF EditorFits
  <1>2. PICK new \in LocalRow :
          /\ local' = [local EXCEPT ![d][i] = new]
          /\ new.here /\ new.dirty
          /\ new.body = editor[t].doc
          /\ new.stamp = Newest(editor[t].doc) /\ new.stamp \in new.body
    BY DEF Written
  <1>3. \A c \in Devices, j \in Ids :
          local'[c][j] = IF c = d /\ j = i THEN new ELSE local[c][j]
    BY <1>0, <1>1, <1>2 DEF TypeOK
  <1>4. ASSUME NEW s \in Tabs, NEW q \in Pending(s) PROVE SentHere(Dev(s), q)'
    <2>1. SentHere(Dev(s), q) /\ q.id \in Ids /\ Dev(s) \in Devices
      BY <1>0, PendingType, Types DEF CycleInv, SnapshotsHere, Snapshot
    <2>2. Carried(q.id, q.body)
      BY HearsAndSends DEF Pending
    <2>3. new.stamp \notin q.body
      BY <1>2, <2>1, <2>2 DEF SendInv, Writing, WritesOwn
    <2> QED
      BY <1>2, <1>3, <2>1, <2>3 DEF SentHere, Dev
  <1>5. DirtyStamped'
    BY <1>0, <1>2, <1>3 DEF CycleInv, DirtyStamped
  <1>6. /\ \A c \in Devices, j \in Ids : local'[c][j].here => local[c][j].here
        /\ \A j \in Ids : Stored(j)' => Stored(j)
    BY <1>1, <1>3 DEF Stored
  <1> QED
    BY <1>0, <1>4, <1>5, <1>6, CyclesStand

\* The same without a write.
LEMMA UnwrittenCycles ==
  ASSUME SendInv, UNCHANGED <<rows, handler, local>>, used' = used,
         \A s \in Tabs : tab'[s] = tab[s] \/ tab'[s] = NoCycle, Reaches
  PROVE  CycleInv'
  <1>0. CycleInv /\ Typed
    BY DEF SendInv, FitInv
  <1>1. \A s \in Tabs : \A q \in Pending(s) : SentHere(Dev(s), q)'
    BY <1>0 DEF CycleInv, SnapshotsHere, SentHere, Dev
  <1>2. DirtyStamped'
    BY <1>0 DEF CycleInv, DirtyStamped
  <1>3. \A j \in Ids : Stored(j)' => Stored(j)
    BY DEF Stored
  <1> QED
    BY <1>0, <1>1, <1>2, <1>3, CyclesStand


\* The steps that flush: the editor keeps its document, closes, or shows a row
\* that the write does not touch.
LEMMA FlushSends ==
  ASSUME OneTabEach, SendInv, NEW t \in Tabs, NEW e \in Editor, NEW open,
         Flush(t, open), Rest, editor' = [editor EXCEPT ![t] = e],
         e.pending = NoWrite,
         e.note # NoNote =>
           \/ e.note = editor[t].note /\ e.doc = editor[t].doc
           \/ /\ e.note # editor[t].note \/ editor[t].pending = NoWrite
              /\ local[Dev(t)][e.note].here
              /\ e.doc = local[Dev(t)][e.note].body,
         tab' = tab \/ tab' = [tab EXCEPT ![t] = NoCycle],
         UNCHANGED <<deletions, made>>, Reaches, FitInv'
  PROVE  SendInv'
  <1> DEFINE d == Dev(t)
             i == editor[t].note
             doc == editor[t].doc
  <1>0. FitInv /\ CycleInv /\ Typed /\ TypeOK /\ editor \in [Tabs -> Editor]
    BY DEF SendInv, FitInv, Typed, EditorParts
  <1>1. /\ UNCHANGED <<rows, handler>>
        /\ UNCHANGED <<cursor, account, used, edits, noteEdits>>
    BY DEF Rest, serverVars
  <1>2. \A s \in Tabs : tab'[s] = tab[s] \/ tab'[s] = NoCycle
    BY <1>0 DEF TypeOK
  <1>3. /\ d \in Devices /\ EditorFits(d, editor[t]) /\ editor[t] \in Editor
        /\ i # NoNote => i \in Ids
    BY <1>0, EditorTypes
  <1>4. reached \subseteq reached'
    BY DEF Reaches
  <1>5. /\ editor'[t] = e
        /\ \A s \in Tabs \ {t} : editor'[s] = editor[s] /\ Dev(s) # d
    BY <1>0 DEF OneTabEach
  <1>6. \/ editor[t].pending = NoWrite /\ UNCHANGED <<local, refused>>
        \/ /\ editor[t].pending # NoWrite
           /\ UNCHANGED local /\ refused' = refused \cup doc
        \/ editor[t].pending # NoWrite /\ UNCHANGED refused /\ Written(t)
    BY FlushCases
  <1>7. CycleInv'
    BY <1>1, <1>2, <1>6, WrittenCycles, UnwrittenCycles
  <1>8. /\ refused \subseteq refused'
        /\ editor[t].pending # NoWrite =>
             /\ i # NoNote /\ i \in Ids /\ editor[t].pending.body = doc
             /\ Newest(doc) \in made[d]
    <2>1. editor[t].pending # NoWrite => WritesOwn(t)
      BY DEF SendInv, Writing
    <2>2. refused \subseteq refused'
      BY <1>6
    <2> QED
      BY <1>3, <2>1, <2>2 DEF EditorFits, WritesOwn
  <1>9. ASSUME NEW c \in Devices, NEW j \in Ids
        PROVE  \/ local'[c][j] = local[c][j]
               \/ /\ c = d /\ j = i /\ editor[t].pending # NoWrite
                  /\ local'[c][j].here /\ local'[c][j].dirty
                  /\ local'[c][j].body = doc /\ Newest(doc) \in doc
    <2>1. CASE UNCHANGED local
      BY <2>1
    <2>2. CASE Written(t) /\ editor[t].pending # NoWrite
      <3>1. PICK new \in LocalRow :
              /\ local' = [local EXCEPT ![d][i] = new]
              /\ new.here /\ new.dirty
              /\ new.body = editor[t].doc
              /\ new.stamp = Newest(editor[t].doc) /\ new.stamp \in new.body
        BY <2>2 DEF Written
      <3>2. \/ local'[c][j] = local[c][j]
            \/ c = d /\ j = i /\ local'[c][j] = new
        BY <1>0, <3>1 DEF TypeOK
      <3> QED
        BY <2>2, <3>1, <3>2
    <2> QED
      BY <1>6, <2>1, <2>2
  <1>10. OpenCovers'
    <2> SUFFICES ASSUME NEW s \in Tabs, editor'[s].note # NoNote
                 PROVE  local'[Dev(s)][editor'[s].note].body
                          \subseteq editor'[s].doc \cup reached'
      BY DEF OpenCovers, Dev
    <2>1. CASE s = t
      <3>1. e.note \in Ids
        BY <1>5, <2>1 DEF Editor
      <3>2. CASE e.note = i /\ e.doc = doc
        <4>1. \/ local'[d][i] = local[d][i]
              \/ local'[d][i].body = doc
          BY <1>3, <1>9, <3>1, <3>2
        <4>2. local[d][i].body \subseteq doc \cup reached
          BY <1>5, <2>1, <3>2 DEF SendInv, OpenCovers
        <4> QED
          BY <1>4, <1>5, <2>1, <3>2, <4>1, <4>2
      <3>3. CASE /\ e.note # i \/ editor[t].pending = NoWrite
                 /\ e.doc = local[d][e.note].body
        BY <1>3, <1>5, <1>9, <2>1, <3>1, <3>3
      <3> QED
        BY <1>5, <2>1, <3>2, <3>3
    <2>2. CASE s # t
      <3>1. /\ Dev(s) \in Devices /\ editor[s].note \in Ids /\ Dev(s) # d
            /\ editor'[s] = editor[s]
        BY <1>0, <1>5, <2>2, EditorTypes
      <3>2. local'[Dev(s)][editor[s].note] = local[Dev(s)][editor[s].note]
        BY <1>9, <3>1
      <3> QED
        BY <1>4, <3>1, <3>2 DEF SendInv, OpenCovers
    <2> QED
      BY <2>1, <2>2
  <1>11. Writing'
    <2> SUFFICES ASSUME NEW s \in Tabs, editor'[s].pending # NoWrite
                 PROVE  WritesOwn(s)'
      BY DEF Writing
    <2> DEFINE n == Newest(editor[s].doc)
    <2>1. s # t /\ editor'[s] = editor[s]
      BY <1>5
    <2>2. WritesOwn(s)
      BY <2>1 DEF SendInv, Writing
    <2>3. editor[t].note # NoNote => n \notin doc
      BY <2>1, <2>2 DEF WritesOwn
    <2>4. e.note # NoNote => n \notin e.doc
      <3>1. CASE e.note = i /\ e.doc = doc
        BY <2>3, <3>1
      <3>2. CASE e.note # NoNote /\ local[d][e.note].here
                 /\ e.doc = local[d][e.note].body
        <4>1. e.note \in Ids
          BY <3>2 DEF Editor
        <4>2. Carried(e.note, e.doc)
          BY <1>3, <3>2, <4>1 DEF Carried, DeviceHas
        <4> QED
          BY <2>2, <4>1, <4>2 DEF WritesOwn
      <3> QED
        BY <3>1, <3>2
    <2>5. ASSUME NEW j \in Ids, NEW b, Carried(j, b)' PROVE n \notin b
      <3>1. \/ Carried(j, b)
            \/ RowSays(j, b)'
            \/ \E c \in Devices : DeviceHas(c, j, b)'
        BY <1>1, <1>2, <2>5, NewTexts
      <3>2. RowSays(j, b)' => Carried(j, b)
        BY <1>1 DEF RowSays, Stored, Carried, Said
      <3>3. ASSUME NEW c \in Devices, DeviceHas(c, j, b)'
            PROVE  Carried(j, b) \/ (b = doc /\ i # NoNote)
        BY <1>8, <1>9, <3>3 DEF DeviceHas, Carried
      <3> QED
        BY <2>2, <2>3, <3>1, <3>2, <3>3 DEF WritesOwn
    <2>6. \A x \in Tabs \ {s} : editor'[x].note # NoNote => n \notin editor'[x].doc
      BY <1>5, <2>2, <2>4 DEF WritesOwn
    <2> QED
      BY <2>1, <2>2, <2>5, <2>6 DEF WritesOwn, Dev
  <1>12. DirtyIsOurs'
    <2> SUFFICES ASSUME NEW c \in Devices, NEW j \in Ids,
                        local'[c][j].here, local'[c][j].dirty
                 PROVE  local'[c][j].body \cap made[c] # {}
      BY DEF DirtyIsOurs
    <2> QED
      BY <1>8, <1>9 DEF SendInv, DirtyIsOurs
  <1>13. TypingReachesServer'
    <2> SUFFICES ASSUME NEW x \in noteEdits, x \notin reached', x \notin refused'
                 PROVE  InEditor(x)' \/ InRow(x)'
      BY <1>1 DEF TypingReachesServer, InEditor, InRow
    <2>1. InEditor(x) \/ InRow(x)
      BY <1>4, <1>8 DEF SendInv, TypingReachesServer, InEditor, InRow
    <2>2. ASSUME NEW s \in Tabs, x \in editor[s].pending.body
          PROVE  InEditor(x)' \/ InRow(x)'
      <3>1. CASE s # t
        BY <1>5, <2>2, <3>1 DEF InEditor
      <3>2. CASE s = t
        <4>1. editor[t].pending # NoWrite /\ x \in doc /\ i \in Ids
          BY <1>8, <2>2, <3>2 DEF NoWrite
        <4>2. Written(t)
          BY <1>6, <4>1
        <4>3. PICK new \in LocalRow :
                /\ local' = [local EXCEPT ![d][i] = new]
                /\ new.here /\ new.dirty
                /\ new.body = editor[t].doc
                /\ new.stamp = Newest(editor[t].doc) /\ new.stamp \in new.body
          BY <4>2 DEF Written
        <4>4. local'[d][i] = new
          BY <1>0, <1>3, <4>1, <4>3 DEF TypeOK
        <4> QED
          BY <1>3, <4>1, <4>3, <4>4 DEF InRow
      <3> QED
        BY <3>1, <3>2
    <2>3. ASSUME NEW c \in Devices, NEW j \in Ids,
                 local[c][j].dirty, x \in local[c][j].body
          PROVE  InRow(x)'
      <3>1. CASE local'[c][j] = local[c][j]
        BY <2>3, <3>1 DEF InRow
      <3>2. CASE local'[c][j] # local[c][j]
        <4>1. /\ c = d /\ j = i /\ local'[c][j].dirty /\ local'[c][j].body = doc
              /\ i # NoNote
          BY <1>8, <1>9, <3>2
        <4>2. local[d][i].body \subseteq doc \cup reached
          BY <4>1 DEF SendInv, OpenCovers
        <4> QED
          BY <1>4, <2>3, <4>1, <4>2 DEF InRow
      <3> QED
        BY <3>1, <3>2
    <2> QED
      BY <2>1, <2>2, <2>3 DEF InEditor, InRow
  <1> QED
    BY <1>7, <1>10, <1>11, <1>12, <1>13 DEF SendInv


LEMMA AutosaveSends ==
  ASSUME OneTabEach, SendInv, NEW t \in Tabs, AutosaveFires(t), Reaches
  PROVE  SendInv'
  <1> DEFINE e == [editor[t] EXCEPT !.pending = NoWrite]
  <1>1. /\ Flush(t, editor[t].note) /\ Rest
        /\ editor' = [editor EXCEPT ![t] = e]
        /\ UNCHANGED <<tab, faults, deletions, made>>
    BY DEF AutosaveFires
  <1>2. FitInv /\ editor[t] \in Editor
    BY EditorTypes DEF SendInv
  <1>3. /\ e \in Editor /\ e.note = editor[t].note /\ e.doc = editor[t].doc
        /\ e.pending = NoWrite
    BY <1>2 DEF Editor, NoWrite
  <1>4. FitInv'
    BY <1>2, AutosaveFits
  <1> HIDE DEF e
  <1> QED
    BY <1>1, <1>3, <1>4, FlushSends

LEMMA ClosedIs == Closed \in Editor /\ Closed.note = NoNote /\ Closed.pending = NoWrite
  BY ClosedFits DEF Closed

LEMMA LeaveSends ==
  ASSUME OneTabEach, SendInv, NEW t \in Tabs, Leave(t), Reaches
  PROVE  SendInv'
  <1>1. FitInv'
    BY LeaveFits DEF SendInv
  <1> QED
    BY <1>1, ClosedIs, FlushSends DEF Leave

LEMMA TabEndsSends ==
  ASSUME OneTabEach, SendInv, NEW t \in Tabs, TabEnds(t), Reaches
  PROVE  SendInv'
  <1>1. FitInv'
    BY TabEndsFits DEF SendInv
  <1> QED
    BY <1>1, ClosedIs, FlushSends DEF TabEnds

LEMMA OpenSends ==
  ASSUME OneTabEach, SendInv, NEW t \in Tabs, NEW i \in Ids, Open(t, i), Reaches
  PROVE  SendInv'
  <1> DEFINE row == local[Dev(t)][i]
             e == [Closed EXCEPT !.note = i, !.doc = row.body]
  <1>1. /\ Flush(t, i) /\ Rest /\ row.here /\ editor[t].note # i
        /\ editor' = [editor EXCEPT ![t] = e]
        /\ UNCHANGED <<tab, faults, deletions, made>>
    BY DEF Open
  <1>2. FitInv /\ row \in LocalRow
    BY EditorTypes, Types DEF SendInv, FitInv, Typed
  <1>3. e \in Editor /\ e.note = i /\ e.doc = row.body /\ e.pending = NoWrite
    BY <1>2 DEF Editor, Closed, NoWrite, LocalRow
  <1>4. FitInv'
    BY <1>2, OpenFits
  <1> HIDE DEF e
  <1> QED
    BY <1>1, <1>3, <1>4, FlushSends

\* What is pending is not in the row, so the row cannot say what the document
\* says, and `unsaved` keeps it out of the document.
LEMMA SeenWhenSaved ==
  ASSUME SendInv, NEW t \in Tabs, RowSeen(t)
  PROVE  editor[t].pending = NoWrite /\ local[Dev(t)][editor[t].note].here
  <1> DEFINE note == editor[t].note
             row == local[Dev(t)][note]
             n == Newest(editor[t].doc)
  <1>1. /\ FitInv /\ Dev(t) \in Devices /\ note \in Ids /\ row.here
        /\ EditorFits(Dev(t), editor[t]) /\ editor[t] \in Editor
    BY EditorTypes DEF SendInv, RowSeen, EditorFits
  <1>2. ASSUME editor[t].pending # NoWrite PROVE FALSE
    <2>1. WritesOwn(t)
      BY <1>2 DEF SendInv, Writing
    <2>2. n \in editor[t].doc
      BY <1>1, <1>2, <2>1, NewestIs DEF WritesOwn, EditorFits, Editor
    <2>3. Carried(note, row.body)
      BY <1>1 DEF Carried, DeviceHas
    <2>4. n \notin row.body /\ n \notin deletions
      BY <1>1, <2>1, <2>3 DEF WritesOwn
    <2>5. row.body \ deletions # editor[t].doc \ deletions
      BY <2>2, <2>4
    <2> QED
      BY <2>1, <2>5 DEF RowSeen, Taken, WritesOwn
  <1> QED
    BY <1>1, <1>2

LEMMA RowSeenSends ==
  ASSUME OneTabEach, SendInv, NEW t \in Tabs, RowSeen(t), Reaches
  PROVE  SendInv'
  <1> DEFINE row == local[Dev(t)][editor[t].note]
             calm == [editor[t] EXCEPT !.unsaved = FALSE]
             take == [editor[t] EXCEPT !.doc = row.body]
  <1>1. /\ FitInv /\ editor[t] \in Editor /\ editor[t].note \in Ids
        /\ editor[t].pending = NoWrite /\ row.here /\ row \in LocalRow
    BY EditorTypes, SeenWhenSaved, Types DEF SendInv, FitInv, Typed, RowSeen
  <1>2. FitInv'
    BY <1>1, RowSeenFits
  <1>3. UNCHANGED <<vars, deletions, made, refused>>
    BY DEF RowSeen
  <1>4. /\ calm \in Editor /\ calm.note = editor[t].note
        /\ calm.doc = editor[t].doc /\ calm.pending = NoWrite
    BY <1>1 DEF Editor
  <1>5. /\ take \in Editor /\ take.note = editor[t].note
        /\ take.doc = row.body /\ take.pending = NoWrite
    BY <1>1 DEF Editor, LocalRow
  <1>6. \/ editor' = [editor EXCEPT ![t] = calm]
        \/ editor' = [editor EXCEPT ![t] = take]
    BY DEF RowSeen
  <1> HIDE DEF calm, take
  <1>7. Flush(t, NoNote) /\ Rest /\ tab' = tab
    BY <1>1, <1>3 DEF Flush, Rest, vars, clientVars
  <1>8. PICK e \in Editor :
          /\ editor' = [editor EXCEPT ![t] = e]
          /\ e.note = editor[t].note /\ e.pending = NoWrite
          /\ e.doc = editor[t].doc \/ e.doc = row.body
    BY <1>4, <1>5, <1>6
  <1> QED
    BY <1>1, <1>2, <1>3, <1>7, <1>8, FlushSends



-----------------------------------------------------------------------------
(* New edits.                                                              *)

\* The next edit is nowhere yet, and is newer than what it is added to.
LEMMA NextIsNew ==
  ASSUME SendInv
  PROVE  /\ \A i \in Ids : \A b : Carried(i, b) => edits + 1 \notin b
         /\ \A t \in Tabs : editor[t].note # NoNote => edits + 1 \notin editor[t].doc
         /\ \A t \in Tabs : editor[t].pending # NoWrite =>
              /\ WritesOwn(t) /\ editor[t].note # NoNote
              /\ Newest(editor[t].doc) \in editor[t].doc
              /\ Newest(editor[t].doc) # edits + 1
         /\ edits + 1 \notin deletions
  <1>1. FitInv /\ edits \in Nat
    BY DEF SendInv, FitInv, Typed, TypeOK
  <1>2. edits + 1 \notin 1..edits
    BY <1>1
  <1>3. \A i \in Ids : \A b : Carried(i, b) => edits + 1 \notin b
    BY <1>1, <1>2 DEF FitInv, AllFit, Fits
  <1>4. ASSUME NEW t \in Tabs, editor[t].note # NoNote
        PROVE  edits + 1 \notin editor[t].doc
    BY <1>1, <1>2, <1>4, EditorTypes DEF EditorFits, Fits
  <1>5. ASSUME NEW t \in Tabs, editor[t].pending # NoWrite
        PROVE  /\ WritesOwn(t) /\ editor[t].note # NoNote
               /\ Newest(editor[t].doc) \in editor[t].doc
               /\ Newest(editor[t].doc) # edits + 1
    <2>1. /\ WritesOwn(t) /\ editor[t].note # NoNote
          /\ editor[t].doc # {} /\ editor[t].doc \in SUBSET Edits
      BY <1>1, <1>5, EditorTypes DEF SendInv, Writing, WritesOwn, EditorFits, Editor
    <2>2. Newest(editor[t].doc) \in editor[t].doc
      BY <2>1, NewestIs
    <2> QED
      BY <1>4, <2>1, <2>2
  <1>6. edits + 1 \notin deletions
    BY <1>1, <1>2 DEF FitInv, Typed, TypeOK, EditorParts
  <1> QED
    BY <1>3, <1>4, <1>5, <1>6

LEMMA NewestAdded ==
  ASSUME NEW n \in Nat, NEW text \in SUBSET (1..n)
  PROVE  Newest(text \cup {n + 1}) = n + 1
  <1> DEFINE more == text \cup {n + 1}
  <1>1. n + 1 \in more /\ \A f \in more : f <= n + 1 /\ f \in Nat
    OBVIOUS
  <1>2. \A e \in more : (\A f \in more : f <= e) => e = n + 1
    BY <1>1
  <1> HIDE DEF more
  <1>3. Newest(more) = n + 1
    BY <1>1, <1>2 DEF Newest
  <1> QED
    BY <1>3 DEF more

LEMMA TypeSends ==
  ASSUME OneTabEach, SendInv, NEW t \in Tabs, Type(t), Reaches
  PROVE  SendInv'
  <1>0. FitInv /\ CycleInv /\ Typed /\ edits \in Nat
    BY DEF SendInv, FitInv, Typed, TypeOK
  <1>1. PICK new \in Editor :
           /\ editor' = [editor EXCEPT ![t] = new]
           /\ new.note = editor[t].note /\ new.unsaved
           /\ new.doc = editor[t].doc \cup {edits + 1}
           /\ new.pending.id = new.note /\ new.pending.body = new.doc
           /\ new.note \in Ids /\ new.note # NoNote
           /\ local[Dev(t)][new.note].here /\ KindOf[new.note] = "note"
           /\ Authored(new.note) /\ Fits(new.note, editor[t].doc)
           /\ edits + 1 \in Edits
           /\ made' = [made EXCEPT ![Dev(t)] = @ \cup {edits + 1}]
           /\ UNCHANGED <<serverVars, local, cursor, tab, account, used, faults,
                          deletions, refused>>
    BY <1>0, TypedDoc
  <1>2. /\ editor'[t] = new /\ \A s \in Tabs \ {t} : editor'[s] = editor[s]
        /\ Dev(t) \in Devices
    BY <1>0, <1>1, EditorTypes DEF FitInv, EditorParts
  <1>3. /\ edits + 1 \in made'[Dev(t)]
        /\ \A d \in Devices : made[d] \subseteq made'[d]
        /\ noteEdits' = noteEdits \cup {edits + 1}
        /\ reached \subseteq reached'
    BY <1>0, <1>1, <1>2, AuthoredParts DEF FitInv, EditorParts, Reaches
  <1>4. UNCHANGED <<rows, handler, local, tab, used, deletions, refused>>
    BY <1>1 DEF serverVars
  <1>5. FitInv' /\ CycleInv'
    BY <1>0, <1>4, TypeFits, UnwrittenCycles
  <1>6. OpenCovers'
    <2> SUFFICES ASSUME NEW s \in Tabs, editor'[s].note # NoNote
                 PROVE  local[Dev(s)][editor'[s].note].body
                          \subseteq editor'[s].doc \cup reached'
      BY <1>4 DEF OpenCovers, Dev
    <2>1. editor'[s].note = editor[s].note /\ editor[s].doc \subseteq editor'[s].doc
      BY <1>1, <1>2
    <2> QED
      BY <1>3, <2>1 DEF SendInv, OpenCovers
  <1>7. ASSUME NEW i \in Ids, NEW b, Carried(i, b)' PROVE Carried(i, b)
    <2>1. RowSays(i, b)' => Carried(i, b)
      BY <1>4 DEF RowSays, Stored, Carried, Said
    <2>2. \A d \in Devices : DeviceHas(d, i, b)' => Carried(i, b)
      BY <1>4 DEF DeviceHas, Carried
    <2> QED
      BY <1>4, <1>7, <2>1, <2>2, NewTexts
  <1>8. Writing'
    <2> SUFFICES ASSUME NEW s \in Tabs, editor'[s].pending # NoWrite
                 PROVE  WritesOwn(s)'
      BY DEF Writing
    <2>1. CASE s = t
      <3>1. editor[t].doc \subseteq 1..edits
        BY <1>1 DEF Fits
      <3>2. Newest(new.doc) = edits + 1
        BY <1>0, <1>1, <3>1, NewestAdded
      <3>3. edits + 1 \notin deletions'
        BY <1>4, NextIsNew
      <3>4. \A i \in Ids : \A b : Carried(i, b)' => edits + 1 \notin b
        BY <1>7, NextIsNew
      <3>5. \A x \in Tabs \ {t} : editor'[x].note # NoNote => edits + 1 \notin editor'[x].doc
        BY <1>2, NextIsNew
      <3>6. /\ editor'[t].unsaved /\ editor'[t].pending.body = editor'[t].doc
            /\ Newest(editor'[t].doc) = edits + 1
        BY <1>1, <1>2, <3>2
      <3>7. WritesOwn(t)'
        BY <1>3, <3>3, <3>4, <3>5, <3>6 DEF WritesOwn, Dev
      <3> QED
        BY <2>1, <3>7
    <2>2. CASE s # t
      <3> PICK n : n = Newest(editor[s].doc)
        OBVIOUS
      <3>1. /\ editor'[s] = editor[s] /\ WritesOwn(s) /\ n # edits + 1
        BY <1>2, <2>2, NextIsNew
      <3>2. n \notin new.doc
        BY <1>1, <2>2, <3>1 DEF WritesOwn
      <3>3. \A x \in Tabs \ {s} : editor'[x].note # NoNote => n \notin editor'[x].doc
        BY <1>2, <3>1, <3>2 DEF WritesOwn
      <3>4. \A i \in Ids : \A b : Carried(i, b)' => n \notin b
        BY <1>7, <3>1 DEF WritesOwn
      <3>5. n \in made'[Dev(s)] /\ n \notin deletions'
        BY <1>0, <1>3, <1>4, <3>1, EditorTypes DEF WritesOwn
      <3> QED
        BY <3>1, <3>3, <3>4, <3>5 DEF WritesOwn, Dev
    <2> QED
      BY <2>1, <2>2
  <1>9. DirtyIsOurs'
    BY <1>3, <1>4 DEF SendInv, DirtyIsOurs
  <1>10. TypingReachesServer'
    <2> SUFFICES ASSUME NEW x \in noteEdits', x \notin reached', x \notin refused
                 PROVE  InEditor(x)' \/ InRow(x)'
      BY <1>4 DEF TypingReachesServer, InEditor, InRow
    <2>1. CASE x = edits + 1
      BY <1>1, <1>2, <2>1 DEF InEditor
    <2>2. CASE x \in noteEdits
      <3>1. InEditor(x) \/ InRow(x)
        BY <1>3, <2>2 DEF SendInv, TypingReachesServer, InEditor, InRow
      <3>2. InRow(x) => InRow(x)'
        BY <1>4 DEF InRow
      <3>3. ASSUME NEW s \in Tabs, x \in editor[s].pending.body
            PROVE  x \in editor'[s].pending.body
        <4>1. CASE s = t
          <5>1. editor[t].pending.body = editor[t].doc
            BY <3>3, <4>1, NextIsNew DEF NoWrite, WritesOwn
          <5> QED
            BY <1>1, <1>2, <3>3, <4>1, <5>1
        <4>2. CASE s # t
          BY <1>2, <3>3, <4>2
        <4> QED
          BY <4>1, <4>2
      <3> QED
        BY <3>1, <3>2, <3>3 DEF InEditor
    <2> QED
      BY <1>3, <2>1, <2>2
  <1> QED
    BY <1>5, <1>6, <1>8, <1>9, <1>10 DEF SendInv


\* A deletion is stamped with its own edit, which no snapshot has.
LEMMA DeleteSends ==
  ASSUME OneTabEach, FineClock, SendInv, NEW t \in Tabs, NEW i \in Ids,
         DeleteFromList(t, i), Reaches
  PROVE  SendInv'
  <1> DEFINE d == Dev(t)
             row == local[d][i]
             new == [row EXCEPT !.dirty = TRUE, !.stamp = edits + 1,
                                !.body = @ \cup {edits + 1}]
  <1>0. FitInv /\ CycleInv /\ Typed /\ TypeOK /\ edits \in Nat
    BY DEF SendInv, FitInv, Typed, TypeOK
  <1>1. /\ Edit(d, i) /\ UNCHANGED <<editor, refused>> /\ editor[t].note = NoNote
        /\ deletions' = deletions \cup {edits + 1}
        /\ made' = [made EXCEPT ![d] = @ \cup {edits + 1}]
    BY DEF DeleteFromList
  <1>2. /\ d \in Devices /\ row \in LocalRow
    BY <1>0, EditorTypes, Types
  <1>3. /\ row.here /\ Authored(i)
        /\ UNCHANGED <<serverVars, cursor, tab, account, used, faults>>
    BY <1>1, Zenon DEF Edit
  <1>4. Carried(i, row.body) /\ KindOf[i] = "note"
    <2>1. Carried(i, row.body)
      BY <1>2, <1>3 DEF Carried, DeviceHas
    <2> QED
      BY <1>0, <1>2, <1>3, <2>1, HereFits DEF Fits
  <1>5. local' = [local EXCEPT ![d][i] = new]
    <2>1. PICK stamp \in {edits + 1} \cup
                        (IF CoarseClock /\ row.stamp # 0 THEN {row.stamp} ELSE {}) :
            local' = [local EXCEPT ![d][i] =
              [row EXCEPT !.dirty = TRUE, !.stamp = stamp, !.body = @ \cup {edits + 1}]]
      BY <1>1 DEF Edit
    <2>2. stamp = edits + 1
      BY DEF FineClock
    <2> QED
      BY <2>1, <2>2
  <1>6. /\ new.here /\ new.dirty /\ new.stamp = edits + 1
        /\ new.body = row.body \cup {edits + 1}
    BY <1>2, <1>3 DEF LocalRow
  <1> HIDE DEF new
  <1>7. \A c \in Devices, j \in Ids :
          local'[c][j] = IF c = d /\ j = i THEN new ELSE local[c][j]
    BY <1>0, <1>2, <1>5 DEF TypeOK
  <1>8. /\ edits + 1 \in made'[d]
        /\ \A c \in Devices : made[c] \subseteq made'[c]
        /\ noteEdits' = noteEdits \cup {edits + 1}
        /\ reached \subseteq reached'
    BY <1>0, <1>1, <1>2, <1>3, <1>4, AuthoredParts DEF FitInv, EditorParts, Reaches
  <1>9. UNCHANGED <<rows, handler, tab, used, editor, refused>>
    BY <1>1, <1>3 DEF serverVars
  <1>10. CycleInv'
    <2>1. ASSUME NEW s \in Tabs, NEW q \in Pending(s) PROVE SentHere(Dev(s), q)'
      <3>1. SentHere(Dev(s), q) /\ q.id \in Ids /\ Dev(s) \in Devices
        BY <1>0, PendingType, Types DEF CycleInv, SnapshotsHere, Snapshot
      <3>2. Carried(q.id, q.body)
        BY HearsAndSends DEF Pending
      <3>3. edits + 1 \notin q.body
        BY <3>1, <3>2, NextIsNew
      <3> QED
        BY <1>6, <1>7, <3>1, <3>3 DEF SentHere, Dev
    <2>2. DirtyStamped'
      BY <1>0, <1>6, <1>7 DEF CycleInv, DirtyStamped
    <2>3. /\ \A c \in Devices, j \in Ids : local'[c][j].here => local[c][j].here
          /\ \A j \in Ids : Stored(j)' => Stored(j)
      BY <1>3, <1>7, <1>9 DEF Stored
    <2> QED
      BY <1>0, <1>9, <2>1, <2>2, <2>3, CyclesStand
  <1>11. OpenCovers'
    <2> SUFFICES ASSUME NEW s \in Tabs, editor[s].note # NoNote
                 PROVE  local'[Dev(s)][editor[s].note].body
                          \subseteq editor[s].doc \cup reached'
      BY <1>9 DEF OpenCovers, Dev
    <2>1. Dev(s) # d /\ Dev(s) \in Devices /\ editor[s].note \in Ids
      BY <1>0, <1>1, EditorTypes DEF OneTabEach
    <2> QED
      BY <1>7, <1>8, <2>1 DEF SendInv, OpenCovers
  <1>12. ASSUME NEW j \in Ids, NEW b, Carried(j, b)'
         PROVE  Carried(j, b) \/ (j = i /\ b = row.body \cup {edits + 1})
    <2>1. RowSays(j, b)' => Carried(j, b)
      BY <1>9 DEF RowSays, Stored, Carried, Said
    <2>2. \A c \in Devices : DeviceHas(c, j, b)' =>
            Carried(j, b) \/ (j = i /\ b = row.body \cup {edits + 1})
      BY <1>6, <1>7 DEF DeviceHas, Carried
    <2> QED
      BY <1>9, <1>12, <2>1, <2>2, NewTexts
  <1>13. Writing'
    <2> SUFFICES ASSUME NEW s \in Tabs, editor[s].pending # NoWrite
                 PROVE  WritesOwn(s)'
      BY <1>9 DEF Writing
    <2> PICK n : n = Newest(editor[s].doc)
      OBVIOUS
    <2>1. WritesOwn(s) /\ n # edits + 1
      BY NextIsNew
    <2>2. \A j \in Ids : \A b : Carried(j, b)' => n \notin b
      BY <1>4, <1>12, <2>1 DEF WritesOwn
    <2>3. n \in made'[Dev(s)] /\ n \notin deletions'
      BY <1>0, <1>1, <1>8, <2>1, EditorTypes DEF WritesOwn
    <2> QED
      BY <1>9, <2>1, <2>2, <2>3 DEF WritesOwn, Dev
  <1>14. DirtyIsOurs'
    <2> SUFFICES ASSUME NEW c \in Devices, NEW j \in Ids,
                        local'[c][j].here, local'[c][j].dirty
                 PROVE  local'[c][j].body \cap made'[c] # {}
      BY DEF DirtyIsOurs
    <2> QED
      BY <1>6, <1>7, <1>8 DEF SendInv, DirtyIsOurs
  <1>15. TypingReachesServer'
    <2> SUFFICES ASSUME NEW x \in noteEdits', x \notin reached', x \notin refused
                 PROVE  InEditor(x)' \/ InRow(x)'
      BY <1>9 DEF TypingReachesServer, InEditor, InRow
    <2>1. CASE x = edits + 1
      BY <1>2, <1>6, <1>7, <2>1 DEF InRow
    <2>2. CASE x \in noteEdits
      <3>1. InEditor(x) \/ InRow(x)
        BY <1>8, <2>2 DEF SendInv, TypingReachesServer, InEditor, InRow
      <3>2. InEditor(x) => InEditor(x)'
        BY <1>9 DEF InEditor
      <3>3. InRow(x) => InRow(x)'
        BY <1>2, <1>6, <1>7 DEF InRow
      <3> QED
        BY <3>1, <3>2, <3>3
    <2> QED
      BY <1>8, <2>1, <2>2
  <1>16. FitInv'
    BY <1>0, DeleteFits
  <1> QED
    BY <1>10, <1>11, <1>13, <1>14, <1>15, <1>16 DEF SendInv


\* What another device writes is stored from the start.
LEMMA RemoteSends ==
  ASSUME OneTabEach, SendInv, NEW i \in Ids, RemoteWrite(i) \/ RemoteDelete(i), Reaches
  PROVE  SendInv'
  <1>0. FitInv /\ CycleInv /\ Typed /\ TypeOK /\ edits \in Nat
    BY DEF SendInv, FitInv, Typed, TypeOK
  <1>1. /\ RemoteEdit(i) /\ deletions' \subseteq deletions \cup {edits + 1}
    BY DEF RemoteWrite, RemoteDelete
  <1>2. PICK new \in Row :
           /\ rows' = [rows EXCEPT ![i] = new]
           /\ new.owner = rows[i].owner /\ new.ver = rows[i].ver + 1
           /\ new.seq = lastSeq[rows[i].owner] + 1
           /\ new.body = rows[i].body \cup {edits + 1}
           /\ lastSeq' = [lastSeq EXCEPT ![rows[i].owner] = new.seq]
           /\ rows[i].owner \in Users /\ Authored(i) /\ Fits(i, rows[i].body)
    BY <1>0, <1>1, RemoteRow
  <1>3. /\ UNCHANGED <<handler, local, tab, used, editor, made, refused>>
        /\ Stored(i)
    BY <1>1 DEF RemoteEdit
  <1>4. /\ rows'[i] = new /\ \A j \in Ids \ {i} : rows'[j] = rows[j]
    BY <1>0, <1>2 DEF TypeOK, ServerTypeOK
  <1>5. /\ noteEdits' = noteEdits \cup {edits + 1}
        /\ reached \subseteq reached' /\ edits + 1 \in reached'
    BY <1>0, <1>2, <1>4, AuthoredParts DEF Fits, Reaches
  <1>6. Carried(i, rows[i].body)
    BY <1>3 DEF Carried, Said, RowSays
  <1>7. CycleInv'
    <2>1. \A s \in Tabs : \A q \in Pending(s) : SentHere(Dev(s), q)'
      BY <1>0, <1>3 DEF CycleInv, SnapshotsHere, SentHere, Dev
    <2>2. DirtyStamped'
      BY <1>0, <1>3 DEF CycleInv, DirtyStamped
    <2>3. \A j \in Ids : Stored(j)' => Stored(j)
      BY <1>3, <1>4 DEF Stored
    <2> QED
      BY <1>0, <1>3, <2>1, <2>2, <2>3, CyclesStand
  <1>8. OpenCovers'
    BY <1>3, <1>5 DEF SendInv, OpenCovers, Dev
  <1>9. ASSUME NEW j \in Ids, NEW b, Carried(j, b)'
        PROVE  Carried(j, b) \/ (j = i /\ b = rows[i].body \cup {edits + 1})
    <2>1. RowSays(j, b)' => Carried(j, b) \/ (j = i /\ b = rows[i].body \cup {edits + 1})
      BY <1>2, <1>4 DEF RowSays, Stored, Carried, Said
    <2>2. \A c \in Devices : DeviceHas(c, j, b)' => Carried(j, b)
      BY <1>3 DEF DeviceHas, Carried
    <2> QED
      BY <1>3, <1>9, <2>1, <2>2, NewTexts
  <1>10. Writing'
    <2> SUFFICES ASSUME NEW s \in Tabs, editor[s].pending # NoWrite
                 PROVE  WritesOwn(s)'
      BY <1>3 DEF Writing
    <2> PICK n : n = Newest(editor[s].doc)
      OBVIOUS
    <2>1. WritesOwn(s) /\ n # edits + 1
      BY NextIsNew
    <2>2. \A j \in Ids : \A b : Carried(j, b)' => n \notin b
      BY <1>6, <1>9, <2>1 DEF WritesOwn
    <2>3. n \in made'[Dev(s)] /\ n \notin deletions'
      BY <1>1, <1>3, <2>1 DEF WritesOwn
    <2> QED
      BY <1>3, <2>1, <2>2, <2>3 DEF WritesOwn, Dev
  <1>11. DirtyIsOurs'
    BY <1>3 DEF SendInv, DirtyIsOurs
  <1>12. TypingReachesServer'
    BY <1>3, <1>5 DEF SendInv, TypingReachesServer
  <1>13. FitInv'
    BY <1>0, RemoteFits
  <1> QED
    BY <1>7, <1>8, <1>10, <1>11, <1>12, <1>13 DEF SendInv

LEMMA InitSends == EditorInit => SendInv
  <1> SUFFICES ASSUME EditorInit PROVE SendInv
    OBVIOUS
  <1>1. FitInv
    BY EditorInitFits
  <1>2. PICK u \in Users :
          rows = [i \in Ids |->
               IF i \in Seeds
               THEN [owner |-> u, ver |-> 1, seq |-> i, body |-> {i}]
               ELSE [owner |-> NoUser, ver |-> 0, seq |-> 0, body |-> NoBody]]
    BY DEF EditorInit
  <1>3. /\ handler = [h \in Handlers |-> Idle]
        /\ local = [d \in Devices |-> [i \in Ids |->
             IF i \in Seeds THEN FromWire(1, {i}) ELSE Missing]]
        /\ tab = [t \in Tabs |-> NoCycle]
        /\ used = Seeds /\ noteEdits = Seeds /\ reached = Seeds
        /\ editor = [t \in Tabs |-> Closed]
    BY DEF EditorInit
  <1>4. \A d \in Devices, i \in Ids : /\ ~local[d][i].dirty
                                      /\ local[d][i].here => i \in Seeds
    BY <1>3 DEF FromWire, Missing
  <1>5. \A t \in Tabs : editor[t].note = NoNote /\ editor[t].pending = NoWrite
    BY <1>3, ClosedIs
  <1>6. \A i \in Ids : Stored(i) => i \in Seeds /\ rows[i].body = {i}
    BY <1>2 DEF Stored
  <1>7. Ordered
    <2>1. CyclesOrderly
      BY <1>3, NoCycleOrderly DEF CyclesOrderly
    <2>2. RequestsServed
      BY <1>3, NoCycleOrderly DEF RequestsServed, TabServed
    <2> QED
      BY <2>1, <2>2 DEF Ordered
  <1>8. Fresh
    BY <1>3, <1>4, <1>6 DEF Fresh, Idle
  <1>9. SnapshotsHere
    BY <1>3, NoCycleCarries DEF SnapshotsHere, Pending
  <1>10. DirtyStamped /\ DirtyIsOurs /\ OpenCovers /\ Writing
    BY <1>4, <1>5 DEF DirtyStamped, DirtyIsOurs, OpenCovers, Writing
  <1>11. AllSaidReached
    <2> SUFFICES ASSUME NEW i \in Ids, NEW b, Said(i, b) PROVE b \subseteq reached
      BY Zenon DEF AllSaidReached
    <2>1. \A h \in Handlers : ~HandlerSays(h, i, b)
      BY <1>3 DEF HandlerSays, Idle
    <2>2. \A t \in Tabs : ~TabHears(t, i, b)
      BY <1>3, NoCycleCarries DEF TabHears
    <2>3. Stored(i) /\ b = rows[i].body
      BY <2>1, <2>2 DEF Said, RowSays
    <2> QED
      BY <1>3, <1>6, <2>3
  <1>12. TypingReachesServer
    BY <1>3 DEF TypingReachesServer
  <1> QED
    BY <1>1, <1>7, <1>8, <1>9, <1>10, <1>11, <1>12 DEF SendInv, CycleInv

LEMMA SendStep ==
  ASSUME OneTabEach, FineClock, SendInv, [SessionNext]_sessionVars
  PROVE  SendInv'
  <1>1. CASE UNCHANGED sessionVars
    <2>1. UNCHANGED <<vars, serverVars, editor, deletions, made, refused, reached>>
      BY <1>1 DEF sessionVars, editorVars, vars
    <2>2. UNCHANGED <<rows, handler, local, cursor, tab, account, used, edits,
                      noteEdits, faults>>
      BY <2>1 DEF vars, serverVars, clientVars
    <2>3. FitInv'
      BY <1>1, FitStep DEF SendInv
    <2>4. CycleInv'
      <3>0. Typed /\ CycleInv
        BY DEF SendInv, FitInv
      <3>1. Ordered'
        BY <2>2, <3>0, EndsOrdered DEF CycleInv
      <3>2. \A i \in Ids : Stored(i)' <=> Stored(i)
        BY <2>2 DEF Stored
      <3>3. Fresh'
        BY <2>2, <3>0, <3>2 DEF CycleInv, Fresh
      <3>4. \A t \in Tabs : Pending(t)' = Pending(t)
        BY <2>2 DEF Pending
      <3>5. SnapshotsHere'
        BY <2>2, <3>0, <3>4 DEF CycleInv, SnapshotsHere, SentHere, Dev
      <3>6. DirtyStamped'
        BY <2>2, <3>0 DEF CycleInv, DirtyStamped
      <3>7. \A i \in Ids : \A b : Said(i, b)' <=> Said(i, b)
        BY <2>2 DEF Said, RowSays, HandlerSays, TabHears, Stored
      <3>8. AllSaidReached'
        BY <2>1, <3>0, <3>7 DEF CycleInv, AllSaidReached
      <3> QED
        BY <3>1, <3>3, <3>5, <3>6, <3>8 DEF CycleInv
    <2>5. \A i \in Ids : \A b : Carried(i, b)' <=> Carried(i, b)
      BY <2>2 DEF Carried, Said, RowSays, HandlerSays, TabHears, DeviceHas,
                  TabSends, HandlerTakes, Stored
    <2>6. Writing'
      BY <2>1, <2>5 DEF SendInv, Writing, WritesOwn, Dev
    <2>7. OpenCovers' /\ DirtyIsOurs' /\ TypingReachesServer'
      BY <2>1, <2>2 DEF SendInv, OpenCovers, Dev, DirtyIsOurs, TypingReachesServer
    <2> QED
      BY <2>3, <2>4, <2>6, <2>7 DEF SendInv
  <1>2. CASE SessionNext
    <2>1. Reaches
      BY <1>2 DEF SessionNext, Reaches
    <2>2. ASSUME NEW t \in Tabs, EditorStep(t) PROVE SendInv'
      BY <2>1, <2>2, AutosaveSends, LeaveSends, TypeSends, RowSeenSends, TabEndsSends,
         OpenSends, DeleteSends DEF EditorStep
    <2> QED
      BY <1>2, <2>1, <2>2, SyncSends, RemoteSends DEF SessionNext
  <1> QED
    BY <1>1, <1>2

LEMMA SendInvariant ==
  ASSUME OneTabEach, FineClock
  PROVE  SessionSpec => []SendInv
  <1>1. SendInv /\ [SessionNext]_sessionVars => SendInv'
    BY SendStep
  <1> QED
    BY <1>1, InitSends, PTL DEF SessionSpec

\* With one tab on each device and a stamp of its own for each edit, what is
\* typed reaches the server, for any notes, devices, page and batch sizes and
\* any number of keystrokes, conflicts and reloads: until then it waits in an
\* editor or in a row that will be pushed, unless its note was deleted.
THEOREM TypingIsNotLost ==
  ASSUME OneTabEach, FineClock
  PROVE  SessionSpec => []TypingReachesServer
  <1>1. SendInv => TypingReachesServer
    BY DEF SendInv
  <1> QED
    BY <1>1, SendInvariant, PTL

\* A device pushes only what was done on it: no pull, conflict or fork makes a
\* row dirty that carries nothing of this device.
THEOREM NothingIsSentBack ==
  ASSUME OneTabEach, FineClock
  PROVE  SessionSpec => []DirtyIsOurs
  <1>1. SendInv => DirtyIsOurs
    BY DEF SendInv
  <1> QED
    BY <1>1, SendInvariant, PTL

=============================================================================
