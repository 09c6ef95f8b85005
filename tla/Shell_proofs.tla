----------------------------- MODULE Shell_proofs -----------------------------
(* The shell around a cycle, for any accounts, any number of rows, edits,    *)
(* faults and sign-outs, and any size of a batch.                            *)
(*                                                                           *)
(* Two things have to be known at every step.  A row of the snapshot that is *)
(* dirty and not edited again is still in what the cycle has to send, or has *)
(* been answered as another user's, which is what makes the indicator honest *)
(* at the end.  And a row on a device that has been cleared was created or   *)
(* copied there since, or is one the server has: whatever an answer in       *)
(* flight puts back, the server has, and a copy is made of a row that is     *)
(* there.                                                                    *)
EXTENDS Shell, FiniteSetTheorems, TLAPS

RowIds(rows) == {r.id : r \in rows}

\* What the cycle still has to send or waits for.
Pending == cycle.left \cup cycle.batch

\* An answer to a batch answers its rows, all of them.
Batches ==
  /\ IsFiniteSet(cycle.left) /\ IsFiniteSet(cycle.batch)
  /\ cycle.half = "push" /\ cycle.net = "none" => cycle.batch = {}
  /\ cycle.half = "push" /\ cycle.net = "body" /\ cycle.code = "200" =>
       RowIds(cycle.rows) = RowIds(cycle.batch)
  /\ cycle.half = "none" => cycle.net = "none"

\* An id is handed out before a row has it.
Handed ==
  /\ \A i \in Ids : local[i].here \/ server[i].ver > 0 => i \in used
  /\ RowIds(Pending) \subseteq used /\ cycle.unmoved \subseteq used
  /\ creating \subseteq used

\* A row on the server is somebody's, and an answer is about such a row.
Owned ==
  /\ \A i \in Ids : /\ server[i].ver > 0 => server[i].owner \in Accounts
                    /\ server[i].seq > 0 => server[i].ver > 0
  /\ \A r \in cycle.rows : server[r.id].ver > 0

\* A row that has to be pushed, was in the snapshot and was not edited since is
\* one the cycle will still send, one that is another user's, or one a failed
\* cycle left behind.
Accounted ==
  \A i \in Ids : Dirty(i) /\ i \in cycle.unmoved =>
    \/ i \in cycle.refused
    \/ cycle.half = "push" /\ i \in RowIds(Pending)
    \/ ~Running /\ status # "idle"

\* The rows of a device that has been cleared.
Cleared ==
  signedOut => \A i \in Ids : local[i].here => i \in newer \/ server[i].ver > 0

ShellInv == ShellTypeOK /\ Batches /\ Handed /\ Owned /\ Accounted /\ Cleared

-----------------------------------------------------------------------------
(* Types.                                                                    *)

LEMMA Sizes ==
  /\ Ids \subseteq Nat /\ IsFiniteSet(Ids) /\ Containers \subseteq Ids
  /\ Held \subseteq Ids /\ IsFiniteSet(Held)
  /\ Holder \in Accounts /\ NoOne \notin Accounts
  BY ShellAssumption, FS_Subset

LEMMA MissingType == Missing \in LocalRow /\ ~Missing.here /\ ~Missing.dirty
  BY DEF Missing, LocalRow, Titles

LEMMA NoCycleType == NoCycle \in Cycle
  BY DEF NoCycle, Cycle

LEMMA CycleType ==
  ASSUME ShellTypeOK
  PROVE  /\ cycle \in Cycle
         /\ cycle.half \in {"none", "push", "pull"}
         /\ cycle.net \in {"none", "sent", "hung", "body", "stalled"}
         /\ cycle.by \in Accounts \cup {NoOne}
         /\ cycle.code \in {"200", "400", "401"}
         /\ cycle.left \subseteq Copy /\ cycle.batch \subseteq Copy
         /\ cycle.rows \subseteq Answer /\ cycle.upTo \in Nat
         /\ cycle.unmoved \subseteq Ids /\ cycle.refused \subseteq Ids
  BY DEF ShellTypeOK, Cycle

LEMMA RowTypes ==
  ASSUME ShellTypeOK, NEW i \in Ids
  PROVE  /\ local[i] \in LocalRow /\ local[i].here \in BOOLEAN
         /\ local[i].dirty \in BOOLEAN /\ local[i].ver \in Nat
         /\ local[i].title \in Titles
         /\ server[i] \in ServerRow /\ server[i].ver \in Nat
         /\ server[i].seq \in Nat /\ server[i].title \in Titles
         /\ server[i].owner \in Accounts \cup {NoOne}
  BY DEF ShellTypeOK, LocalRow, ServerRow

-----------------------------------------------------------------------------
(* Steps that leave the rows and what the cycle carries alone.               *)

LEMMA Quiet ==
  ASSUME ShellInv, ShellTypeOK', UNCHANGED <<storage, server, status>>,
         cycle'.half = cycle.half, cycle'.net = cycle.net,
         cycle'.code = cycle.code, cycle'.left = cycle.left,
         cycle'.batch = cycle.batch, cycle'.rows = cycle.rows,
         cycle'.unmoved = cycle.unmoved, cycle'.refused = cycle.refused,
         creating' \subseteq creating, signedOut' => signedOut
  PROVE  ShellInv'
  <1>1. Pending' = Pending
    BY DEF Pending
  <1>2. Batches'
    BY DEF ShellInv, Batches, RowIds
  <1>3. Handed'
    BY <1>1 DEF ShellInv, Handed, RowIds, storage
  <1>4. Owned'
    BY DEF ShellInv, Owned
  <1>5. Accounted'
    BY <1>1 DEF ShellInv, Accounted, Dirty, RowIds, Running, storage
  <1>6. Cleared'
    BY DEF ShellInv, Cleared, storage
  <1> QED
    BY <1>2, <1>3, <1>4, <1>5, <1>6 DEF ShellInv

LEMMA SessionEndsType ==
  ASSUME ShellTypeOK, SessionEnds
  PROVE  /\ session' = NoOne /\ cycle' \in Cycle
         /\ cycle'.half = cycle.half /\ cycle'.net = cycle.net
         /\ cycle'.code = cycle.code /\ cycle'.left = cycle.left
         /\ cycle'.batch = cycle.batch /\ cycle'.rows = cycle.rows
         /\ cycle'.unmoved = cycle.unmoved /\ cycle'.refused = cycle.refused
  <1> DEFINE who == IF cycle.by = session THEN NoOne ELSE cycle.by
  <1>1. cycle' = [cycle EXCEPT !.by = who] /\ session' = NoOne
    BY DEF SessionEnds
  <1>2. who \in Accounts \cup {NoOne}
    BY CycleType
  <1> HIDE DEF who
  <1> QED
    BY <1>1, <1>2, CycleType DEF Cycle

LEMMA SessionEndKeeps ==
  ASSUME ShellInv, LogoutAnswered \/ CookiesLapse
  PROVE  ShellInv'
  <1>1. /\ UNCHANGED <<gate, status, signedOut, writes, storage, remote>>
        /\ SessionEnds \/ UNCHANGED <<session, cycle>>
        /\ csrf' \in BOOLEAN
        /\ signing' \in {"no", "asked", "answered", "cleared"}
    BY DEF LogoutAnswered, CookiesLapse, page, cookies, ShellInv, ShellTypeOK
  <1>2. /\ session' \in Accounts \cup {NoOne} /\ cycle' \in Cycle
        /\ cycle'.half = cycle.half /\ cycle'.net = cycle.net
        /\ cycle'.code = cycle.code /\ cycle'.left = cycle.left
        /\ cycle'.batch = cycle.batch /\ cycle'.rows = cycle.rows
        /\ cycle'.unmoved = cycle.unmoved /\ cycle'.refused = cycle.refused
    BY <1>1, SessionEndsType DEF ShellInv, ShellTypeOK
  <1>3. ShellTypeOK'
    BY <1>1, <1>2 DEF ShellInv, ShellTypeOK, writes, storage, remote
  <1>4. UNCHANGED <<storage, server, status>>
    BY <1>1 DEF remote
  <1>5. creating' \subseteq creating /\ (signedOut' => signedOut)
    BY <1>1 DEF writes
  <1> QED
    BY <1>2, <1>3, <1>4, <1>5, Quiet

LEMMA GateKeeps ==
  ASSUME ShellInv, AskMe \/ SignIn \/ SignInAgain \/ SignOutAsked \/ GateCloses
  PROVE  ShellInv'
  <1>1. UNCHANGED <<storage, cycle, status, remote, writes>>
    BY DEF AskMe, SignIn, SignInAgain, SignOutAsked, GateCloses
  <1>2. /\ gate' \in {"checking", "in", "out"}
        /\ session' \in Accounts \cup {NoOne} /\ csrf' \in BOOLEAN
        /\ signing' \in {"no", "asked", "answered", "cleared"}
        /\ signedOut' \in BOOLEAN
        /\ signedOut' => signedOut
    <2>1. CASE AskMe
      <3>1. /\ gate' \in {"in", "out"} /\ (csrf' = TRUE \/ csrf' = csrf)
            /\ UNCHANGED <<session, signing>>
            /\ signedOut' = (signedOut /\ gate' = "out")
        BY <2>1 DEF AskMe
      <3> QED
        BY <3>1 DEF ShellInv, ShellTypeOK
    <2>2. CASE SignIn
      BY <2>2 DEF ShellInv, ShellTypeOK, SignIn
    <2>3. CASE SignInAgain \/ SignOutAsked \/ GateCloses
      <3>1. /\ gate' \in {"in", "out"} /\ UNCHANGED <<session, csrf, signedOut>>
            /\ signing' \in {"no", "asked"}
        BY <2>3 DEF ShellInv, ShellTypeOK, SignInAgain, SignOutAsked, GateCloses,
           cookies
      <3> QED
        BY <3>1 DEF ShellInv, ShellTypeOK
    <2> QED
      BY <2>1, <2>2, <2>3
  <1>3. ShellTypeOK'
    BY <1>1, <1>2 DEF ShellInv, ShellTypeOK, storage, remote, writes
  <1>4. creating' \subseteq creating /\ UNCHANGED <<storage, server, status>>
    BY <1>1 DEF writes, remote
  <1> QED
    BY <1>1, <1>2, <1>3, <1>4, Quiet

LEMMA RemoteEditKeeps ==
  ASSUME ShellInv, NEW i \in Ids, RemoteEdit(i)
  PROVE  ShellInv'
  <1> DEFINE owner == server[i].owner
             next  == lastSeq[owner] + 1
             v     == server[i].ver + 1
             once  == [server EXCEPT ![i].ver = v]
  <1>1. /\ server[i].ver > 0
        /\ server' = [server EXCEPT ![i].ver = @ + 1, ![i].seq = next]
        /\ lastSeq' = [lastSeq EXCEPT ![owner] = @ + 1]
        /\ UNCHANGED <<page, cookies, storage, cycle>>
    BY DEF RemoteEdit
  <1>2. owner \in Accounts
    BY <1>1 DEF ShellInv, Owned
  <1>3. next \in Nat /\ v \in Nat /\ v > 0
    BY <1>2, RowTypes DEF ShellInv, ShellTypeOK
  <1>4. lastSeq' \in [Accounts -> Nat]
    BY <1>1, <1>2 DEF ShellInv, ShellTypeOK
  <1>5. server' = [once EXCEPT ![i].seq = next]
    BY <1>1
  <1> HIDE DEF v, next, owner
  <1>6. /\ once \in [Ids -> ServerRow] /\ once[i].ver = v
        /\ once[i].owner = server[i].owner
        /\ \A j \in Ids \ {i} : once[j] = server[j]
    BY <1>3 DEF ShellInv, ShellTypeOK, ServerRow
  <1> HIDE DEF once
  <1>7. /\ server' \in [Ids -> ServerRow] /\ server'[i].ver = v
        /\ server'[i].owner = server[i].owner
        /\ \A j \in Ids \ {i} : server'[j] = server[j]
    BY <1>3, <1>5, <1>6 DEF ServerRow
  <1>8. ShellTypeOK'
    BY <1>1, <1>4, <1>7
       DEF ShellInv, ShellTypeOK, page, writes, cookies, storage
  <1>9. \A j \in Ids : server'[j].ver > 0 <=> server[j].ver > 0
    BY <1>1, <1>3, <1>7
  <1>10. Batches'
    BY <1>1 DEF ShellInv, Batches, RowIds
  <1>11. Handed'
    BY <1>1, <1>9 DEF ShellInv, Handed, RowIds, Pending, page, writes, storage
  <1>12. Owned'
    <2>1. \A j \in Ids : /\ server'[j].ver > 0 => server'[j].owner \in Accounts
                         /\ server'[j].seq > 0 => server'[j].ver > 0
      BY <1>1, <1>3, <1>7 DEF ShellInv, Owned
    <2>2. \A r \in cycle.rows : server'[r.id].ver > 0
      BY <1>9, CycleType DEF ShellInv, Owned, Answer
    <2> QED
      BY <1>1, <2>1, <2>2 DEF Owned
  <1>13. Accounted'
    BY <1>1 DEF ShellInv, Accounted, Dirty, RowIds, Pending, Running, page, storage
  <1>14. Cleared'
    BY <1>1, <1>9 DEF ShellInv, Cleared, page, storage
  <1> QED
    BY <1>8, <1>10, <1>11, <1>12, <1>13, <1>14 DEF ShellInv

-----------------------------------------------------------------------------
(* The end of a cycle.                                                       *)

LEMMA Ended ==
  ASSUME NEW unmoved, NEW refused
  PROVE  LET c == [NoCycle EXCEPT !.unmoved = unmoved, !.refused = refused]
         IN  c = [half |-> "none", net |-> "none", by |-> NoOne, code |-> "200",
                  left |-> {}, batch |-> {}, rows |-> {}, upTo |-> 0,
                  unmoved |-> unmoved, refused |-> refused]
  <1> DEFINE R(v1, v2) ==
               [half |-> "none", net |-> "none", by |-> NoOne, code |-> "200",
                left |-> {}, batch |-> {}, rows |-> {}, upTo |-> 0,
                unmoved |-> v1, refused |-> v2]
             c1 == [NoCycle EXCEPT !.unmoved = unmoved]
             c2 == [c1 EXCEPT !.refused = refused]
  <1>1. c1 = R(unmoved, {})
    BY DEF NoCycle
  <1> HIDE DEF c1
  <1>2. c2 = R(unmoved, refused)
    BY <1>1
  <1> HIDE DEF c2
  <1> QED
    BY <1>2 DEF c1, c2

\* The cycle is over and has left rows of its snapshot behind only if the
\* status says so.
LEMMA CycleEnds ==
  ASSUME ShellInv, NEW reason \in {"idle", "offline", "unauthenticated", "error"},
         Fails(reason), cursor' \in Nat, local' \in [Ids -> LocalRow],
         UNCHANGED <<session, csrf, used, newer, server, lastSeq>>,
         \A i \in Ids : local'[i].here => local[i].here \/ server[i].ver > 0,
         \A i \in Ids : Dirty(i)' =>
           /\ Dirty(i)
           /\ reason = "idle" => i \notin cycle.unmoved \/ i \in cycle.refused
  PROVE  ShellInv'
  <1>1. cycle' = [half |-> "none", net |-> "none", by |-> NoOne, code |-> "200",
                  left |-> {}, batch |-> {}, rows |-> {}, upTo |-> 0,
                  unmoved |-> cycle.unmoved, refused |-> cycle.refused]
    BY Ended DEF Fails
  <1>2. /\ cycle'.half = "none" /\ cycle'.net = "none" /\ cycle'.left = {}
        /\ cycle'.batch = {} /\ cycle'.rows = {}
        /\ cycle'.unmoved = cycle.unmoved /\ cycle'.refused = cycle.refused
        /\ cycle' \in Cycle
    BY <1>1, CycleType DEF ShellInv, Cycle
  <1>3. /\ status' = reason
        /\ UNCHANGED <<gate, signing, signedOut, creating, pending>>
    BY DEF Fails, writes
  <1>4. ShellTypeOK'
    BY <1>2, <1>3 DEF ShellInv, ShellTypeOK
  <1>5. Batches'
    BY <1>2, FS_EmptySet DEF Batches
  <1>6. Handed'
    BY <1>2, <1>3 DEF ShellInv, Handed, Pending, RowIds
  <1>7. Owned'
    BY <1>2 DEF ShellInv, Owned
  <1>8. Accounted'
    BY <1>2, <1>3 DEF Accounted, Running
  <1>9. Cleared'
    BY <1>3 DEF ShellInv, Cleared
  <1> QED
    BY <1>4, <1>5, <1>6, <1>7, <1>8, <1>9 DEF ShellInv

\* A cycle that fails leaves the rows as they are.
LEMMA FailsKeeps ==
  ASSUME ShellInv, NEW reason \in {"offline", "unauthenticated", "error"},
         Fails(reason), UNCHANGED <<cookies, storage, remote>>
  PROVE  ShellInv'
  <1>1. UNCHANGED <<session, csrf, used, newer, server, lastSeq, local, cursor>>
    BY DEF cookies, storage, remote
  <1>2. cursor' \in Nat /\ local' \in [Ids -> LocalRow]
    BY <1>1 DEF ShellInv, ShellTypeOK
  <1>3. \A i \in Ids : Dirty(i)' => Dirty(i)
    BY <1>1 DEF Dirty
  <1> QED
    BY <1>1, <1>2, <1>3, CycleEnds

LEMMA GivenUp ==
  ASSUME ShellInv, RequestFails \/ Deadline
  PROVE  ShellInv'
  BY FailsKeeps DEF RequestFails, Deadline

LEMMA ReloadKeeps ==
  ASSUME ShellInv, Reload
  PROVE  ShellInv'
  <1>1. /\ cycle' = NoCycle /\ status' = "idle" /\ gate' = "checking"
        /\ signing' = "no" /\ creating' = {} /\ pending' = {}
        /\ UNCHANGED <<signedOut, cookies, storage, remote>>
    BY DEF Reload
  <1>2. /\ NoCycle.half = "none" /\ NoCycle.net = "none" /\ NoCycle.left = {}
        /\ NoCycle.batch = {} /\ NoCycle.rows = {} /\ NoCycle.unmoved = {}
    BY DEF NoCycle
  <1>3. ShellTypeOK'
    BY <1>1, NoCycleType DEF ShellInv, ShellTypeOK, cookies, storage, remote
  <1>4. Batches'
    BY <1>1, <1>2, FS_EmptySet DEF Batches
  <1>5. Handed'
    BY <1>1, <1>2 DEF ShellInv, Handed, Pending, RowIds, storage, remote
  <1>6. Owned'
    BY <1>1, <1>2 DEF ShellInv, Owned, remote
  <1>7. Accounted'
    BY <1>1, <1>2 DEF Accounted
  <1>8. Cleared'
    BY <1>1 DEF ShellInv, Cleared, storage, remote
  <1> QED
    BY <1>3, <1>4, <1>5, <1>6, <1>7, <1>8 DEF ShellInv

-----------------------------------------------------------------------------
(* A request on its way.                                                     *)

\* The cycle goes on with the same rows to send and to wait for.
LEMMA GoesOn ==
  ASSUME ShellInv, cycle.net # "none", ShellTypeOK',
         cycle'.half = cycle.half, cycle'.left = cycle.left,
         cycle'.batch = cycle.batch, cycle'.unmoved = cycle.unmoved,
         cycle'.refused = cycle.refused, cycle'.net # "none",
         cycle.half = "push" /\ cycle'.net = "body" /\ cycle'.code = "200" =>
           RowIds(cycle'.rows) = RowIds(cycle.batch),
         Owned', \A i \in Ids : server[i].ver > 0 => server'[i].ver > 0,
         \A i \in Ids : server'[i].ver > 0 => i \in used,
         UNCHANGED <<page, storage>>
  PROVE  ShellInv'
  <1>1. Pending' = Pending
    BY DEF Pending
  <1>2. cycle.half # "none"
    BY DEF ShellInv, Batches
  <1>3. Batches'
    BY <1>2 DEF ShellInv, Batches
  <1>4. Handed'
    BY <1>1 DEF ShellInv, Handed, RowIds, storage, page, writes
  <1>5. Accounted'
    BY <1>1, <1>2 DEF ShellInv, Accounted, Dirty, RowIds, Running, storage, page
  <1>6. Cleared'
    BY DEF ShellInv, Cleared, storage, page
  <1> QED
    BY <1>3, <1>4, <1>5, <1>6 DEF ShellInv

\* Nothing comes of the request, or it is refused before it changes anything.
LEMMA Stuck ==
  ASSUME ShellInv, cycle.net # "none",
         NEW net \in {"hung", "body", "stalled"}, NEW code \in {"200", "400", "401"},
         \/ cycle' = [cycle EXCEPT !.net = net] /\ net # "body"
         \/ cycle' = [cycle EXCEPT !.net = net, !.code = code] /\ code # "200",
         UNCHANGED <<page, cookies, storage, remote>>
  PROVE  ShellInv'
  <1>1. /\ cycle' \in Cycle
        /\ cycle'.half = cycle.half /\ cycle'.left = cycle.left
        /\ cycle'.batch = cycle.batch /\ cycle'.unmoved = cycle.unmoved
        /\ cycle'.refused = cycle.refused /\ cycle'.net = net
        /\ cycle'.rows = cycle.rows
        /\ net = "body" => cycle'.code # "200"
    BY CycleType DEF ShellInv, Cycle
  <1>2. ShellTypeOK'
    BY <1>1 DEF ShellInv, ShellTypeOK, page, writes, cookies, storage, remote
  <1>3. Owned'
    BY <1>1 DEF ShellInv, Owned, remote
  <1>4. /\ \A i \in Ids : server'[i].ver > 0 => i \in used
        /\ server' = server
    BY DEF ShellInv, Handed, remote
  <1> QED
    BY <1>1, <1>2, <1>3, <1>4, GoesOn

LEMMA AnsweredType ==
  ASSUME ShellTypeOK, NEW net \in {"hung", "body"}, NEW rows \in SUBSET Answer,
         NEW upTo \in Nat,
         \/ cycle' = [cycle EXCEPT !.net = net, !.code = "200", !.rows = rows]
         \/ cycle' = [cycle EXCEPT !.net = net, !.code = "200", !.upTo = upTo,
                                   !.rows = rows]
  PROVE  /\ cycle' \in Cycle
         /\ cycle'.half = cycle.half /\ cycle'.left = cycle.left
         /\ cycle'.batch = cycle.batch /\ cycle'.unmoved = cycle.unmoved
         /\ cycle'.refused = cycle.refused /\ cycle'.net = net
         /\ cycle'.rows = rows
  BY CycleType DEF Cycle

LEMMA PushServedKeeps ==
  ASSUME ShellInv, NEW net \in {"hung", "body"}, cycle.half = "push",
         cycle.net # "none", cycle.by # NoOne, PushServed(net),
         UNCHANGED <<page, storage>>
  PROVE  ShellInv'
  <1> DEFINE foreign == {s \in cycle.batch : Foreign(s.id, cycle.by)}
             ok == {s \in cycle.batch \ foreign : server[s.id].ver \in {0, s.ver}}
             Nth(s) == lastSeq[cycle.by] + Cardinality({r \in ok : r.id <= s.id})
             Of(s) == IF s \in foreign
                      THEN [id |-> s.id, ver |-> 0, title |-> "fits",
                            status |-> "forbidden"]
                      ELSE IF s \in ok
                      THEN [id |-> s.id, ver |-> server[s.id].ver + 1,
                            title |-> s.title, status |-> "accepted"]
                      ELSE [id |-> s.id, ver |-> server[s.id].ver,
                            title |-> server[s.id].title, status |-> "conflict"]
             rows == {Of(s) : s \in cycle.batch}
  <1>1. /\ cycle' = [cycle EXCEPT !.net = net, !.code = "200", !.rows = rows]
        /\ lastSeq' = [lastSeq EXCEPT ![cycle.by] = @ + Cardinality(ok)]
        /\ server' = [i \in Ids |->
             IF \E s \in ok : s.id = i
             THEN LET s == CHOOSE s \in ok : s.id = i
                  IN  [ver |-> server[i].ver + 1, seq |-> Nth(s),
                       title |-> s.title, owner |-> cycle.by]
             ELSE server[i]]
        /\ UNCHANGED cookies
    BY DEF PushServed
  <1>2. cycle.by \in Accounts /\ lastSeq[cycle.by] \in Nat
    BY CycleType DEF ShellInv, ShellTypeOK
  <1>3. ASSUME NEW s \in cycle.batch
        PROVE  /\ s.id \in Ids /\ s.title \in Titles /\ s.ver \in Nat
               /\ server[s.id].ver \in Nat /\ server[s.id].title \in Titles
    BY CycleType, RowTypes DEF ShellInv, Copy
  <1>4. ASSUME NEW s \in cycle.batch
        PROVE  Of(s) \in Answer /\ Of(s).id = s.id
    BY <1>3 DEF Answer, Titles
  <1>5. IsFiniteSet(ok) /\ Cardinality(ok) \in Nat
    BY FS_Subset, FS_CardinalityType DEF ShellInv, Batches
  <1>6. ASSUME NEW s \in ok
        PROVE  Nth(s) \in Nat
    <2>1. Cardinality({r \in ok : r.id <= s.id}) \in Nat
      BY <1>5, FS_Subset, FS_CardinalityType
    <2> QED
      BY <1>2, <2>1
  <1>7. ASSUME NEW s \in cycle.batch, s \notin ok
        PROVE  server[s.id].ver > 0
    BY <1>3, <1>7 DEF Foreign
  <1> HIDE DEF Nth
  <1>8. ASSUME NEW i \in Ids, \E s \in ok : s.id = i
        PROVE  /\ server'[i] \in ServerRow /\ server'[i].ver > 0
               /\ server'[i].owner \in Accounts
    <2> DEFINE x == CHOOSE x \in ok : x.id = i
    <2>1. x \in ok
      BY <1>8
    <2>2. Nth(x) \in Nat /\ x.title \in Titles
      BY <1>3, <1>6, <2>1
    <2>3. server'[i] = [ver |-> server[i].ver + 1, seq |-> Nth(x),
                        title |-> x.title, owner |-> cycle.by]
      BY <1>1, <1>8
    <2> HIDE DEF x, ok
    <2> QED
      BY <1>2, <2>2, <2>3, RowTypes DEF ShellInv, ServerRow
  <1>9. ASSUME NEW i \in Ids, ~\E s \in ok : s.id = i
        PROVE  server'[i] = server[i]
    BY <1>1, <1>9
  <1>10. server' \in [Ids -> ServerRow]
    <2>1. \A i \in Ids : server'[i] \in ServerRow
      BY <1>8, <1>9, RowTypes DEF ShellInv
    <2>2. server' = [i \in Ids |-> server'[i]]
      BY <1>1
    <2> QED
      BY <2>1, <2>2
  <1>11. \A i \in Ids : server[i].ver > 0 => server'[i].ver > 0
    BY <1>8, <1>9
  <1>12. \A s \in cycle.batch : server'[s.id].ver > 0
    <2>1. ASSUME NEW s \in cycle.batch
          PROVE  server'[s.id].ver > 0
      BY <1>3, <1>7, <1>8, <1>11
    <2> QED
      BY <2>1
  <1>13. ASSUME NEW i \in Ids, server'[i].ver > 0
         PROVE  i \in used
    <2>1. CASE \E s \in cycle.batch : s.id = i
      BY <2>1 DEF ShellInv, Handed, Pending, RowIds
    <2>2. CASE server'[i] = server[i]
      BY <1>13, <2>2 DEF ShellInv, Handed
    <2> QED
      BY <1>9, <2>1, <2>2
  <1>14. \A i \in Ids : /\ server'[i].ver > 0 => server'[i].owner \in Accounts
                        /\ server'[i].seq > 0 => server'[i].ver > 0
    BY <1>8, <1>9 DEF ShellInv, Owned
  <1>15. lastSeq' \in [Accounts -> Nat]
    <2> DEFINE n == lastSeq[cycle.by] + Cardinality(ok)
    <2>1. n \in Nat
      BY <1>2, <1>5
    <2>2. lastSeq' = [lastSeq EXCEPT ![cycle.by] = n]
      BY <1>1
    <2> HIDE DEF n
    <2> QED
      BY <2>1, <2>2 DEF ShellInv, ShellTypeOK
  <1> HIDE DEF ok, foreign, Of
  <1>16. rows \in SUBSET Answer /\ RowIds(rows) = RowIds(cycle.batch)
    BY <1>4 DEF RowIds
  <1>17. \A r \in rows : server'[r.id].ver > 0
    BY <1>4, <1>12
  <1> HIDE DEF rows
  <1>18. /\ cycle' \in Cycle
         /\ cycle'.half = cycle.half /\ cycle'.left = cycle.left
         /\ cycle'.batch = cycle.batch /\ cycle'.unmoved = cycle.unmoved
         /\ cycle'.refused = cycle.refused /\ cycle'.net = net
         /\ cycle'.rows = rows
    BY <1>1, <1>16, AnsweredType DEF ShellInv
  <1>19. ShellTypeOK'
    BY <1>1, <1>10, <1>15, <1>18
       DEF ShellInv, ShellTypeOK, page, writes, cookies, storage
  <1>20. Owned'
    BY <1>14, <1>17, <1>18 DEF Owned
  <1> QED
    BY <1>11, <1>13, <1>16, <1>18, <1>19, <1>20, GoesOn

LEMMA PullServedKeeps ==
  ASSUME ShellInv, NEW net \in {"hung", "body"}, cycle.half = "pull",
         cycle.net # "none", PullServed(net), UNCHANGED <<page, storage>>
  PROVE  ShellInv'
  <1> DEFINE found == {j \in Ids : server[j].owner = cycle.by
                                     /\ server[j].seq > cycle.upTo}
             Of(i) == [id |-> i, ver |-> server[i].ver, title |-> server[i].title,
                       status |-> "accepted"]
             rows == {Of(i) : i \in found}
             upTo == IF found = {} THEN cycle.upTo ELSE lastSeq[cycle.by]
  <1>1. /\ cycle' = [cycle EXCEPT !.net = net, !.code = "200", !.upTo = upTo,
                                  !.rows = rows]
        /\ csrf' = TRUE
        /\ UNCHANGED <<remote, session>>
    BY DEF PullServed
  <1>2. ASSUME NEW i \in found
        PROVE  Of(i) \in Answer /\ Of(i).id = i /\ server[i].ver > 0
    <2>1. server[i].seq > 0
      BY CycleType, RowTypes DEF ShellInv
    <2> QED
      BY <2>1, RowTypes DEF ShellInv, Owned, Answer
  <1>3. upTo \in Nat
    <2>1. CASE found = {}
      BY <2>1, CycleType DEF ShellInv
    <2>2. CASE found # {}
      <3>1. PICK j \in found : TRUE
        BY <2>2
      <3>2. cycle.by \in Accounts
        BY <1>2, <3>1 DEF ShellInv, Owned
      <3> QED
        BY <2>2, <3>2 DEF ShellInv, ShellTypeOK
    <2> QED
      BY <2>1, <2>2
  <1> HIDE DEF found, Of, upTo
  <1>4. rows \in SUBSET Answer /\ \A r \in rows : server[r.id].ver > 0
    BY <1>2
  <1> HIDE DEF rows
  <1>5. /\ cycle' \in Cycle
        /\ cycle'.half = cycle.half /\ cycle'.left = cycle.left
        /\ cycle'.batch = cycle.batch /\ cycle'.unmoved = cycle.unmoved
        /\ cycle'.refused = cycle.refused /\ cycle'.net = net
        /\ cycle'.rows = rows
    BY <1>1, <1>3, <1>4, AnsweredType DEF ShellInv
  <1>6. ShellTypeOK'
    BY <1>1, <1>5 DEF ShellInv, ShellTypeOK, page, writes, remote, storage
  <1>7. Owned'
    BY <1>1, <1>4, <1>5 DEF ShellInv, Owned, remote
  <1>8. server' = server /\ \A i \in Ids : server'[i].ver > 0 => i \in used
    BY <1>1 DEF ShellInv, Handed, remote
  <1> QED
    BY <1>5, <1>6, <1>7, <1>8, GoesOn

LEMMA ServedKeeps ==
  ASSUME ShellInv, NEW net \in {"hung", "body"}, Served(net)
  PROVE  ShellInv'
  <1>1. cycle.net = "sent" /\ UNCHANGED <<page, storage>>
    BY DEF Served
  <1>2. CASE /\ \/ cycle' = [cycle EXCEPT !.net = net, !.code = "401"]
                \/ cycle' = [cycle EXCEPT !.net = net, !.code = "400"]
             /\ UNCHANGED <<remote, cookies>>
    BY <1>1, <1>2, Stuck
  <1>3. CASE cycle.by # NoOne /\ cycle.half = "push" /\ PushServed(net)
    BY <1>1, <1>3, PushServedKeeps
  <1>4. CASE cycle.half = "pull" /\ PullServed(net)
    BY <1>1, <1>4, PullServedKeeps
  <1> QED
    BY <1>2, <1>3, <1>4 DEF Served

LEMMA HangsKeeps ==
  ASSUME ShellInv, Hangs \/ BodyStalls \/ ServerAnswers
  PROVE  ShellInv'
  <1>1. CASE Served("hung") \/ Served("body")
    BY <1>1, ServedKeeps
  <1>2. CASE /\ cycle.net # "none"
             /\ \/ cycle' = [cycle EXCEPT !.net = "hung"]
                \/ cycle' = [cycle EXCEPT !.net = "stalled"]
             /\ UNCHANGED <<page, cookies, storage, remote>>
    BY <1>2, Stuck
  <1> QED
    BY <1>1, <1>2 DEF Hangs, BodyStalls, ServerAnswers

-----------------------------------------------------------------------------
(* The snapshot and its batches.                                             *)

LEMMA SnapshotType ==
  ASSUME ShellTypeOK
  PROVE  /\ Snapshot \subseteq Copy /\ IsFiniteSet(Snapshot)
         /\ RowIds(Snapshot) = {i \in Ids : Dirty(i)}
  <1> DEFINE C(i) == [id |-> i, ver |-> local[i].ver, title |-> local[i].title]
             D == {i \in Ids : Dirty(i)}
  <1>1. Snapshot = {C(i) : i \in D}
    BY DEF Snapshot
  <1>2. IsFiniteSet(D)
    BY Sizes, FS_Subset
  <1>3. \A i \in D : C(i) \in Copy /\ C(i).id = i
    BY RowTypes DEF Copy
  <1> HIDE DEF C, D
  <1>4. IsFiniteSet(Snapshot)
    <2> DEFINE f == [i \in D |-> C(i)]
    <2>1. f \in Surjection(D, Snapshot)
      BY <1>1 DEF Surjection
    <2> HIDE DEF f
    <2> QED
      BY <1>2, <2>1, FS_Surjection
  <1>5. RowIds(Snapshot) = D
    BY <1>1, <1>3 DEF RowIds
  <1> QED
    BY <1>1, <1>3, <1>4, <1>5 DEF D

LEMMA StartCycleKeeps ==
  ASSUME ShellInv, StartCycle
  PROVE  ShellInv'
  <1> DEFINE rows == {s.id : s \in Snapshot}
  <1>1. /\ status' = "syncing"
        /\ cycle' = [NoCycle EXCEPT !.half = "push", !.left = Snapshot,
                                    !.unmoved = rows]
        /\ UNCHANGED <<gate, signing, signedOut, writes, cookies, storage, remote>>
    BY DEF StartCycle
  <1>2. rows \subseteq Ids /\ rows = RowIds(Snapshot)
    BY SnapshotType DEF ShellInv, RowIds
  <1> HIDE DEF rows
  <1>3. /\ cycle'.half = "push" /\ cycle'.left = Snapshot
        /\ cycle'.unmoved = rows /\ cycle'.net = "none" /\ cycle'.batch = {}
        /\ cycle'.rows = {} /\ cycle' \in Cycle
    <2> DEFINE c1 == [NoCycle EXCEPT !.half = "push"]
               c2 == [c1 EXCEPT !.left = Snapshot]
               c3 == [c2 EXCEPT !.unmoved = rows]
               R(v1, v2, v3) ==
                 [half |-> v1, net |-> "none", by |-> NoOne, code |-> "200",
                  left |-> v2, batch |-> {}, rows |-> {}, upTo |-> 0,
                  unmoved |-> v3, refused |-> {}]
    <2>1. c1 = R("push", {}, {})
      BY DEF NoCycle
    <2> HIDE DEF c1
    <2>2. c2 = R("push", Snapshot, {})
      BY <2>1
    <2> HIDE DEF c2
    <2>3. c3 = R("push", Snapshot, rows)
      BY <2>2
    <2>4. cycle' = c3
      BY <1>1 DEF c1, c2
    <2> HIDE DEF c3
    <2>5. Snapshot \in SUBSET Copy
      BY SnapshotType DEF ShellInv
    <2> HIDE DEF R
    <2>6. cycle' = [half |-> "push", net |-> "none", by |-> NoOne, code |-> "200",
                    left |-> Snapshot, batch |-> {}, rows |-> {}, upTo |-> 0,
                    unmoved |-> rows, refused |-> {}]
      BY <2>3, <2>4 DEF R
    <2> QED
      BY <1>2, <2>5, <2>6 DEF Cycle
  <1>4. ShellTypeOK'
    BY <1>1, <1>3 DEF ShellInv, ShellTypeOK, writes, cookies, storage, remote
  <1>5. Batches'
    <2>1. IsFiniteSet(cycle'.left) /\ IsFiniteSet(cycle'.batch)
      BY <1>3, SnapshotType, FS_EmptySet DEF ShellInv
    <2> QED
      BY <1>3, <2>1 DEF Batches
  <1>6. Handed'
    <2>1. rows \subseteq used
      BY <1>2, SnapshotType DEF ShellInv, Handed, Dirty
    <2>2. Pending' = Snapshot
      BY <1>3 DEF Pending
    <2> QED
      BY <1>1, <1>2, <1>3, <2>1, <2>2
         DEF ShellInv, Handed, RowIds, storage, remote, writes
  <1>7. Owned'
    BY <1>1, <1>3 DEF ShellInv, Owned, remote
  <1>8. Accounted'
    BY <1>1, <1>2, <1>3 DEF Accounted, Dirty, Pending, storage
  <1>9. Cleared'
    BY <1>1 DEF ShellInv, Cleared, storage, remote
  <1> QED
    BY <1>4, <1>5, <1>6, <1>7, <1>8, <1>9 DEF ShellInv

LEMMA SendBatchKeeps ==
  ASSUME ShellInv, SendBatch
  PROVE  ShellInv'
  <1> DEFINE batch == NextBatch(cycle.left)
  <1>1. /\ cycle.half = "push" /\ cycle.net = "none" /\ cycle.batch = {}
        /\ UNCHANGED <<cookies, storage, remote, bounds>>
    BY DEF SendBatch, ShellInv, Batches
  <1>2. CASE /\ cycle' = [cycle EXCEPT !.net = "sent", !.by = session,
                                       !.batch = batch, !.left = @ \ batch]
             /\ UNCHANGED page
    <2>1. batch \subseteq cycle.left
      BY DEF NextBatch
    <2> HIDE DEF batch
    <2>2. session \in Accounts \cup {NoOne}
      BY DEF ShellInv, ShellTypeOK
    <2>3. /\ cycle' \in Cycle
          /\ cycle'.half = cycle.half /\ cycle'.left = cycle.left \ batch
          /\ cycle'.batch = batch /\ cycle'.unmoved = cycle.unmoved
          /\ cycle'.refused = cycle.refused /\ cycle'.net = "sent"
          /\ cycle'.rows = cycle.rows
      BY <1>2, <2>1, <2>2, CycleType DEF ShellInv, Cycle
    <2>4. Pending' = Pending
      BY <1>1, <2>1, <2>3 DEF Pending
    <2>5. ShellTypeOK'
      BY <1>1, <1>2, <2>3
         DEF ShellInv, ShellTypeOK, page, writes, cookies, storage, remote
    <2>6. Batches'
      <3>1. IsFiniteSet(batch) /\ IsFiniteSet(cycle.left \ batch)
        BY <2>1, FS_Subset DEF ShellInv, Batches
      <3> QED
        BY <1>1, <2>3, <3>1 DEF Batches
    <2>7. Handed'
      BY <1>1, <1>2, <2>3, <2>4
         DEF ShellInv, Handed, RowIds, storage, remote, page, writes
    <2>8. Owned'
      BY <1>1, <2>3 DEF ShellInv, Owned, remote
    <2>9. Accounted'
      BY <1>1, <2>3, <2>4 DEF ShellInv, Accounted, Dirty, Running, RowIds, storage
    <2>10. Cleared'
      BY <1>1, <1>2 DEF ShellInv, Cleared, storage, remote, page
    <2> QED
      BY <2>5, <2>6, <2>7, <2>8, <2>9, <2>10 DEF ShellInv
  <1>3. CASE Fails("error")
    BY <1>1, <1>3, FailsKeeps
  <1> QED
    BY <1>2, <1>3 DEF SendBatch

LEMMA SendPullKeeps ==
  ASSUME ShellInv, SendPull
  PROVE  ShellInv'
  <1>1. /\ cycle.half = "push" /\ cycle.net = "none" /\ cycle.left = {}
        /\ cycle.batch = {}
        /\ cycle' = [cycle EXCEPT !.half = "pull", !.net = "sent", !.by = session,
                                  !.batch = {}, !.upTo = cursor]
        /\ UNCHANGED <<page, cookies, storage, remote>>
    BY DEF SendPull, ShellInv, Batches
  <1>2. /\ cycle' \in Cycle
        /\ cycle'.half = "pull" /\ cycle'.left = {} /\ cycle'.batch = {}
        /\ cycle'.unmoved = cycle.unmoved /\ cycle'.refused = cycle.refused
        /\ cycle'.net = "sent" /\ cycle'.rows = cycle.rows
    <2>1. session \in Accounts \cup {NoOne} /\ cursor \in Nat
      BY DEF ShellInv, ShellTypeOK
    <2> QED
      BY <1>1, <2>1, CycleType DEF ShellInv, Cycle
  <1>3. ShellTypeOK'
    BY <1>1, <1>2 DEF ShellInv, ShellTypeOK, page, writes, cookies, storage, remote
  <1>4. Batches'
    BY <1>1, <1>2, FS_EmptySet DEF Batches
  <1>5. Handed'
    BY <1>1, <1>2
       DEF ShellInv, Handed, Pending, RowIds, storage, remote, page, writes
  <1>6. Owned'
    BY <1>1, <1>2 DEF ShellInv, Owned, remote
  <1>7. Accounted'
    <2>1. RowIds(Pending) = {}
      BY <1>1 DEF Pending, RowIds
    <2> QED
      BY <1>1, <1>2, <2>1 DEF ShellInv, Accounted, Dirty, Running, storage
  <1>8. Cleared'
    BY <1>1 DEF ShellInv, Cleared, storage, remote, page
  <1> QED
    BY <1>3, <1>4, <1>5, <1>6, <1>7, <1>8 DEF ShellInv

-----------------------------------------------------------------------------
(* Answers are applied.                                                      *)

\* What an answer makes of a row: nothing that is dirty, unless the row was
\* edited meanwhile or is another user's, and nothing that was not there, but
\* for a row of the server.
LEMMA AppliedRow ==
  ASSUME ShellInv, NEW r \in Answer
  PROVE  /\ Applied(r) \in LocalRow
         /\ Applied(r).here /\ Applied(r).dirty =>
              r.status = "forbidden" \/ r.id \notin cycle.unmoved
  <1> DEFINE i == r.id
  <1>1. /\ i \in Ids /\ r.ver \in Nat /\ r.title \in Titles
        /\ r.status \in {"accepted", "conflict", "forbidden"}
    BY DEF Answer
  <1>2. CASE r.status = "forbidden"
    BY <1>1, <1>2, RowTypes DEF ShellInv, Applied
  <1>3. CASE r.status = "accepted" /\ local[i].here
    <2> DEFINE d == i \notin cycle.unmoved
    <2>1. Applied(r) = [local[i] EXCEPT !.ver = r.ver, !.dirty = d]
      BY <1>3 DEF Applied
    <2>2. d \in BOOLEAN
      OBVIOUS
    <2> HIDE DEF d
    <2>3. /\ [local[i] EXCEPT !.ver = r.ver, !.dirty = d] \in LocalRow
          /\ [local[i] EXCEPT !.ver = r.ver, !.dirty = d].dirty = d
      BY <1>1, <2>2, RowTypes DEF ShellInv, LocalRow
    <2> QED
      BY <2>1, <2>3 DEF d
  <1>4. CASE Applied(r) = Missing
    BY <1>4, MissingType
  <1>5. CASE Applied(r) = FromWire(r)
    BY <1>1, <1>5 DEF FromWire, LocalRow
  <1> QED
    BY <1>1, <1>2, <1>3, <1>4, <1>5 DEF Applied

LEMMA PushAppliedKeeps ==
  ASSUME ShellInv, cycle.half = "push", cycle.net = "body", cycle.code = "200",
         PushApplied, UNCHANGED <<cookies, remote, bounds>>
  PROVE  ShellInv'
  <1> DEFINE rows == cycle.rows
             conflict == {r.id : r \in {q \in rows : q.status = "conflict"
                                                       /\ Forks(q.id)}}
             refused == cycle.refused \cup
                          {r.id : r \in {q \in rows : q.status = "forbidden"}}
             kept(copy) == {copy[i] : i \in {j \in conflict : local[j].here}}
  <1>1. PICK copy \in [conflict -> Fresh \ Containers],
             marked \in [conflict -> Titles] :
          /\ local' = [i \in Ids |->
               IF \E r \in rows : r.id = i
               THEN Applied(CHOOSE r \in rows : r.id = i)
               ELSE IF \E j \in conflict : copy[j] = i
               THEN LET j == CHOOSE j \in conflict : copy[j] = i
                    IN  [here |-> TRUE, dirty |-> TRUE, ver |-> 0,
                         title |-> marked[j]]
               ELSE local[i]]
          /\ used' = used \cup {copy[i] : i \in conflict}
          /\ Recorded(kept(copy))
          /\ cycle' = [cycle EXCEPT !.net = "none", !.batch = {}, !.rows = {},
                         !.refused = @ \cup
                            {r.id : r \in {q \in rows : q.status = "forbidden"}}]
          /\ UNCHANGED <<page, cursor>>
    BY Zenon DEF PushApplied
  <1>2. rows \subseteq Answer /\ RowIds(rows) = RowIds(cycle.batch)
    BY CycleType DEF ShellInv, Batches
  <1>3. \A j \in conflict : j \in Ids /\ local[j].here
    BY <1>2 DEF Forks, Answer
  <1>4. refused \in SUBSET Ids
    BY <1>2, CycleType DEF ShellInv, Answer
  <1>5. \A r \in rows : r.status = "forbidden" => r.id \in refused
    OBVIOUS
  <1> HIDE DEF refused
  <1>6. /\ cycle' \in Cycle
        /\ cycle'.half = "push" /\ cycle'.net = "none" /\ cycle'.batch = {}
        /\ cycle'.rows = {} /\ cycle'.left = cycle.left
        /\ cycle'.unmoved = cycle.unmoved /\ cycle'.refused = refused
    <2>1. cycle' = [cycle EXCEPT !.net = "none", !.batch = {}, !.rows = {},
                                 !.refused = refused]
      BY <1>1 DEF refused
    <2> QED
      BY <1>4, <2>1, CycleType DEF ShellInv, Cycle
  <1>7. cycle.refused \subseteq refused
    BY DEF refused
  <1>8. signedOut => \A j \in conflict : copy[j] \in newer'
    BY <1>1, <1>3 DEF Recorded
  <1>9. newer \subseteq newer' /\ newer' \subseteq Ids
    <2>1. kept(copy) \subseteq Ids
      BY <1>1 DEF Fresh
    <2> QED
      BY <1>1, <2>1 DEF ShellInv, ShellTypeOK, Recorded
  <1> HIDE DEF conflict
  <1>10. ASSUME NEW i \in Ids, i \in RowIds(rows)
         PROVE  /\ local'[i] \in LocalRow
                /\ Dirty(i)' => i \in refused \/ i \notin cycle.unmoved
                /\ i \in used /\ server[i].ver > 0
    <2> DEFINE r == CHOOSE r \in rows : r.id = i
    <2>1. r \in rows /\ r.id = i
      BY <1>10 DEF RowIds
    <2>2. local'[i] = Applied(r)
      BY <1>1, <1>10 DEF RowIds
    <2> HIDE DEF r
    <2>3. server[i].ver > 0 /\ i \in used
      BY <2>1 DEF ShellInv, Owned, Handed
    <2> QED
      BY <1>2, <1>5, <2>1, <2>2, <2>3, AppliedRow DEF Dirty
  <1>11. ASSUME NEW i \in Ids, i \notin RowIds(rows)
         PROVE  \/ local'[i] = local[i]
                \/ /\ i \in Fresh /\ i \in used' /\ local'[i] \in LocalRow
                   /\ signedOut => i \in newer'
    <2>1. CASE \E j \in conflict : copy[j] = i
      <3> DEFINE j == CHOOSE j \in conflict : copy[j] = i
      <3>1. j \in conflict /\ copy[j] = i
        BY <2>1
      <3>2. i \in Fresh /\ i \in used' /\ (signedOut => i \in newer')
        BY <1>1, <1>8, <3>1
      <3>3. marked[j] \in Titles
        BY <1>1, <3>1
      <3>4. local'[i] = [here |-> TRUE, dirty |-> TRUE, ver |-> 0,
                         title |-> marked[j]]
        BY <1>1, <1>11, <2>1 DEF RowIds
      <3> HIDE DEF j
      <3>5. local'[i] \in LocalRow
        BY <3>3, <3>4 DEF LocalRow
      <3> QED
        BY <3>2, <3>5
    <2>2. CASE ~\E j \in conflict : copy[j] = i
      BY <1>1, <1>11, <2>2 DEF RowIds
    <2> QED
      BY <2>1, <2>2
  <1>12. local' \in [Ids -> LocalRow]
    <2>1. \A i \in Ids : local'[i] \in LocalRow
      BY <1>10, <1>11, RowTypes DEF ShellInv
    <2>2. local' = [i \in Ids |-> local'[i]]
      BY <1>1
    <2> QED
      BY <2>1, <2>2
  <1>13. used \subseteq used' /\ used' \subseteq Ids
    BY <1>1 DEF ShellInv, ShellTypeOK, Fresh
  <1>14. ShellTypeOK'
    BY <1>1, <1>6, <1>9, <1>12, <1>13
       DEF ShellInv, ShellTypeOK, page, writes, cookies, remote
  <1>15. Batches'
    BY <1>6, FS_EmptySet DEF ShellInv, Batches
  <1>16. RowIds(Pending') \subseteq RowIds(Pending)
    BY <1>6 DEF Pending, RowIds
  <1>17. Handed'
    <2>1. ASSUME NEW i \in Ids, local'[i].here
          PROVE  i \in used'
      BY <1>10, <1>11, <1>13, <2>1 DEF ShellInv, Handed
    <2>2. creating' = creating
      BY <1>1 DEF page, writes
    <2> QED
      BY <1>6, <1>13, <1>16, <2>1, <2>2 DEF ShellInv, Handed, remote
  <1>18. Owned'
    BY <1>6 DEF ShellInv, Owned, remote
  <1>19. Accounted'
    <2>1. ASSUME NEW i \in Ids, Dirty(i)', i \in cycle.unmoved, i \notin refused
          PROVE  i \in RowIds(Pending')
      <3>1. i \notin RowIds(rows)
        BY <1>10, <2>1
      <3>2. i \notin Fresh
        BY <2>1 DEF ShellInv, Handed, Fresh
      <3>3. local'[i] = local[i]
        BY <1>11, <3>1, <3>2
      <3>4. i \in RowIds(Pending)
        BY <1>7, <2>1, <3>3 DEF ShellInv, Accounted, Dirty, Running
      <3> QED
        BY <1>2, <1>6, <3>1, <3>4 DEF RowIds, Pending
    <2> QED
      BY <1>6, <2>1 DEF Accounted
  <1>20. Cleared'
    <2>1. ASSUME signedOut, NEW i \in Ids, local'[i].here
          PROVE  i \in newer' \/ server[i].ver > 0
      BY <1>9, <1>10, <1>11, <2>1 DEF ShellInv, Cleared
    <2> QED
      BY <1>1, <2>1 DEF Cleared, page, remote
  <1> QED
    BY <1>14, <1>15, <1>17, <1>18, <1>19, <1>20 DEF ShellInv

LEMMA PullAppliedKeeps ==
  ASSUME ShellInv, cycle.half = "pull", PullApplied,
         UNCHANGED <<cookies, remote, bounds>>
  PROVE  ShellInv'
  <1> DEFINE Changed(i) == ~Dirty(i) /\ \E r \in cycle.rows : r.id = i
  <1>1. /\ local' = [i \in Ids |->
             IF Changed(i)
             THEN FromWire(CHOOSE r \in cycle.rows : r.id = i)
             ELSE local[i]]
        /\ cursor' = cycle.upTo
        /\ Fails("idle")
        /\ UNCHANGED <<used, newer>>
    BY DEF PullApplied
  <1>2. ASSUME NEW i \in Ids, Changed(i)
        PROVE  local'[i] \in LocalRow /\ ~local'[i].dirty /\ server[i].ver > 0
    <2> DEFINE r == CHOOSE r \in cycle.rows : r.id = i
    <2>1. r \in cycle.rows /\ r.id = i
      BY <1>2
    <2>2. local'[i] = FromWire(r)
      BY <1>1, <1>2
    <2> HIDE DEF r
    <2>3. r.ver \in Nat /\ r.title \in Titles
      BY <2>1, CycleType DEF ShellInv, Answer
    <2>4. server[i].ver > 0
      BY <2>1 DEF ShellInv, Owned
    <2> QED
      BY <2>2, <2>3, <2>4 DEF FromWire, LocalRow
  <1>3. ASSUME NEW i \in Ids, ~Changed(i)
        PROVE  local'[i] = local[i]
    BY <1>1, <1>3
  <1> HIDE DEF Changed
  <1>4. local' \in [Ids -> LocalRow]
    <2>1. \A i \in Ids : local'[i] \in LocalRow
      BY <1>2, <1>3, RowTypes DEF ShellInv
    <2>2. local' = [i \in Ids |-> local'[i]]
      BY <1>1
    <2> QED
      BY <2>1, <2>2
  <1>5. \A i \in Ids : local'[i].here => local[i].here \/ server[i].ver > 0
    BY <1>2, <1>3
  <1>6. cursor' \in Nat
    BY <1>1, CycleType DEF ShellInv
  <1>7. ASSUME NEW i \in Ids, Dirty(i)'
        PROVE  Dirty(i) /\ (i \notin cycle.unmoved \/ i \in cycle.refused)
    <2>1. Dirty(i)
      BY <1>2, <1>3, <1>7 DEF Dirty
    <2> QED
      BY <2>1 DEF ShellInv, Accounted, Running
  <1>8. UNCHANGED <<session, csrf, used, newer, server, lastSeq>>
    BY <1>1 DEF cookies, remote
  <1> QED
    BY <1>1, <1>4, <1>5, <1>6, <1>7, <1>8, CycleEnds

LEMMA BodyArrivesKeeps ==
  ASSUME ShellInv, BodyArrives
  PROVE  ShellInv'
  <1>1. cycle.net = "body" /\ UNCHANGED <<cookies, remote, bounds>>
    BY DEF BodyArrives
  <1>2. CASE cycle.code = "200" /\ cycle.half = "push" /\ PushApplied
    BY <1>1, <1>2, PushAppliedKeeps
  <1>3. CASE cycle.half = "pull" /\ PullApplied
    BY <1>1, <1>3, PullAppliedKeeps
  <1>4. CASE (Fails("unauthenticated") \/ Fails("error")) /\ UNCHANGED storage
    BY <1>1, <1>4, FailsKeeps
  <1> QED
    BY <1>2, <1>3, <1>4 DEF BodyArrives

-----------------------------------------------------------------------------
(* Somebody writes, or signs out.                                            *)

\* A write reaches IndexedDB.
LEMMA WrittenKeeps ==
  ASSUME ShellInv, NEW i \in Ids, NEW title \in Titles, Written(i, title),
         i \in used, newer \subseteq newer', newer' \subseteq Ids,
         creating' \subseteq creating, pending' \subseteq pending,
         signedOut => local[i].here \/ i \in newer',
         UNCHANGED <<gate, status, signing, signedOut, cursor, used, cookies, remote>>
  PROVE  ShellInv'
  <1>1. /\ local' = [local EXCEPT ![i] = [@ EXCEPT !.here = TRUE, !.dirty = TRUE,
                                                   !.title = title]]
        /\ cycle' = [cycle EXCEPT !.unmoved = @ \ {i}]
    BY DEF Written
  <1>2. /\ cycle' \in Cycle
        /\ cycle'.half = cycle.half /\ cycle'.left = cycle.left
        /\ cycle'.batch = cycle.batch /\ cycle'.unmoved = cycle.unmoved \ {i}
        /\ cycle'.refused = cycle.refused /\ cycle'.net = cycle.net
        /\ cycle'.code = cycle.code /\ cycle'.rows = cycle.rows
    BY <1>1, CycleType DEF ShellInv, Cycle
  <1>3. /\ local' \in [Ids -> LocalRow]
        /\ \A j \in Ids \ {i} : local'[j] = local[j]
    <2> DEFINE row == [local[i] EXCEPT !.here = TRUE, !.dirty = TRUE,
                                       !.title = title]
    <2>1. row \in LocalRow
      BY RowTypes DEF ShellInv, LocalRow
    <2>2. local' = [local EXCEPT ![i] = row]
      BY <1>1
    <2> HIDE DEF row
    <2> QED
      BY <2>1, <2>2 DEF ShellInv, ShellTypeOK
  <1>4. ShellTypeOK'
    BY <1>2, <1>3 DEF ShellInv, ShellTypeOK, cookies, remote
  <1>5. Pending' = Pending
    BY <1>2 DEF Pending
  <1>6. Batches'
    BY <1>2 DEF ShellInv, Batches
  <1>7. Handed'
    BY <1>2, <1>3, <1>5 DEF ShellInv, Handed, RowIds, remote
  <1>8. Owned'
    BY <1>2 DEF ShellInv, Owned, remote
  <1>9. Accounted'
    BY <1>2, <1>3, <1>5 DEF ShellInv, Accounted, Dirty, Running, RowIds
  <1>10. Cleared'
    BY <1>3 DEF ShellInv, Cleared, remote
  <1> QED
    BY <1>4, <1>6, <1>7, <1>8, <1>9, <1>10 DEF ShellInv

LEMMA BegunKeeps ==
  ASSUME ShellInv, NEW i \in Ids, Create(i) \/ Edit(i)
  PROVE  ShellInv'
  <1>1. CASE Create(i)
    <2>1. /\ used' = used \cup {i} /\ creating' = creating \cup {i}
          /\ UNCHANGED <<gate, status, signing, signedOut, pending, local, cursor,
                         newer, cookies, remote, cycle>>
      BY <1>1 DEF Create
    <2>2. ShellTypeOK'
      BY <2>1 DEF ShellInv, ShellTypeOK, cookies, remote
    <2>3. Batches' /\ Owned'
      BY <2>1 DEF ShellInv, Batches, Owned, remote
    <2>4. Handed'
      BY <2>1 DEF ShellInv, Handed, Pending, RowIds, remote
    <2>5. Accounted'
      BY <2>1 DEF ShellInv, Accounted, Dirty, Pending, RowIds, Running
    <2>6. Cleared'
      BY <2>1 DEF ShellInv, Cleared, remote
    <2> QED
      BY <2>2, <2>3, <2>4, <2>5, <2>6 DEF ShellInv
  <1>2. CASE Edit(i)
    <2>1. /\ pending' = pending \cup {i}
          /\ UNCHANGED <<gate, status, signing, signedOut, creating, cookies,
                         storage, remote, cycle>>
      BY <1>2 DEF Edit
    <2>2. ShellTypeOK'
      BY <2>1 DEF ShellInv, ShellTypeOK, cookies, storage, remote
    <2>3. UNCHANGED <<storage, server, status>>
      BY <2>1 DEF remote
    <2> QED
      BY <2>1, <2>2, <2>3, Quiet
  <1> QED
    BY <1>1, <1>2

LEMMA LandsKeeps ==
  ASSUME ShellInv, NEW i \in Ids, CreateLands(i) \/ EditLands(i)
  PROVE  ShellInv'
  <1>1. \A j \in Ids : Typed(j) \subseteq Titles
    BY DEF Typed, Titles
  <1>2. CASE CreateLands(i)
    <2>1. /\ i \in creating /\ creating' = creating \ {i} /\ pending' = pending
          /\ newer' = IF signedOut THEN newer \cup {i} ELSE newer
          /\ UNCHANGED <<gate, status, signing, signedOut, cursor, used, cookies,
                         remote>>
      BY <1>2 DEF CreateLands, Recorded
    <2>2. PICK title \in Titles : Written(i, title)
      BY <1>1, <1>2 DEF CreateLands
    <2>3. i \in used /\ newer' \subseteq Ids /\ newer \subseteq newer'
      BY <2>1 DEF ShellInv, Handed, ShellTypeOK
    <2> QED
      BY <2>1, <2>2, <2>3, WrittenKeeps
  <1>3. CASE EditLands(i) /\ Saves(i)
    <2>1. /\ pending' = pending \ {i} /\ creating' = creating /\ newer' = newer
          /\ UNCHANGED <<gate, status, signing, signedOut, cursor, used, cookies,
                         remote>>
      BY <1>3 DEF EditLands
    <2>2. PICK title \in Titles : Written(i, title)
      BY <1>1, <1>3 DEF EditLands
    <2>3. i \in used /\ local[i].here /\ newer \subseteq Ids
      BY <1>3 DEF ShellInv, Handed, ShellTypeOK, Saves
    <2> QED
      BY <2>1, <2>2, <2>3, WrittenKeeps
  <1>4. CASE EditLands(i) /\ ~Saves(i)
    <2>1. /\ pending' = pending \ {i}
          /\ UNCHANGED <<gate, status, signing, signedOut, creating, local, cursor,
                         used, newer, cookies, remote, cycle>>
      BY <1>4 DEF EditLands
    <2>2. ShellTypeOK'
      BY <2>1 DEF ShellInv, ShellTypeOK, cookies, remote
    <2>3. UNCHANGED <<storage, server, status>>
      BY <2>1 DEF remote, storage
    <2> QED
      BY <2>1, <2>2, <2>3, Quiet
  <1> QED
    BY <1>2, <1>3, <1>4

LEMMA ClearKeeps ==
  ASSUME ShellInv, ClearEverything
  PROVE  ShellInv'
  <1>1. /\ local' = [i \in Ids |-> Missing] /\ cursor' = 0 /\ newer' = {}
        /\ signing' = "cleared" /\ signedOut' = TRUE
        /\ UNCHANGED <<gate, status, writes, used, cookies, remote, cycle>>
    BY DEF ClearEverything
  <1>2. \A i \in Ids : ~local'[i].here
    BY <1>1, MissingType
  <1>3. ShellTypeOK'
    <2>1. local' \in [Ids -> LocalRow]
      BY <1>1, MissingType
    <2> QED
      BY <1>1, <2>1 DEF ShellInv, ShellTypeOK, writes, cookies, remote
  <1>4. Batches' /\ Owned'
    BY <1>1 DEF ShellInv, Batches, Owned, remote
  <1>5. Handed'
    BY <1>1, <1>2 DEF ShellInv, Handed, Pending, RowIds, remote, writes
  <1>6. Accounted' /\ Cleared'
    BY <1>2 DEF Accounted, Cleared, Dirty
  <1> QED
    BY <1>3, <1>4, <1>5, <1>6 DEF ShellInv

-----------------------------------------------------------------------------
(* The invariant.                                                            *)

LEMMA ShellInvInit == ShellInit => ShellInv
  <1> SUFFICES ASSUME ShellInit
               PROVE  ShellInv
    OBVIOUS
  <1>1. /\ Cardinality(Held) \in Nat
        /\ \A i \in Held : Cardinality({j \in Held : j <= i}) \in Nat
    BY Sizes, FS_Subset, FS_CardinalityType
  <1>2. ASSUME NEW i \in Ids
        PROVE  /\ server[i] \in ServerRow
               /\ server[i].ver > 0 => server[i].owner \in Accounts /\ i \in Held
               /\ server[i].seq > 0 => server[i].ver > 0
    <2>1. CASE i \in Held
      <3>1. server[i] = [ver |-> 1, seq |-> Cardinality({j \in Held : j <= i}),
                         title |-> "fits", owner |-> Holder]
        BY <2>1 DEF ShellInit
      <3> QED
        BY <1>1, <2>1, <3>1, Sizes DEF ServerRow, Titles
    <2>2. CASE i \notin Held
      <3>1. server[i] = [ver |-> 0, seq |-> 0, title |-> "fits", owner |-> NoOne]
        BY <2>2 DEF ShellInit
      <3> QED
        BY <3>1 DEF ServerRow, Titles
    <2> QED
      BY <2>1, <2>2
  <1>3. ShellTypeOK
    <2>1. server \in [Ids -> ServerRow]
      <3>1. server = [i \in Ids |-> server[i]]
        BY DEF ShellInit
      <3> QED
        BY <1>2, <3>1
    <2>2. local \in [Ids -> LocalRow]
      BY MissingType DEF ShellInit
    <2>3. lastSeq \in [Accounts -> Nat]
      BY <1>1 DEF ShellInit
    <2>4. csrf \in BOOLEAN
      BY DEF ShellInit
    <2>5. /\ gate \in {"checking", "in", "out"} /\ status = "idle"
          /\ session \in Accounts \cup {NoOne} /\ cursor \in Nat
          /\ signing = "no" /\ signedOut \in BOOLEAN
          /\ creating \subseteq Ids /\ pending \subseteq Ids
          /\ used \subseteq Ids /\ newer \subseteq Ids /\ cycle \in Cycle
      BY Sizes, NoCycleType DEF ShellInit
    <2> QED
      BY <2>1, <2>2, <2>3, <2>4, <2>5 DEF ShellTypeOK
  <1>4. /\ cycle.half = "none" /\ cycle.net = "none" /\ cycle.left = {}
        /\ cycle.batch = {} /\ cycle.rows = {} /\ cycle.unmoved = {}
    BY DEF ShellInit, NoCycle
  <1>5. Batches
    BY <1>4, FS_EmptySet DEF Batches
  <1>6. Handed
    BY <1>2, <1>4, MissingType DEF ShellInit, Handed, Pending, RowIds
  <1>7. Owned
    BY <1>2, <1>4 DEF Owned
  <1>8. Accounted /\ Cleared
    BY <1>4 DEF ShellInit, Accounted, Cleared
  <1> QED
    BY <1>3, <1>5, <1>6, <1>7, <1>8 DEF ShellInv

LEMMA ShellInvNext ==
  ASSUME ShellInv, [ShellNext]_vars
  PROVE  ShellInv'
  <1>1. CASE CycleStep
    BY <1>1, StartCycleKeeps, SendBatchKeeps, SendPullKeeps, HangsKeeps,
       BodyArrivesKeeps, GivenUp DEF CycleStep
  <1>2. ASSUME NEW i \in Ids, \/ Create(i) \/ CreateLands(i) \/ Edit(i)
                              \/ EditLands(i) \/ RemoteEdit(i)
        PROVE  ShellInv'
    BY <1>2, BegunKeeps, LandsKeeps, RemoteEditKeeps
  <1>3. CASE UNCHANGED vars
    <2>1. UNCHANGED <<page, cookies, storage, remote, cycle>>
      BY <1>3 DEF vars
    <2>2. ShellTypeOK'
      BY <2>1 DEF ShellInv, ShellTypeOK, page, writes, cookies, storage, remote
    <2>3. UNCHANGED <<storage, server, status, creating, signedOut, cycle>>
      BY <2>1 DEF page, writes, remote
    <2> QED
      BY <2>2, <2>3, Quiet
  <1> QED
    BY <1>1, <1>2, <1>3, HangsKeeps, GivenUp, ReloadKeeps, GateKeeps,
       SessionEndKeeps, ClearKeeps
       DEF ShellNext

LEMMA ShellInvariant == ShellSpec => []ShellInv
  BY ShellInvInit, ShellInvNext, PTL DEF ShellSpec

\* Types are kept, whichever account comes in over what another has left.
THEOREM ShellTypeCorrect == ShellSpec => []ShellTypeOK
  <1>1. ShellInv => ShellTypeOK
    BY DEF ShellInv
  <1> QED
    BY <1>1, ShellInvariant, PTL

\* The indicator says idle only when every row of the last snapshot has been
\* accepted, edited again, or refused as another user's, however many batches
\* the cycle sent and whichever conflicts came back (sync/index.ts, push.ts).
THEOREM IdleIsHonest == ShellSpec => []IdleMeansSent
  <1>1. ShellInv => IdleMeansSent
    BY CycleType DEF ShellInv, Accounted, IdleMeansSent, Running
  <1> QED
    BY <1>1, ShellInvariant, PTL

\* A row that has to be pushed from a device that was cleared is one the server
\* has, or one created or copied there since, in whatever state a cycle and an
\* editor were when it was cleared (App.tsx, signOut; notes.ts, updateNote;
\* push.ts, applyConflict).
THEOREM SignedOutIsClean == ShellSpec => []NothingUnsentOutlivesSignOut
  <1>1. ShellInv => NothingUnsentOutlivesSignOut
    BY DEF ShellInv, Cleared, NothingUnsentOutlivesSignOut, Dirty
  <1> QED
    BY <1>1, ShellInvariant, PTL

=============================================================================
