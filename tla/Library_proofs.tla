--------------------------- MODULE Library_proofs ---------------------------
(* Classes and what is in them for any devices, rows and number of edits.   *)
(*                                                                          *)
(* Deleting takes only what was seen because a device whose copy has the    *)
(* server's version also has the server's text.  A class and its contents   *)
(* come and go together because of what a device that knows a row can tell: *)
(* whether it was ever created, and whether anyone has deleted it.  Sending *)
(* and fetching rows one by one changes neither.                            *)
EXTENDS Library, TLAPS

-----------------------------------------------------------------------------
(* The inductive invariant.                                                *)

\* Every row, raced or not.
Sound(d, r) ==
  /\ ~local[d][r].here => local[d][r] = Missing
  /\ local[d][r].here /\ ~local[d][r].dirty => local[d][r].ver >= 1
  /\ local[d][r].ver <= server[r].ver
  /\ server[r].ver = 0 => ~server[r].dead /\ server[r].text = {}

\* A device with the server's version has the server's text.
UpToDate(d, r) ==
  local[d][r].here /\ local[d][r].ver = server[r].ver /\ server[r].ver > 0 =>
    server[r].text \subseteq local[d][r].text

\* Text in a deleted note was there for its deleter.
GoneWhenDead(d, r) ==
  IsText(r) =>
    /\ local[d][r].dead => local[d][r].text \subseteq gone
    /\ server[r].dead => server[r].text \subseteq gone

TextTyped(d, r) ==
  IsText(r) => local[d][r].text \subseteq typed /\ server[r].text \subseteq typed

RowsSound == \A d \in Devices, r \in Rows :
  Sound(d, r) /\ UpToDate(d, r) /\ GoneWhenDead(d, r) /\ TextTyped(d, r)

\* A row nobody raced for has one writer at a time, who has the latest version.
OneWriter(d, r) ==
  /\ local[d][r].dirty => Knows(d, r)
  /\ local[d][r].dead /\ ~local[d][r].dirty => server[r].dead
  /\ local[d][r].ver = server[r].ver /\ server[r].dead => local[d][r].dead

\* Somebody has deleted it.
Dead(r) == server[r].dead \/ \E d \in Devices : local[d][r].dead

\* A row r and its container c, in the latest state of each.
LatestTogether(r, c) ==
  /\ ~Unused(r) => ~Unused(c)
  /\ ~Unused(r) /\ Dead(c) => Dead(r)
  /\ KindOf[r] = "general" /\ (Dead(r) \/ Unused(r)) => Dead(c) \/ Unused(c)

UnracedRows == \A d \in Devices, r \in Rows \ raced : OneWriter(d, r)
UnracedPairs ==
  \A r \in Rows \ raced : In[r] \in Rows \ raced => LatestTogether(r, In[r])

-----------------------------------------------------------------------------
(* Types.                                                                  *)

LEMMA LocalFields ==
  ASSUME LibraryTypeOK, NEW d \in Devices, NEW r \in Rows
  PROVE  /\ local[d][r] \in Local
         /\ local[d][r].here \in BOOLEAN /\ local[d][r].dirty \in BOOLEAN
         /\ local[d][r].ver \in Nat /\ local[d][r].dead \in BOOLEAN
         /\ local[d][r].text \subseteq 1..MaxEdits
         /\ server[r] \in [ver : Nat, dead : BOOLEAN, text : Texts]
         /\ server[r].ver \in Nat /\ server[r].dead \in BOOLEAN
         /\ server[r].text \subseteq 1..MaxEdits
  BY DEF LibraryTypeOK, Local, Texts

LEMMA Counting ==
  ASSUME LibraryTypeOK
  PROVE  /\ MaxEdits \in Nat /\ edits \in Nat /\ edits <= MaxEdits
         /\ typed \subseteq 1..edits /\ gone \subseteq typed
         /\ edits + 1 \notin typed /\ edits + 1 \notin gone
  BY LibraryAssumption DEF LibraryTypeOK

\* What the writers of one row return.
LEMMA WrittenFields ==
  ASSUME LibraryTypeOK, edits < MaxEdits, NEW row \in Local, NEW r \in Rows
  PROVE  /\ Written(r, row) \in Local
         /\ Written(r, row).here = TRUE /\ Written(r, row).dirty = TRUE
         /\ Written(r, row).ver = row.ver /\ Written(r, row).dead = row.dead
         /\ IsText(r) => Written(r, row).text = row.text \cup {edits + 1}
         /\ ~IsText(r) => Written(r, row).text = row.text
  <1> DEFINE text == IF IsText(r) THEN row.text \cup {edits + 1} ELSE row.text
             kept == [row EXCEPT !.here = TRUE]
             sent == [kept EXCEPT !.dirty = TRUE]
  <1>1. /\ kept \in Local /\ kept.here = TRUE /\ kept.ver = row.ver
        /\ kept.dead = row.dead /\ kept.text = row.text
    BY DEF Local
  <1> HIDE DEF kept
  <1>2. /\ sent \in Local /\ sent.here = TRUE /\ sent.dirty = TRUE
        /\ sent.ver = row.ver /\ sent.dead = row.dead /\ sent.text = row.text
    BY <1>1 DEF Local
  <1> HIDE DEF sent
  <1>3. row.text \in Texts
    BY DEF Local
  <1>4. text \in Texts
    BY <1>3, Counting DEF Texts
  <1>5. Written(r, row) = [sent EXCEPT !.text = text]
    BY <1>2 DEF Written, sent, kept
  <1> HIDE DEF text
  <1>6. /\ [sent EXCEPT !.text = text] \in Local
        /\ [sent EXCEPT !.text = text].here = TRUE
        /\ [sent EXCEPT !.text = text].dirty = TRUE
        /\ [sent EXCEPT !.text = text].ver = row.ver
        /\ [sent EXCEPT !.text = text].dead = row.dead
        /\ [sent EXCEPT !.text = text].text = text
    BY <1>2, <1>4 DEF Local
  <1> QED
    BY <1>5, <1>6 DEF text

LEMMA BuriedFields ==
  ASSUME NEW row \in Local
  PROVE  /\ Buried(row) \in Local
         /\ Buried(row).here = row.here /\ Buried(row).dirty = TRUE
         /\ Buried(row).ver = row.ver /\ Buried(row).dead = TRUE
         /\ Buried(row).text = row.text
  <1> DEFINE sent == [row EXCEPT !.dirty = TRUE]
  <1>1. /\ sent \in Local /\ sent.here = row.here /\ sent.dirty = TRUE
        /\ sent.ver = row.ver /\ sent.text = row.text
    BY DEF Local
  <1>2. Buried(row) = [sent EXCEPT !.dead = TRUE]
    BY DEF Buried
  <1> HIDE DEF sent
  <1> QED
    BY <1>1, <1>2 DEF Local

\* Writing rows changes nothing but whether they are there, that they are to
\* be sent, and their text, which grows.
LEMMA WriteFields ==
  ASSUME LibraryTypeOK, NEW d \in Devices, NEW S \in SUBSET Rows, Write(d, S),
         NEW e \in Devices, NEW r \in Rows
  PROVE  /\ local'[e][r].here <=> (local[e][r].here \/ (e = d /\ r \in S))
         /\ local'[e][r].dirty <=> (local[e][r].dirty \/ (e = d /\ r \in S))
         /\ local'[e][r].ver = local[e][r].ver
         /\ local'[e][r].dead <=> local[e][r].dead
         /\ e = d /\ r \in S /\ IsText(r) =>
              local'[e][r].text = local[e][r].text \cup {edits + 1}
         /\ ~(e = d /\ r \in S /\ IsText(r)) => local'[e][r].text = local[e][r].text
         /\ ~(e = d /\ r \in S) => local'[e][r] = local[e][r]
         /\ server'[r] = server[r]
  <1>1. CASE e = d /\ r \in S
    <2>1. local'[e][r] = Written(r, local[e][r])
      BY <1>1 DEF Write, LibraryTypeOK
    <2>2. local[e][r] \in Local /\ edits < MaxEdits
      BY LocalFields DEF Write
    <2> DEFINE row == local[e][r]
    <2>3. row \in Local /\ local'[e][r] = Written(r, row)
      BY <2>1, <2>2
    <2> HIDE DEF row
    <2>5. /\ Written(r, row).here = TRUE /\ Written(r, row).dirty = TRUE
          /\ Written(r, row).ver = row.ver /\ Written(r, row).dead = row.dead
      BY <2>2, <2>3, WrittenFields
    <2>6. /\ IsText(r) => Written(r, row).text = row.text \cup {edits + 1}
          /\ ~IsText(r) => Written(r, row).text = row.text
      BY <2>2, <2>3, WrittenFields
    <2>4. /\ local'[e][r].here = TRUE /\ local'[e][r].dirty = TRUE
          /\ local'[e][r].ver = row.ver /\ local'[e][r].dead = row.dead
          /\ IsText(r) => local'[e][r].text = row.text \cup {edits + 1}
          /\ ~IsText(r) => local'[e][r].text = row.text
      BY <2>3, <2>5, <2>6
    <2> QED
      BY <1>1, <2>4 DEF Write, row
  <1>2. CASE ~(e = d /\ r \in S)
    <2>1. local'[e][r] = local[e][r]
      BY <1>2 DEF Write, LibraryTypeOK
    <2> QED
      BY <1>2, <2>1, LocalFields DEF Write
  <1> QED
    BY <1>1, <1>2

LEMMA WriteTypes ==
  ASSUME LibraryTypeOK, NEW d \in Devices, NEW S \in SUBSET Rows, Write(d, S),
         raced' \subseteq Rows
  PROVE  LibraryTypeOK'
  <1>1. \A row \in Local, r \in Rows : Written(r, row) \in Local
    BY WrittenFields DEF Write
  <1>2. local' \in [Devices -> [Rows -> Local]]
    BY <1>1 DEF Write, LibraryTypeOK
  <1>3. /\ edits' \in 0..MaxEdits /\ typed' \subseteq 1..edits'
        /\ gone' \subseteq typed' /\ server' = server
    BY Counting DEF Write, LibraryTypeOK
  <1> QED
    BY <1>2, <1>3 DEF LibraryTypeOK

\* Burying rows changes nothing but that they are dead and to be sent.
LEMMA BuryFields ==
  ASSUME LibraryTypeOK, NEW d \in Devices, NEW S \in SUBSET Rows, Bury(d, S),
         NEW e \in Devices, NEW r \in Rows
  PROVE  /\ local'[e][r].here <=> local[e][r].here
         /\ local'[e][r].dirty <=> (local[e][r].dirty \/ (e = d /\ r \in S))
         /\ local'[e][r].ver = local[e][r].ver
         /\ local'[e][r].dead <=> (local[e][r].dead \/ (e = d /\ r \in S))
         /\ local'[e][r].text = local[e][r].text
         /\ ~(e = d /\ r \in S) => local'[e][r] = local[e][r]
         /\ server'[r] = server[r]
  <1>1. CASE e = d /\ r \in S
    <2>1. local'[e][r] = Buried(local[e][r])
      BY <1>1 DEF Bury, LibraryTypeOK
    <2>2. local[e][r] \in Local
      BY LocalFields
    <2>3. /\ local'[e][r].here = local[e][r].here /\ local'[e][r].dirty = TRUE
          /\ local'[e][r].ver = local[e][r].ver /\ local'[e][r].dead = TRUE
          /\ local'[e][r].text = local[e][r].text
      BY <2>1, <2>2, BuriedFields
    <2> QED
      BY <1>1, <2>3 DEF Bury
  <1>2. CASE ~(e = d /\ r \in S)
    <2>1. local'[e][r] = local[e][r]
      BY <1>2 DEF Bury, LibraryTypeOK
    <2> QED
      BY <1>2, <2>1, LocalFields DEF Bury
  <1> QED
    BY <1>1, <1>2

LEMMA BuryTypes ==
  ASSUME LibraryTypeOK, RowsSound,
         NEW d \in Devices, NEW S \in SUBSET Rows, Bury(d, S),
         raced' \subseteq Rows
  PROVE  LibraryTypeOK'
  <1>1. \A row \in Local : Buried(row) \in Local
    BY BuriedFields
  <1>2. local' \in [Devices -> [Rows -> Local]]
    BY <1>1 DEF Bury, LibraryTypeOK
  <1>3. gone' \subseteq typed
    BY Counting DEF Bury, RowsSound, TextTyped
  <1>4. /\ edits' \in 0..MaxEdits /\ typed' \subseteq 1..edits'
        /\ gone' \subseteq typed' /\ server' = server
    BY <1>3, Counting DEF Bury, LibraryTypeOK
  <1> QED
    BY <1>2, <1>4 DEF LibraryTypeOK

-----------------------------------------------------------------------------
(* Rows sent and fetched.                                                  *)

\* Row r of d becomes the server's copy, and nothing else changes.
Took(d, r) ==
  /\ server[r].ver > 0
  /\ local' = [local EXCEPT ![d][r] = FromServer(server[r])]
  /\ UNCHANGED <<server, edits, raced, typed, gone>>

LEMMA FromServerFields ==
  ASSUME NEW row \in [ver : Nat, dead : BOOLEAN, text : Texts]
  PROVE  /\ FromServer(row) \in Local
         /\ FromServer(row).here = TRUE /\ FromServer(row).dirty = FALSE
         /\ FromServer(row).ver = row.ver
         /\ FromServer(row).dead = row.dead
         /\ FromServer(row).text = row.text
  BY DEF FromServer, Local

LEMMA PushShapes ==
  ASSUME LibraryTypeOK, NEW d \in Devices, NEW r \in Rows, PushRow(d, r)
  PROVE  /\ local[d][r].dirty /\ UNCHANGED <<edits, typed, gone>>
         /\ \/ PushAccepted(d, r)
            \/ Took(d, r) /\ ~Accepts(d, r) /\ ~IsText(r)
            \/ \E copy \in Rows : PushForked(d, r, copy)
  <1>1. /\ local[d][r].dirty /\ UNCHANGED <<edits, typed, gone>>
        /\ \/ PushAccepted(d, r)
           \/ PushOverruled(d, r)
           \/ \E copy \in Rows : PushForked(d, r, copy)
    BY DEF PushRow
  <1>2. ASSUME PushOverruled(d, r)
        PROVE  Took(d, r) /\ ~Accepts(d, r) /\ ~IsText(r)
    <2>1. server[r].ver > 0
      BY <1>2, LocalFields DEF PushOverruled, Accepts
    <2> QED
      BY <1>1, <1>2, <2>1 DEF PushOverruled, Took, Forks
  <1> QED
    BY <1>1, <1>2

LEMMA PullShape ==
  ASSUME LibraryTypeOK, NEW d \in Devices, NEW r \in Rows, PullRow(d, r)
  PROVE  Took(d, r) /\ ~local[d][r].dirty
  BY LocalFields DEF PullRow, Took

LEMMA TookFields ==
  ASSUME LibraryTypeOK, NEW d \in Devices, NEW r \in Rows, Took(d, r)
  PROVE  /\ local'[d][r] \in Local
         /\ local'[d][r].here /\ ~local'[d][r].dirty
         /\ local'[d][r].ver = server[r].ver
         /\ local'[d][r].dead = server[r].dead
         /\ local'[d][r].text = server[r].text
         /\ \A e \in Devices, q \in Rows :
              ~(e = d /\ q = r) => local'[e][q] = local[e][q]
  <1>1. local'[d][r] = FromServer(server[r])
    BY DEF Took, LibraryTypeOK
  <1>2. server[r] \in [ver : Nat, dead : BOOLEAN, text : Texts]
    BY LocalFields
  <1>3. \A e \in Devices, q \in Rows :
          ~(e = d /\ q = r) => local'[e][q] = local[e][q]
    BY DEF Took, LibraryTypeOK
  <1> DEFINE row == server[r]
  <1>4. row \in [ver : Nat, dead : BOOLEAN, text : Texts]
    BY <1>2
  <1> HIDE DEF row
  <1>5. /\ FromServer(row) \in Local
        /\ FromServer(row).here = TRUE /\ FromServer(row).dirty = FALSE
        /\ FromServer(row).ver = row.ver /\ FromServer(row).dead = row.dead
        /\ FromServer(row).text = row.text
    BY <1>4, FromServerFields
  <1> QED
    BY <1>1, <1>3, <1>5 DEF row

LEMMA AcceptedFields ==
  ASSUME LibraryTypeOK, NEW d \in Devices, NEW r \in Rows, PushAccepted(d, r)
  PROVE  /\ server'[r] \in [ver : Nat, dead : BOOLEAN, text : Texts]
         /\ server'[r].ver = server[r].ver + 1
         /\ server'[r].dead = local[d][r].dead
         /\ server'[r].text = local[d][r].text
         /\ local'[d][r] \in Local
         /\ local'[d][r].here /\ ~local'[d][r].dirty
         /\ local'[d][r].ver = server[r].ver + 1
         /\ local'[d][r].dead = local[d][r].dead
         /\ local'[d][r].text = local[d][r].text
         /\ \A q \in Rows \ {r} : server'[q] = server[q]
         /\ \A e \in Devices, q \in Rows :
              ~(e = d /\ q = r) => local'[e][q] = local[e][q]
  <1> DEFINE row == [ver |-> server[r].ver + 1, dead |-> local[d][r].dead,
                     text |-> local[d][r].text]
  <1>1. server' = [server EXCEPT ![r] = row]
    BY DEF PushAccepted
  <1>2. /\ row \in [ver : Nat, dead : BOOLEAN, text : Texts]
        /\ row.ver = server[r].ver + 1 /\ row.dead = local[d][r].dead
        /\ row.text = local[d][r].text
    BY LocalFields DEF Texts
  <1> HIDE DEF row
  <1>3. server'[r] = row /\ \A q \in Rows \ {r} : server'[q] = server[q]
    BY <1>1 DEF LibraryTypeOK
  <1>4. /\ local'[d][r] = FromServer(row)
        /\ \A e \in Devices, q \in Rows :
             ~(e = d /\ q = r) => local'[e][q] = local[e][q]
    BY <1>3 DEF PushAccepted, LibraryTypeOK
  <1>5. /\ FromServer(row) \in Local
        /\ FromServer(row).here = TRUE /\ FromServer(row).dirty = FALSE
        /\ FromServer(row).ver = row.ver /\ FromServer(row).dead = row.dead
        /\ FromServer(row).text = row.text
    BY <1>2, FromServerFields
  <1> QED
    BY <1>2, <1>3, <1>4, <1>5

LEMMA CopiedFields ==
  ASSUME NEW row \in Local
  PROVE  /\ [row EXCEPT !.ver = 0] \in Local
         /\ [row EXCEPT !.ver = 0].here = row.here
         /\ [row EXCEPT !.ver = 0].dirty = row.dirty
         /\ [row EXCEPT !.ver = 0].ver = 0
         /\ [row EXCEPT !.ver = 0].dead = row.dead
         /\ [row EXCEPT !.ver = 0].text = row.text
  BY DEF Local

LEMMA ForkedFields ==
  ASSUME LibraryTypeOK, NEW d \in Devices, NEW r \in Rows, NEW copy \in Rows,
         PushForked(d, r, copy), local[d][r].here
  PROVE  /\ copy # r /\ Unused(copy) /\ IsText(copy) /\ IsText(r)
         /\ server[r].ver > 0 /\ server' = server
         /\ local'[d][copy] \in Local
         /\ local'[d][copy].here = local[d][r].here
         /\ local'[d][copy].dirty = local[d][r].dirty
         /\ local'[d][copy].ver = 0
         /\ local'[d][copy].dead = local[d][r].dead
         /\ local'[d][copy].text = local[d][r].text
         /\ local'[d][r] \in Local
         /\ local'[d][r].here /\ ~local'[d][r].dirty
         /\ local'[d][r].ver = server[r].ver
         /\ local'[d][r].dead = server[r].dead
         /\ local'[d][r].text = server[r].text
         /\ \A e \in Devices, q \in Rows :
              ~(e = d /\ q \in {copy, r}) => local'[e][q] = local[e][q]
  <1>1. /\ Unused(copy) /\ KindOf[copy] = KindOf[r] /\ IsText(r) /\ ~Accepts(d, r)
        /\ server' = server
    BY DEF PushForked, Fresh, Forks
  <1>2. copy # r /\ IsText(copy)
    BY <1>1 DEF Unused, IsText
  <1>3. server[r].ver > 0
    BY <1>1, LocalFields DEF Accepts
  <1> DEFINE mine == local[d][r]
             theirs == server[r]
  <1>4. /\ mine \in Local
        /\ theirs \in [ver : Nat, dead : BOOLEAN, text : Texts]
    BY LocalFields
  <1>5. local' = [local EXCEPT ![d] =
          [@ EXCEPT ![copy] = [mine EXCEPT !.ver = 0], ![r] = FromServer(theirs)]]
    BY DEF PushForked
  <1> HIDE DEF mine, theirs
  <1>6. /\ local'[d][copy] = [mine EXCEPT !.ver = 0]
        /\ local'[d][r] = FromServer(theirs)
        /\ \A e \in Devices, q \in Rows :
             ~(e = d /\ q \in {copy, r}) => local'[e][q] = local[e][q]
    BY <1>2, <1>5 DEF LibraryTypeOK
  <1>7. /\ FromServer(theirs) \in Local
        /\ FromServer(theirs).here = TRUE /\ FromServer(theirs).dirty = FALSE
        /\ FromServer(theirs).ver = theirs.ver
        /\ FromServer(theirs).dead = theirs.dead
        /\ FromServer(theirs).text = theirs.text
    BY <1>4, FromServerFields
  <1>8. /\ [mine EXCEPT !.ver = 0] \in Local
        /\ [mine EXCEPT !.ver = 0].here = mine.here
        /\ [mine EXCEPT !.ver = 0].dirty = mine.dirty
        /\ [mine EXCEPT !.ver = 0].ver = 0
        /\ [mine EXCEPT !.ver = 0].dead = mine.dead
        /\ [mine EXCEPT !.ver = 0].text = mine.text
    BY <1>4, CopiedFields
  <1> QED
    BY <1>1, <1>2, <1>3, <1>6, <1>7, <1>8 DEF mine, theirs

LEMMA TookTypes ==
  ASSUME LibraryTypeOK, NEW d \in Devices, NEW r \in Rows, Took(d, r)
  PROVE  LibraryTypeOK'
  <1>1. FromServer(server[r]) \in Local
    BY LocalFields, FromServerFields
  <1>2. local' \in [Devices -> [Rows -> Local]]
    BY <1>1 DEF Took, LibraryTypeOK
  <1> QED
    BY <1>2 DEF Took, LibraryTypeOK

LEMMA AcceptedTypes ==
  ASSUME LibraryTypeOK, NEW d \in Devices, NEW r \in Rows, PushAccepted(d, r),
         UNCHANGED <<edits, typed, gone>>
  PROVE  LibraryTypeOK'
  <1>1. server' \in [Rows -> [ver : Nat, dead : BOOLEAN, text : Texts]]
    <2>1. [ver |-> server[r].ver + 1, dead |-> local[d][r].dead,
           text |-> local[d][r].text] \in [ver : Nat, dead : BOOLEAN, text : Texts]
      BY LocalFields DEF Texts
    <2> QED
      BY <2>1 DEF PushAccepted, LibraryTypeOK
  <1>2. local' \in [Devices -> [Rows -> Local]]
    <2>1. FromServer(server'[r]) \in Local
      BY AcceptedFields, FromServerFields
    <2> QED
      BY <2>1 DEF PushAccepted, LibraryTypeOK
  <1> QED
    BY <1>1, <1>2 DEF PushAccepted, LibraryTypeOK

LEMMA ForkedTypes ==
  ASSUME LibraryTypeOK, NEW d \in Devices, NEW r \in Rows, NEW copy \in Rows,
         PushForked(d, r, copy), UNCHANGED <<edits, typed, gone>>
  PROVE  LibraryTypeOK'
  <1>1. FromServer(server[r]) \in Local
    BY LocalFields, FromServerFields
  <1>2. [local[d][r] EXCEPT !.ver = 0] \in Local
    BY LocalFields, CopiedFields
  <1>3. local' \in [Devices -> [Rows -> Local]]
    BY <1>1, <1>2 DEF PushForked, LibraryTypeOK
  <1>4. raced' \subseteq Rows /\ server' = server
    BY DEF PushForked, LibraryTypeOK
  <1> QED
    BY <1>3, <1>4 DEF LibraryTypeOK

-----------------------------------------------------------------------------
(* Rows keep sound.                                                        *)

LEMMA SoundNow ==
  ASSUME RowsSound, NEW d \in Devices, NEW r \in Rows
  PROVE  Sound(d, r) /\ UpToDate(d, r) /\ GoneWhenDead(d, r) /\ TextTyped(d, r)
  BY DEF RowsSound

LEMMA MissingFields ==
  ASSUME LibraryTypeOK, RowsSound, NEW d \in Devices, NEW r \in Rows,
         ~local[d][r].here
  PROVE  /\ local[d][r].ver = 0 /\ local[d][r].text = {}
         /\ ~local[d][r].dirty /\ ~local[d][r].dead
  BY SoundNow DEF Sound, Missing

LEMMA WriteKeepsSound ==
  ASSUME LibraryTypeOK, RowsSound,
         NEW d \in Devices, NEW S \in SUBSET Rows, Write(d, S),
         \A r \in S : Unused(r) \/ Live(d, r) \/ (~IsText(r) /\ local[d][r].here)
  PROVE  RowsSound'
  <1> SUFFICES ASSUME NEW e \in Devices, NEW r \in Rows
               PROVE  (/\ Sound(e, r) /\ UpToDate(e, r)
                       /\ GoneWhenDead(e, r) /\ TextTyped(e, r))'
    BY DEF RowsSound
  <1>1. /\ Sound(e, r) /\ UpToDate(e, r) /\ GoneWhenDead(e, r) /\ TextTyped(e, r)
        /\ server'[r] = server[r] /\ gone' = gone /\ typed \subseteq typed'
    BY SoundNow DEF Write
  <1>2. CASE e = d /\ r \in S
    <2>1. /\ local'[e][r].here /\ local'[e][r].dirty
          /\ local'[e][r].ver = local[e][r].ver
          /\ local'[e][r].dead <=> local[e][r].dead
          /\ local[e][r].text \subseteq local'[e][r].text
          /\ local'[e][r].text \subseteq local[e][r].text \cup {edits + 1}
      BY <1>2, WriteFields
    <2>2. IsText(r) => edits + 1 \in typed'
      BY <1>2 DEF Write
    <2>3. /\ IsText(r) => ~local[e][r].dead
          /\ ~local[e][r].here => server[r].ver = 0
      BY <1>2, MissingFields DEF Unused, Live
    <2>4. Sound(e, r)'
      BY <1>1, <2>1 DEF Sound
    <2>5. UpToDate(e, r)'
      BY <1>1, <2>1, <2>3 DEF UpToDate
    <2>6. GoneWhenDead(e, r)'
      BY <1>1, <2>1, <2>3 DEF GoneWhenDead
    <2>7. TextTyped(e, r)'
      BY <1>1, <2>1, <2>2 DEF TextTyped
    <2> QED
      BY <2>4, <2>5, <2>6, <2>7
  <1>3. CASE ~(e = d /\ r \in S)
    <2>1. local'[e][r] = local[e][r]
      BY <1>3, WriteFields
    <2> QED
      BY <1>1, <2>1 DEF Sound, UpToDate, GoneWhenDead, TextTyped
  <1> QED
    BY <1>2, <1>3

LEMMA BuryKeepsSound ==
  ASSUME LibraryTypeOK, RowsSound,
         NEW d \in Devices, NEW S \in SUBSET Rows, Bury(d, S),
         \A r \in S : local[d][r].here
  PROVE  RowsSound'
  <1> SUFFICES ASSUME NEW e \in Devices, NEW r \in Rows
               PROVE  (/\ Sound(e, r) /\ UpToDate(e, r)
                       /\ GoneWhenDead(e, r) /\ TextTyped(e, r))'
    BY DEF RowsSound
  <1>1. /\ Sound(e, r) /\ UpToDate(e, r) /\ GoneWhenDead(e, r) /\ TextTyped(e, r)
        /\ server'[r] = server[r] /\ gone \subseteq gone' /\ typed' = typed
    BY SoundNow DEF Bury
  <1>2. CASE e = d /\ r \in S
    <2>1. /\ local'[e][r].here <=> local[e][r].here
          /\ local'[e][r].dirty
          /\ local'[e][r].ver = local[e][r].ver
          /\ local'[e][r].text = local[e][r].text
      BY <1>2, BuryFields
    <2>2. IsText(r) => local[e][r].text \subseteq gone'
      BY <1>2 DEF Bury
    <2>3. local[e][r].here
      BY <1>2
    <2>4. Sound(e, r)' /\ UpToDate(e, r)'
      BY <1>1, <2>1, <2>3 DEF Sound, UpToDate
    <2>5. GoneWhenDead(e, r)' /\ TextTyped(e, r)'
      BY <1>1, <2>1, <2>2 DEF GoneWhenDead, TextTyped
    <2> QED
      BY <2>4, <2>5
  <1>3. CASE ~(e = d /\ r \in S)
    <2>1. local'[e][r] = local[e][r]
      BY <1>3, BuryFields
    <2> QED
      BY <1>1, <2>1 DEF Sound, UpToDate, GoneWhenDead, TextTyped
  <1> QED
    BY <1>2, <1>3

LEMMA TookKeepsSound ==
  ASSUME LibraryTypeOK, RowsSound, NEW d \in Devices, NEW r \in Rows, Took(d, r)
  PROVE  RowsSound'
  <1> SUFFICES ASSUME NEW e \in Devices, NEW q \in Rows
               PROVE  (/\ Sound(e, q) /\ UpToDate(e, q)
                       /\ GoneWhenDead(e, q) /\ TextTyped(e, q))'
    BY DEF RowsSound
  <1>1. /\ Sound(e, q) /\ UpToDate(e, q) /\ GoneWhenDead(e, q) /\ TextTyped(e, q)
        /\ server[q].ver \in Nat
    BY SoundNow, LocalFields
  <1>2. server' = server /\ gone' = gone /\ typed' = typed /\ server[r].ver > 0
    BY DEF Took
  <1>3. CASE e = d /\ q = r
    BY <1>1, <1>2, <1>3, TookFields DEF Sound, UpToDate, GoneWhenDead, TextTyped
  <1>4. CASE ~(e = d /\ q = r)
    <2>1. local'[e][q] = local[e][q]
      BY <1>4, TookFields
    <2> QED
      BY <1>1, <1>2, <2>1 DEF Sound, UpToDate, GoneWhenDead, TextTyped
  <1> QED
    BY <1>3, <1>4

LEMMA AcceptedKeepsSound ==
  ASSUME LibraryTypeOK, RowsSound, NEW d \in Devices, NEW r \in Rows,
         PushAccepted(d, r), UNCHANGED <<edits, typed, gone>>
  PROVE  RowsSound'
  <1> SUFFICES ASSUME NEW e \in Devices, NEW q \in Rows
               PROVE  (/\ Sound(e, q) /\ UpToDate(e, q)
                       /\ GoneWhenDead(e, q) /\ TextTyped(e, q))'
    BY DEF RowsSound
  <1>1. /\ Sound(e, q) /\ UpToDate(e, q) /\ GoneWhenDead(e, q) /\ TextTyped(e, q)
        /\ GoneWhenDead(d, q) /\ TextTyped(d, q)
        /\ server[q].ver \in Nat /\ local[e][q].ver \in Nat
    BY SoundNow, LocalFields
  <1>2. CASE e = d /\ q = r
    BY <1>1, <1>2, AcceptedFields DEF Sound, UpToDate, GoneWhenDead, TextTyped
  <1>3. CASE q # r
    <2>1. local'[e][q] = local[e][q] /\ server'[q] = server[q]
      BY <1>3, AcceptedFields
    <2> QED
      BY <1>1, <2>1 DEF Sound, UpToDate, GoneWhenDead, TextTyped
  <1>4. CASE e # d /\ q = r
    <2>1. local'[e][q] = local[e][q]
      BY <1>4, AcceptedFields
    <2>2. /\ server'[q].ver = server[q].ver + 1
          /\ server'[q].dead = local[d][q].dead /\ server'[q].text = local[d][q].text
      BY <1>4, AcceptedFields
    <2>3. Sound(e, q)'
      BY <1>1, <2>1, <2>2 DEF Sound
    <2>4. UpToDate(e, q)'
      BY <1>1, <2>1, <2>2 DEF UpToDate, Sound
    <2>5. GoneWhenDead(e, q)' /\ TextTyped(e, q)'
      BY <1>1, <2>1, <2>2 DEF GoneWhenDead, TextTyped
    <2> QED
      BY <2>3, <2>4, <2>5
  <1> QED
    BY <1>2, <1>3, <1>4

LEMMA ForkedKeepsSound ==
  ASSUME LibraryTypeOK, RowsSound, NEW d \in Devices, NEW r \in Rows,
         NEW copy \in Rows, PushForked(d, r, copy), local[d][r].dirty,
         UNCHANGED <<edits, typed, gone>>
  PROVE  RowsSound'
  <1> SUFFICES ASSUME NEW e \in Devices, NEW q \in Rows
               PROVE  (/\ Sound(e, q) /\ UpToDate(e, q)
                       /\ GoneWhenDead(e, q) /\ TextTyped(e, q))'
    BY DEF RowsSound
  <1>0. local[d][r].here
    BY MissingFields
  <1>1. /\ Sound(e, q) /\ UpToDate(e, q) /\ GoneWhenDead(e, q) /\ TextTyped(e, q)
        /\ GoneWhenDead(d, r) /\ TextTyped(d, r)
        /\ server[q].ver \in Nat
    BY SoundNow, LocalFields
  <1>2. server' = server
    BY <1>0, ForkedFields
  <1>3. CASE e = d /\ q = r
    <2>1. /\ local'[e][q].here /\ ~local'[e][q].dirty
          /\ local'[e][q].ver = server[q].ver
          /\ local'[e][q].dead = server[q].dead
          /\ local'[e][q].text = server[q].text
          /\ server[q].ver > 0
      BY <1>0, <1>3, ForkedFields
    <2> QED
      BY <1>1, <1>2, <2>1 DEF Sound, UpToDate, GoneWhenDead, TextTyped
  <1>4. CASE e = d /\ q = copy
    <2>1. /\ local'[e][q].here /\ local'[e][q].dirty /\ local'[e][q].ver = 0
          /\ local'[e][q].dead = local[d][r].dead
          /\ local'[e][q].text = local[d][r].text
          /\ IsText(q) /\ IsText(r) /\ Unused(q)
      BY <1>0, <1>4, ForkedFields
    <2>2. server[q].ver = 0
      BY <2>1 DEF Unused
    <2> QED
      BY <1>1, <1>2, <2>1, <2>2 DEF Sound, UpToDate, GoneWhenDead, TextTyped
  <1>5. CASE ~(e = d /\ q \in {copy, r})
    <2>1. local'[e][q] = local[e][q]
      BY <1>0, <1>5, ForkedFields
    <2> QED
      BY <1>1, <1>2, <2>1 DEF Sound, UpToDate, GoneWhenDead, TextTyped
  <1> QED
    BY <1>3, <1>4, <1>5

LEMMA PushKeepsRows ==
  ASSUME LibraryTypeOK, RowsSound, NEW d \in Devices, NEW r \in Rows, PushRow(d, r)
  PROVE  LibraryTypeOK' /\ RowsSound'
  <1>1. CASE PushAccepted(d, r)
    BY <1>1, PushShapes, AcceptedTypes, AcceptedKeepsSound
  <1>2. CASE Took(d, r)
    BY <1>2, TookTypes, TookKeepsSound
  <1>3. CASE \E copy \in Rows : PushForked(d, r, copy)
    BY <1>3, PushShapes, ForkedTypes, ForkedKeepsSound
  <1> QED
    BY <1>1, <1>2, <1>3, PushShapes

-----------------------------------------------------------------------------
(* Every operation writes or buries a set of rows; the rest is syncing.    *)

\* What an operation writes is new or alive, or a class; what it deletes is there.
Writes(d, S) ==
  /\ Write(d, S)
  /\ \A r \in S : Unused(r) \/ Live(d, r) \/ (~IsText(r) /\ local[d][r].here)
Buries(d, S) == Bury(d, S) /\ \A r \in S : local[d][r].here

LEMMA CascadeIsHere ==
  ASSUME NEW d \in Devices, NEW c \in Rows, local[d][c].here
  PROVE  /\ Cascade(d, c) \subseteq Rows
         /\ \A r \in Cascade(d, c) : local[d][r].here
  BY DEF Cascade, Notebooks, Live

LEMMA UpdateWrites ==
  ASSUME NEW d \in Devices, NEW r \in Rows, Update(d, r)
  PROVE  /\ Writes(d, {r}) /\ local[d][r].here
         /\ raced' = IF Knows(d, r) THEN raced ELSE raced \cup {r}
  BY DEF Update, Writes, Live, IsText

LEMMA StepShapes ==
  ASSUME LibraryTypeOK, LibraryNext
  PROVE  \E d \in Devices :
           \/ \E r \in Rows : PushRow(d, r) \/ PullRow(d, r)
           \/ \E S \in SUBSET Rows :
                /\ Writes(d, S) \/ Buries(d, S)
                /\ raced \subseteq raced' /\ raced' \subseteq Rows
  <1> DEFINE Rest == raced \subseteq raced' /\ raced' \subseteq Rows
             Shaped(d) == \E S \in SUBSET Rows :
                            (Writes(d, S) \/ Buries(d, S)) /\ Rest
  <1>0. raced \subseteq Rows
    BY DEF LibraryTypeOK
  <1>1. ASSUME NEW d \in Devices, NEW r \in Rows, CreateText(d, r)
        PROVE  Shaped(d)
    <2>1. Writes(d, {r}) /\ Rest
      BY <1>0, <1>1 DEF CreateText, Writes, Fresh
    <2> QED
      BY <2>1
  <1>2. ASSUME NEW d \in Devices, NEW r \in Rows, CreateDeadline(d, r)
        PROVE  Shaped(d)
    <2>1. Writes(d, {r}) /\ Rest
      BY <1>0, <1>2 DEF CreateDeadline, Writes
    <2> QED
      BY <2>1
  <1>3. ASSUME NEW d \in Devices, NEW r \in Rows, Update(d, r)
        PROVE  Shaped(d)
    <2>1. Writes(d, {r}) /\ Rest
      BY <1>0, <1>3, UpdateWrites
    <2> QED
      BY <2>1
  <1>4. ASSUME NEW d \in Devices, NEW r \in Rows, Delete(d, r)
        PROVE  Shaped(d)
    <2>1. Buries(d, {r}) /\ Rest
      BY <1>0, <1>4 DEF Delete, Buries
    <2> QED
      BY <2>1
  <1>5. ASSUME NEW d \in Devices, NEW c \in Rows, Destroy(d, c)
        PROVE  Shaped(d)
    <2>1. /\ Bury(d, Cascade(d, c)) /\ local[d][c].here
          /\ raced' = raced \cup {r \in Under(c) : ~Knows(d, r)}
      BY <1>5 DEF Destroy
    <2>2. Under(c) \subseteq Rows
      BY DEF Under
    <2>3. Buries(d, Cascade(d, c)) /\ Cascade(d, c) \subseteq Rows
      BY <2>1, CascadeIsHere DEF Buries
    <2>4. Rest
      BY <1>0, <2>1, <2>2
    <2> QED
      BY <2>3, <2>4
  <1>6. ASSUME NEW d \in Devices, NEW c \in Rows, CreateClass(d, c)
        PROVE  Shaped(d)
    <2>1. PICK g \in Rows : Unused(g) /\ Write(d, {c, g})
      BY <1>6 DEF CreateClass
    <2>2. Writes(d, {c, g}) /\ Rest
      BY <1>0, <1>6, <2>1 DEF CreateClass, Writes
    <2> QED
      BY <2>2
  <1>7. ASSUME NEW d \in Devices, NEW b \in Rows, CreateCollegebook(d, b)
        PROVE  Shaped(d)
    <2>1. PICK p \in Rows :
            /\ Unused(p) /\ Write(d, {b, p})
            /\ raced' = IF Informed(d, In[b]) THEN raced ELSE raced \cup {b, p}
      BY <1>7 DEF CreateCollegebook, Fresh
    <2>2. Writes(d, {b, p}) /\ Rest
      BY <1>0, <1>7, <2>1 DEF CreateCollegebook, Writes
    <2> QED
      BY <2>2
  <1> HIDE DEF Rest
  <1>8. \E d \in Devices :
          (\E r \in Rows : PushRow(d, r) \/ PullRow(d, r)) \/ Shaped(d)
    BY <1>1, <1>2, <1>3, <1>4, <1>5, <1>6, <1>7, Zenon DEF LibraryNext
  <1> QED
    BY <1>8 DEF Rest

\* The rows are sound in every state, and all variables keep their types.
RowsInv == LibraryTypeOK /\ RowsSound

LEMMA HeldFields ==
  /\ [Missing EXCEPT !.here = TRUE, !.ver = 1] \in Local
  /\ [Missing EXCEPT !.here = TRUE, !.ver = 1].here = TRUE
  /\ [Missing EXCEPT !.here = TRUE, !.ver = 1].dirty = FALSE
  /\ [Missing EXCEPT !.here = TRUE, !.ver = 1].ver = 1
  /\ [Missing EXCEPT !.here = TRUE, !.ver = 1].dead = FALSE
  /\ [Missing EXCEPT !.here = TRUE, !.ver = 1].text = {}
  <1> DEFINE m == [Missing EXCEPT !.here = TRUE]
  <1>1. /\ m \in Local /\ m.here = TRUE /\ m.dirty = FALSE /\ m.dead = FALSE
        /\ m.text = {}
    BY DEF Missing, Local, Texts
  <1>2. [Missing EXCEPT !.here = TRUE, !.ver = 1] = [m EXCEPT !.ver = 1]
    OBVIOUS
  <1> HIDE DEF m
  <1> QED
    BY <1>1, <1>2 DEF Local

LEMMA RowsInit == LibraryInit => RowsInv
  <1> SUFFICES ASSUME LibraryInit
               PROVE  RowsInv
    OBVIOUS
  <1>1. Missing \in Local /\ [Missing EXCEPT !.here = TRUE, !.ver = 1] \in Local
    BY HeldFields DEF Missing, Local, Texts
  <1>2. LibraryTypeOK
    <2>1. local \in [Devices -> [Rows -> Local]]
      BY <1>1 DEF LibraryInit
    <2>2. server \in [Rows -> [ver : Nat, dead : BOOLEAN, text : Texts]]
      BY DEF LibraryInit, Texts
    <2>3. /\ edits \in 0..MaxEdits
          /\ raced \subseteq Rows /\ typed \subseteq 1..edits /\ gone \subseteq typed
      BY LibraryAssumption DEF LibraryInit
    <2> QED
      BY <2>1, <2>2, <2>3 DEF LibraryTypeOK
  <1>3. RowsSound
    <2> SUFFICES ASSUME NEW d \in Devices, NEW r \in Rows
                 PROVE  /\ Sound(d, r) /\ UpToDate(d, r)
                        /\ GoneWhenDead(d, r) /\ TextTyped(d, r)
      BY DEF RowsSound
    <2>1. CASE r \in Held
      <3>1. /\ local[d][r] = [Missing EXCEPT !.here = TRUE, !.ver = 1]
            /\ server[r] = [ver |-> 1, dead |-> FALSE, text |-> {}]
        BY <2>1 DEF LibraryInit
      <3>2. /\ local[d][r].here = TRUE /\ local[d][r].dirty = FALSE
            /\ local[d][r].ver = 1 /\ local[d][r].dead = FALSE
            /\ local[d][r].text = {}
        BY <3>1, HeldFields
      <3>3. server[r].ver = 1 /\ server[r].dead = FALSE /\ server[r].text = {}
        BY <3>1
      <3> QED
        BY <3>2, <3>3 DEF Sound, UpToDate, GoneWhenDead, TextTyped
    <2>2. CASE r \notin Held
      <3>1. /\ local[d][r] = Missing
            /\ server[r] = [ver |-> 0, dead |-> FALSE, text |-> {}]
        BY <2>2 DEF LibraryInit
      <3> QED
        BY <3>1 DEF Sound, UpToDate, GoneWhenDead, TextTyped, Missing
    <2> QED
      BY <2>1, <2>2
  <1> QED
    BY <1>2, <1>3 DEF RowsInv

LEMMA RowsStep == RowsInv /\ [LibraryNext]_vars => RowsInv'
  <1> SUFFICES ASSUME RowsInv, [LibraryNext]_vars
               PROVE  RowsInv'
    OBVIOUS
  <1>0. LibraryTypeOK /\ RowsSound
    BY DEF RowsInv
  <1>1. CASE UNCHANGED vars
    BY <1>0, <1>1 DEF RowsInv, vars, LibraryTypeOK, RowsSound, Sound, UpToDate,
       GoneWhenDead, TextTyped
  <1>2. ASSUME NEW d \in Devices, NEW r \in Rows, PushRow(d, r)
        PROVE  RowsInv'
    BY <1>0, <1>2, PushKeepsRows DEF RowsInv
  <1>3. ASSUME NEW d \in Devices, NEW r \in Rows, PullRow(d, r)
        PROVE  RowsInv'
    BY <1>0, <1>3, PullShape, TookTypes, TookKeepsSound DEF RowsInv
  <1>4. ASSUME NEW d \in Devices, NEW S \in SUBSET Rows, Writes(d, S),
               raced' \subseteq Rows
        PROVE  RowsInv'
    BY <1>0, <1>4, WriteTypes, WriteKeepsSound DEF RowsInv, Writes
  <1>5. ASSUME NEW d \in Devices, NEW S \in SUBSET Rows, Buries(d, S),
               raced' \subseteq Rows
        PROVE  RowsInv'
    BY <1>0, <1>5, BuryTypes, BuryKeepsSound DEF RowsInv, Buries
  <1> QED
    BY <1>0, <1>1, <1>2, <1>3, <1>4, <1>5, StepShapes

LEMMA RowsInvariant == LibrarySpec => []RowsInv
  BY RowsInit, RowsStep, PTL DEF LibrarySpec

\* Every variable of the library keeps its type: a row is one of the rows, its
\* version a number, its text made of edits that were made (db/local.ts).
THEOREM LibraryTypeCorrect == LibrarySpec => []LibraryTypeOK
  BY RowsInvariant, PTL DEF RowsInv

-----------------------------------------------------------------------------
(* What a deletion takes.                                                  *)

\* Edit e is in a live note of the server, or in one that is to be sent there.
OnServer(e, r) == IsText(r) /\ ~server[r].dead /\ e \in server[r].text
OnDevice(e, d, r) ==
  IsText(r) /\ Live(d, r) /\ local[d][r].dirty /\ e \in local[d][r].text

LEMMA KeptForm ==
  DeletionTakesOnlyWhatItSaw <=>
    \A e \in typed \ gone : \/ \E r \in Rows : OnServer(e, r)
                            \/ \E d \in Devices, r \in Rows : OnDevice(e, d, r)
  BY DEF DeletionTakesOnlyWhatItSaw, OnServer, OnDevice

LEMMA WriteTakesNothing ==
  ASSUME RowsInv, DeletionTakesOnlyWhatItSaw,
         NEW d \in Devices, NEW S \in SUBSET Rows, Writes(d, S)
  PROVE  DeletionTakesOnlyWhatItSaw'
  <1>0. LibraryTypeOK /\ RowsSound /\ Write(d, S) /\ gone' = gone
    BY DEF RowsInv, Writes, Write
  <1> SUFFICES ASSUME NEW e \in typed' \ gone'
               PROVE  \/ \E r \in Rows : OnServer(e, r)'
                      \/ \E f \in Devices, r \in Rows : OnDevice(e, f, r)'
    BY DEF DeletionTakesOnlyWhatItSaw, OnServer, OnDevice
  <1>1. CASE e \in typed
    <2>1. CASE \E r \in Rows : OnServer(e, r)
      <3>1. PICK r \in Rows : OnServer(e, r)
        BY <2>1
      <3>2. server' = server
        BY <1>0 DEF Write
      <3> QED
        BY <3>1, <3>2 DEF OnServer
    <2>2. CASE \E f \in Devices, r \in Rows : OnDevice(e, f, r)
      <3>1. PICK f \in Devices, r \in Rows : OnDevice(e, f, r)
        BY <2>2
      <3>2. OnDevice(e, f, r)'
        BY <1>0, <3>1, WriteFields DEF OnDevice, Live
      <3> QED
        BY <3>2
    <2> QED
      BY <1>0, <1>1, <2>1, <2>2, KeptForm
  <1>2. CASE e \notin typed
    <2>1. e = edits + 1 /\ \E r \in S : IsText(r)
      BY <1>0, <1>2 DEF Write
    <2>2. PICK r \in S : IsText(r)
      BY <2>1
    <2>3. Unused(r) \/ Live(d, r)
      BY <2>2 DEF Writes
    <2>4. ~local[d][r].dead
      BY <1>0, <2>2, <2>3, MissingFields DEF Unused, Live
    <2>5. OnDevice(e, d, r)'
      BY <1>0, <2>1, <2>2, <2>4, WriteFields DEF OnDevice, Live
    <2> QED
      BY <2>5
  <1> QED
    BY <1>1, <1>2

LEMMA BuryTakesOnlySeen ==
  ASSUME RowsInv, DeletionTakesOnlyWhatItSaw,
         NEW d \in Devices, NEW S \in SUBSET Rows, Buries(d, S)
  PROVE  DeletionTakesOnlyWhatItSaw'
  <1>0. LibraryTypeOK /\ RowsSound /\ Bury(d, S) /\ typed' = typed /\ server' = server
    BY DEF RowsInv, Buries, Bury
  <1> SUFFICES ASSUME NEW e \in typed' \ gone'
               PROVE  \/ \E r \in Rows : OnServer(e, r)'
                      \/ \E f \in Devices, r \in Rows : OnDevice(e, f, r)'
    BY DEF DeletionTakesOnlyWhatItSaw, OnServer, OnDevice
  <1>1. e \in typed \ gone
    BY <1>0 DEF Bury
  <1>2. CASE \E r \in Rows : OnServer(e, r)
    BY <1>0, <1>2 DEF OnServer
  <1>3. CASE \E f \in Devices, r \in Rows : OnDevice(e, f, r)
    <2>1. PICK f \in Devices, r \in Rows : OnDevice(e, f, r)
      BY <1>3
    <2>2. ~(f = d /\ r \in S)
      BY <1>0, <2>1 DEF OnDevice, Bury
    <2>3. local'[f][r] = local[f][r]
      BY <1>0, <2>2, BuryFields
    <2> QED
      BY <2>1, <2>3 DEF OnDevice, Live
  <1> QED
    BY <1>1, <1>2, <1>3, KeptForm

\* A row that takes the server's copy had nothing to send, or is no note.
LEMMA TookTakesNothing ==
  ASSUME RowsInv, DeletionTakesOnlyWhatItSaw, NEW d \in Devices, NEW r \in Rows,
         Took(d, r), ~local[d][r].dirty \/ ~IsText(r)
  PROVE  DeletionTakesOnlyWhatItSaw'
  <1>0. /\ LibraryTypeOK /\ server' = server /\ typed' = typed /\ gone' = gone
    BY DEF RowsInv, Took
  <1> SUFFICES ASSUME NEW e \in typed' \ gone'
               PROVE  \/ \E q \in Rows : OnServer(e, q)'
                      \/ \E f \in Devices, q \in Rows : OnDevice(e, f, q)'
    BY DEF DeletionTakesOnlyWhatItSaw, OnServer, OnDevice
  <1>1. CASE \E q \in Rows : OnServer(e, q)
    BY <1>0, <1>1 DEF OnServer
  <1>2. CASE \E f \in Devices, q \in Rows : OnDevice(e, f, q)
    <2>1. PICK f \in Devices, q \in Rows : OnDevice(e, f, q)
      BY <1>2
    <2>2. ~(f = d /\ q = r)
      BY <2>1 DEF OnDevice
    <2>3. local'[f][q] = local[f][q]
      BY <1>0, <2>2, TookFields
    <2> QED
      BY <2>1, <2>3 DEF OnDevice, Live
  <1> QED
    BY <1>0, <1>1, <1>2, KeptForm

\* An accepted row has the text of the version it replaces.
LEMMA AcceptedTakesNothing ==
  ASSUME RowsInv, DeletionTakesOnlyWhatItSaw, NEW d \in Devices, NEW r \in Rows,
         local[d][r].dirty, PushAccepted(d, r), UNCHANGED <<edits, typed, gone>>
  PROVE  DeletionTakesOnlyWhatItSaw'
  <1>0. LibraryTypeOK /\ RowsSound
    BY DEF RowsInv
  <1> SUFFICES ASSUME NEW e \in typed' \ gone'
               PROVE  \/ \E q \in Rows : OnServer(e, q)'
                      \/ \E f \in Devices, q \in Rows : OnDevice(e, f, q)'
    BY DEF DeletionTakesOnlyWhatItSaw, OnServer, OnDevice
  <1>1. CASE \E q \in Rows : OnServer(e, q)
    <2>1. PICK q \in Rows : OnServer(e, q)
      BY <1>1
    <2>2. CASE q = r
      <3>1. /\ server'[r].dead = local[d][r].dead
            /\ server'[r].text = local[d][r].text
        BY <1>0, AcceptedFields
      <3>2. server[r].ver # 0 /\ server[r].ver \in Nat
        BY <1>0, <2>1, <2>2, SoundNow, LocalFields DEF Sound, OnServer
      <3>3. local[d][r].here /\ server[r].ver = local[d][r].ver
        BY <1>0, <3>2, MissingFields DEF PushAccepted, Accepts
      <3>4. e \in local[d][r].text
        BY <1>0, <2>1, <2>2, <3>2, <3>3, SoundNow DEF UpToDate, OnServer
      <3>5. ~local[d][r].dead
        BY <1>0, <2>1, <2>2, <3>4, SoundNow DEF GoneWhenDead, OnServer
      <3> QED
        BY <2>1, <2>2, <3>1, <3>4, <3>5 DEF OnServer
    <2>3. CASE q # r
      <3>1. server'[q] = server[q]
        BY <1>0, <2>3, AcceptedFields
      <3> QED
        BY <2>1, <3>1 DEF OnServer
    <2> QED
      BY <2>2, <2>3
  <1>2. CASE \E f \in Devices, q \in Rows : OnDevice(e, f, q)
    <2>1. PICK f \in Devices, q \in Rows : OnDevice(e, f, q)
      BY <1>2
    <2>2. CASE f = d /\ q = r
      <3>1. /\ server'[r].dead = local[d][r].dead
            /\ server'[r].text = local[d][r].text
        BY <1>0, AcceptedFields
      <3> QED
        BY <2>1, <2>2, <3>1 DEF OnServer, OnDevice, Live
    <2>3. CASE ~(f = d /\ q = r)
      <3>1. local'[f][q] = local[f][q]
        BY <1>0, <2>3, AcceptedFields
      <3> QED
        BY <2>1, <3>1 DEF OnDevice, Live
    <2> QED
      BY <2>2, <2>3
  <1> QED
    BY <1>1, <1>2, KeptForm

\* A note in conflict is copied with its text.
LEMMA ForkedTakesNothing ==
  ASSUME RowsInv, DeletionTakesOnlyWhatItSaw, NEW d \in Devices, NEW r \in Rows,
         NEW copy \in Rows, local[d][r].dirty, PushForked(d, r, copy),
         UNCHANGED <<edits, typed, gone>>
  PROVE  DeletionTakesOnlyWhatItSaw'
  <1>0. LibraryTypeOK /\ RowsSound /\ local[d][r].here
    BY MissingFields DEF RowsInv
  <1> SUFFICES ASSUME NEW e \in typed' \ gone'
               PROVE  \/ \E q \in Rows : OnServer(e, q)'
                      \/ \E f \in Devices, q \in Rows : OnDevice(e, f, q)'
    BY DEF DeletionTakesOnlyWhatItSaw, OnServer, OnDevice
  <1>1. CASE \E q \in Rows : OnServer(e, q)
    <2>1. server' = server
      BY <1>0, ForkedFields
    <2> QED
      BY <1>1, <2>1 DEF OnServer
  <1>2. CASE \E f \in Devices, q \in Rows : OnDevice(e, f, q)
    <2>1. PICK f \in Devices, q \in Rows : OnDevice(e, f, q)
      BY <1>2
    <2>2. CASE f = d /\ q = r
      <3>1. /\ local'[d][copy].here /\ local'[d][copy].dirty
            /\ local'[d][copy].dead = local[d][r].dead
            /\ local'[d][copy].text = local[d][r].text
            /\ IsText(copy)
        BY <1>0, ForkedFields
      <3>2. OnDevice(e, d, copy)'
        BY <2>1, <2>2, <3>1 DEF OnDevice, Live
      <3> QED
        BY <3>2
    <2>3. CASE ~(f = d /\ q = r)
      <3>1. ~(f = d /\ q = copy)
        BY <1>0, <2>1, ForkedFields DEF OnDevice, Live, Unused
      <3>2. local'[f][q] = local[f][q]
        BY <1>0, <2>3, <3>1, ForkedFields
      <3> QED
        BY <2>1, <3>2 DEF OnDevice, Live
    <2> QED
      BY <2>2, <2>3
  <1> QED
    BY <1>1, <1>2, KeptForm

\* Deleting a note, or the class around it, takes the text its deleter could
\* see; everything else that was typed stays in a live note, however cascades,
\* edits, pushed and pulled rows of any number of devices interleave
\* (db/classes.ts, sync/push.ts).
THEOREM DeletionIsInformed == LibrarySpec => []DeletionTakesOnlyWhatItSaw
  <1>1. LibraryInit => DeletionTakesOnlyWhatItSaw
    BY DEF LibraryInit, DeletionTakesOnlyWhatItSaw
  <1>2. RowsInv /\ DeletionTakesOnlyWhatItSaw /\ [LibraryNext]_vars =>
          DeletionTakesOnlyWhatItSaw'
    <2> SUFFICES ASSUME RowsInv, DeletionTakesOnlyWhatItSaw, [LibraryNext]_vars
                 PROVE  DeletionTakesOnlyWhatItSaw'
      OBVIOUS
    <2>1. CASE UNCHANGED vars
      BY <2>1 DEF vars, DeletionTakesOnlyWhatItSaw, Live
    <2>2. ASSUME NEW d \in Devices, NEW r \in Rows, PushRow(d, r)
          PROVE  DeletionTakesOnlyWhatItSaw'
      <3>1. /\ LibraryTypeOK /\ local[d][r].dirty /\ UNCHANGED <<edits, typed, gone>>
            /\ \/ PushAccepted(d, r)
               \/ Took(d, r) /\ ~IsText(r)
               \/ \E copy \in Rows : PushForked(d, r, copy)
        BY <2>2, PushShapes DEF RowsInv
      <3> QED
        BY <3>1, AcceptedTakesNothing, TookTakesNothing, ForkedTakesNothing
    <2>3. ASSUME NEW d \in Devices, NEW r \in Rows, PullRow(d, r)
          PROVE  DeletionTakesOnlyWhatItSaw'
      BY <2>3, PullShape, TookTakesNothing DEF RowsInv
    <2> QED
      BY <2>1, <2>2, <2>3, StepShapes, WriteTakesNothing, BuryTakesOnlySeen
      DEF RowsInv
  <1> QED
    BY <1>1, <1>2, RowsInvariant, PTL DEF LibrarySpec

-----------------------------------------------------------------------------
(* What a device that knows a row can tell.                                *)

LEMMA FreshRows ==
  ASSUME RowsInv, NEW d \in Devices, NEW r \in Rows, Unused(r)
  PROVE  /\ ~Dead(r) /\ Knows(d, r)
         /\ ~local[d][r].here /\ ~local[d][r].dead /\ ~local[d][r].dirty
  <1>1. LibraryTypeOK /\ RowsSound /\ server[r].ver = 0
    BY DEF RowsInv, Unused
  <1>2. \A e \in Devices : /\ ~local[e][r].dead /\ ~local[e][r].dirty
                           /\ local[e][r].ver = 0 /\ ~local[e][r].here
    BY <1>1, MissingFields DEF Unused
  <1>3. ~server[r].dead
    BY <1>1, SoundNow DEF Sound
  <1> QED
    BY <1>1, <1>2, <1>3 DEF Dead, Knows

\* Of a row nobody raced for, such a device has all that was done to it.
LEMMA KnownRows ==
  ASSUME RowsInv, UnracedRows, NEW d \in Devices, NEW r \in Rows \ raced,
         Knows(d, r)
  PROVE  /\ Dead(r) <=> local[d][r].dead
         /\ Unused(r) <=> ~local[d][r].here
  <1>1. LibraryTypeOK /\ RowsSound /\ (\A e \in Devices : OneWriter(e, r))
    BY DEF RowsInv, UnracedRows
  <1>2. server[r].dead => local[d][r].dead
    BY <1>1 DEF OneWriter, Knows
  <1>3. \A e \in Devices : local[e][r].dead => local[d][r].dead
    BY <1>1, <1>2 DEF OneWriter, Knows
  <1>4. ~local[d][r].here => server[r].ver = 0
    BY <1>1, MissingFields DEF Knows
  <1>5. \A e \in Devices : ~local[d][r].here => ~local[e][r].here
    <2> SUFFICES ASSUME NEW e \in Devices, e # d, ~local[d][r].here, local[e][r].here
                 PROVE  FALSE
      OBVIOUS
    <2>1. ~local[e][r].dirty /\ server[r].ver = 0
      BY <1>4 DEF Knows
    <2> QED
      BY <1>1, <2>1, SoundNow, LocalFields DEF Sound
  <1> QED
    BY <1>1, <1>2, <1>3, <1>4, <1>5, LocalFields DEF Dead, Unused

\* What one device's writing or deleting does to the latest state of a row.
LEMMA WriteChanges ==
  ASSUME RowsInv, NEW d \in Devices, NEW S \in SUBSET Rows, Writes(d, S),
         NEW r \in Rows
  PROVE  /\ Unused(r)' <=> Unused(r) /\ r \notin S
         /\ Dead(r)' <=> Dead(r)
  <1>1. LibraryTypeOK /\ Write(d, S)
    BY DEF RowsInv, Writes
  <1>2. server'[r] = server[r]
    BY <1>1, WriteFields
  <1>3. \A e \in Devices :
          /\ local'[e][r].here <=> local[e][r].here \/ (e = d /\ r \in S)
          /\ local'[e][r].dead <=> local[e][r].dead
    BY <1>1, WriteFields
  <1> QED
    BY <1>2, <1>3 DEF Unused, Dead

LEMMA BuryChanges ==
  ASSUME RowsInv, NEW d \in Devices, NEW S \in SUBSET Rows, Buries(d, S),
         NEW r \in Rows
  PROVE  /\ Unused(r)' <=> Unused(r)
         /\ Dead(r)' <=> Dead(r) \/ r \in S
  <1>1. LibraryTypeOK /\ Bury(d, S)
    BY DEF RowsInv, Buries
  <1>2. server'[r] = server[r]
    BY <1>1, BuryFields
  <1>3. \A e \in Devices :
          /\ local'[e][r].here <=> local[e][r].here
          /\ local'[e][r].dead <=> local[e][r].dead \/ (e = d /\ r \in S)
    BY <1>1, BuryFields
  <1> QED
    BY <1>2, <1>3 DEF Unused, Dead

-----------------------------------------------------------------------------
(* One writer at a time.                                                   *)

LEMMA WriteKeepsOneWriter ==
  ASSUME RowsInv, UnracedRows,
         NEW d \in Devices, NEW S \in SUBSET Rows, Writes(d, S) \/ Buries(d, S),
         raced \subseteq raced', \A r \in S \ raced' : Knows(d, r)
  PROVE  UnracedRows'
  <1> SUFFICES ASSUME NEW e \in Devices, NEW r \in Rows \ raced'
               PROVE  OneWriter(e, r)'
    BY DEF UnracedRows
  <1>0. /\ LibraryTypeOK /\ (Write(d, S) \/ Bury(d, S))
        /\ \A f \in Devices : OneWriter(f, r)
    BY DEF RowsInv, Writes, Buries, UnracedRows
  <1>1. \A f \in Devices :
          /\ local'[f][r].dirty <=> local[f][r].dirty \/ (f = d /\ r \in S)
          /\ local'[f][r].ver = local[f][r].ver
          /\ local[f][r].dead => local'[f][r].dead
          /\ ~(f = d /\ r \in S) => local'[f][r] = local[f][r]
          /\ server'[r] = server[r]
    BY <1>0, WriteFields, BuryFields
  <1>2. r \in S => Knows(d, r)
    OBVIOUS
  <1>3. CASE e = d /\ r \in S
    BY <1>0, <1>1, <1>2, <1>3 DEF OneWriter, Knows
  <1>4. CASE ~(e = d /\ r \in S)
    BY <1>0, <1>1, <1>2, <1>4 DEF OneWriter, Knows
  <1> QED
    BY <1>3, <1>4

-----------------------------------------------------------------------------
(* A row and its container.                                                *)

\* What is created without a race is in a container its creator knows to be
\* alive, or comes with it; a class comes with its general notebook.
Enters(d, S) ==
  \A r \in Rows \ raced' : In[r] \in Rows \ raced' =>
    /\ r \in S /\ Unused(r) =>
         (In[r] \in S /\ Unused(In[r])) \/ Informed(d, In[r])
    /\ KindOf[r] = "general" /\ In[r] \in S /\ Unused(In[r]) =>
         r \in S /\ Unused(r)

\* What goes without a race takes all that is in it, which its deleter knows;
\* a general notebook only goes with its class.
Leaves(d, S) ==
  \A r \in Rows \ raced' : In[r] \in Rows \ raced' =>
    /\ In[r] \in S => Knows(d, r) /\ (Live(d, r) => r \in S)
    /\ KindOf[r] = "general" /\ r \in S => In[r] \in S

LEMMA WriteKeepsPairs ==
  ASSUME RowsInv, UnracedRows, UnracedPairs,
         NEW d \in Devices, NEW S \in SUBSET Rows, Writes(d, S),
         raced \subseteq raced', Enters(d, S)
  PROVE  UnracedPairs'
  <1> SUFFICES ASSUME NEW r \in Rows \ raced', In[r] \in Rows \ raced'
               PROVE  LatestTogether(r, In[r])'
    BY DEF UnracedPairs
  <1> DEFINE c == In[r]
  <1>1. LatestTogether(r, c)
    BY DEF UnracedPairs
  <1>2. /\ r \in S /\ Unused(r) => (c \in S /\ Unused(c)) \/ Informed(d, c)
        /\ KindOf[r] = "general" /\ c \in S /\ Unused(c) => r \in S /\ Unused(r)
    BY DEF Enters
  <1>3. r \in Rows \ raced /\ c \in Rows \ raced
    OBVIOUS
  <1> HIDE DEF c
  <1>4. /\ Unused(r) => ~Dead(r)
        /\ Unused(c) => ~Dead(c)
        /\ Informed(d, c) => ~Dead(c) /\ ~Unused(c)
    BY <1>3, FreshRows, KnownRows DEF Informed, Live
  <1>5. /\ Unused(r)' <=> Unused(r) /\ r \notin S
        /\ Unused(c)' <=> Unused(c) /\ c \notin S
        /\ Dead(r)' <=> Dead(r)
        /\ Dead(c)' <=> Dead(c)
    BY <1>3, WriteChanges
  <1>6. LatestTogether(r, c)'
    BY <1>1, <1>2, <1>4, <1>5 DEF LatestTogether
  <1> QED
    BY <1>6 DEF c

LEMMA BuryKeepsPairs ==
  ASSUME RowsInv, UnracedRows, UnracedPairs,
         NEW d \in Devices, NEW S \in SUBSET Rows, Buries(d, S),
         raced \subseteq raced', Leaves(d, S)
  PROVE  UnracedPairs'
  <1> SUFFICES ASSUME NEW r \in Rows \ raced', In[r] \in Rows \ raced'
               PROVE  LatestTogether(r, In[r])'
    BY DEF UnracedPairs
  <1> DEFINE c == In[r]
  <1>1. LatestTogether(r, c)
    BY DEF UnracedPairs
  <1>2. /\ c \in S => Knows(d, r) /\ (Live(d, r) => r \in S)
        /\ KindOf[r] = "general" /\ r \in S => c \in S
    BY DEF Leaves
  <1>3. r \in Rows \ raced /\ c \in Rows \ raced
    OBVIOUS
  <1> HIDE DEF c
  <1>4. c \in S => /\ Dead(r) <=> local[d][r].dead
                   /\ Unused(r) <=> ~local[d][r].here
    BY <1>2, <1>3, KnownRows
  <1>5. /\ Unused(r)' <=> Unused(r)
        /\ Unused(c)' <=> Unused(c)
        /\ Dead(r)' <=> Dead(r) \/ r \in S
        /\ Dead(c)' <=> Dead(c) \/ c \in S
    BY <1>3, BuryChanges
  <1>6. LatestTogether(r, c)'
    BY <1>1, <1>2, <1>4, <1>5 DEF LatestTogether, Live
  <1> QED
    BY <1>6 DEF c

-----------------------------------------------------------------------------
(* Syncing tells nothing new of a row nobody raced for.                    *)

\* Its latest state stays as it is.
LEMMA LatestKept ==
  ASSUME UnracedPairs, raced \subseteq raced',
         \A r \in Rows \ raced' : /\ Unused(r)' <=> Unused(r)
                                  /\ Dead(r)' <=> Dead(r)
  PROVE  UnracedPairs'
  <1> SUFFICES ASSUME NEW r \in Rows \ raced', In[r] \in Rows \ raced'
               PROVE  LatestTogether(r, In[r])'
    BY DEF UnracedPairs
  <1> DEFINE c == In[r]
  <1>1. /\ LatestTogether(r, c)
        /\ Unused(r)' <=> Unused(r)
        /\ Unused(c)' <=> Unused(c)
        /\ Dead(r)' <=> Dead(r)
        /\ Dead(c)' <=> Dead(c)
    BY DEF UnracedPairs
  <1> HIDE DEF c
  <1>2. LatestTogether(r, c)'
    BY <1>1 DEF LatestTogether
  <1> QED
    BY <1>2 DEF c

LEMMA SameRowsKept ==
  ASSUME UnracedRows, UnracedPairs, raced \subseteq raced',
         \A q \in Rows \ raced' : /\ server'[q] = server[q]
                                  /\ \A e \in Devices : local'[e][q] = local[e][q]
  PROVE  UnracedRows' /\ UnracedPairs'
  <1>1. UnracedRows'
    BY DEF UnracedRows, OneWriter, Knows
  <1>2. \A q \in Rows \ raced' : (Unused(q)' <=> Unused(q)) /\ (Dead(q)' <=> Dead(q))
    BY DEF Unused, Dead
  <1> QED
    BY <1>1, <1>2, LatestKept

\* A row nobody raced for is never refused: its writer has the latest version.
LEMMA UnracedAccepts ==
  ASSUME UnracedRows, NEW d \in Devices, NEW r \in Rows \ raced, local[d][r].dirty
  PROVE  Accepts(d, r)
  BY DEF UnracedRows, OneWriter, Knows, Accepts

LEMMA AcceptedKeepsUnraced ==
  ASSUME RowsInv, UnracedRows, UnracedPairs, NEW d \in Devices, NEW r \in Rows,
         PushAccepted(d, r), local[d][r].dirty
  PROVE  UnracedRows' /\ UnracedPairs'
  <1>0. LibraryTypeOK /\ RowsSound /\ raced' = raced /\ local[d][r].here
    BY MissingFields DEF RowsInv, PushAccepted
  <1>1. /\ server'[r].ver = server[r].ver + 1
        /\ server'[r].dead = local[d][r].dead
        /\ local'[d][r].here /\ ~local'[d][r].dirty
        /\ local'[d][r].ver = server[r].ver + 1
        /\ local'[d][r].dead = local[d][r].dead
        /\ \A q \in Rows \ {r} : server'[q] = server[q]
        /\ \A e \in Devices, q \in Rows :
             ~(e = d /\ q = r) => local'[e][q] = local[e][q]
    BY <1>0, AcceptedFields
  <1>2. server[r].ver \in Nat /\ \A e \in Devices : local[e][r].ver \in Nat
                              /\ local[e][r].ver <= server[r].ver
    BY <1>0, LocalFields, SoundNow DEF Sound
  <1>3. ASSUME r \notin raced
        PROVE  \A e \in Devices : OneWriter(e, r) /\ (e # d => ~local[e][r].dirty)
    BY <1>0, <1>3 DEF UnracedRows, OneWriter, Knows
  <1>4. UnracedRows'
    <2> SUFFICES ASSUME NEW e \in Devices, NEW q \in Rows \ raced
                 PROVE  OneWriter(e, q)'
      BY <1>0 DEF UnracedRows
    <2>1. CASE q # r
      BY <1>1, <2>1 DEF UnracedRows, OneWriter, Knows
    <2>2. CASE q = r /\ e = d
      BY <1>1, <2>2 DEF OneWriter
    <2>3. CASE q = r /\ e # d
      <3>1. /\ OneWriter(e, r) /\ OneWriter(d, r) /\ ~local[e][r].dirty
            /\ local'[e][r] = local[e][r]
        BY <1>1, <1>3, <2>3
      <3>2. server[r].dead => local[d][r].dead
        BY <3>1 DEF OneWriter, Knows
      <3> QED
        BY <1>1, <1>2, <2>3, <3>1, <3>2 DEF OneWriter
    <2> QED
      BY <2>1, <2>2, <2>3
  <1>5. ASSUME NEW q \in Rows \ raced
        PROVE  (Unused(q)' <=> Unused(q)) /\ (Dead(q)' <=> Dead(q))
    <2>1. CASE q # r
      BY <1>1, <2>1 DEF Unused, Dead
    <2>2. CASE q = r
      <3>1. ~Unused(r) /\ ~Unused(r)'
        BY <1>0, <1>1 DEF Unused
      <3>2. \A e \in Devices : local[e][r].dead /\ e # d => server[r].dead
        BY <1>3, <2>2 DEF OneWriter
      <3>3. server[r].dead => local[d][r].dead
        BY <1>3, <2>2 DEF OneWriter, Knows
      <3>4. Dead(r)' <=> Dead(r)
        BY <1>1, <3>2, <3>3 DEF Dead
      <3> QED
        BY <2>2, <3>1, <3>4
    <2> QED
      BY <2>1, <2>2
  <1> QED
    BY <1>0, <1>4, <1>5, LatestKept

LEMMA TookKeepsUnraced ==
  ASSUME RowsInv, UnracedRows, UnracedPairs, NEW d \in Devices, NEW r \in Rows,
         Took(d, r), ~local[d][r].dirty \/ r \in raced
  PROVE  UnracedRows' /\ UnracedPairs'
  <1>0. LibraryTypeOK /\ RowsSound /\ raced' = raced /\ server' = server
        /\ server[r].ver > 0
    BY DEF RowsInv, Took
  <1>1. /\ local'[d][r].here /\ ~local'[d][r].dirty
        /\ local'[d][r].ver = server[r].ver
        /\ local'[d][r].dead = server[r].dead
        /\ \A e \in Devices, q \in Rows :
             ~(e = d /\ q = r) => local'[e][q] = local[e][q]
    BY <1>0, TookFields
  <1>2. UnracedRows'
    <2> SUFFICES ASSUME NEW e \in Devices, NEW q \in Rows \ raced
                 PROVE  OneWriter(e, q)'
      BY <1>0 DEF UnracedRows
    <2>1. CASE q # r
      BY <1>0, <1>1, <2>1 DEF UnracedRows, OneWriter, Knows
    <2>2. CASE q = r /\ e = d
      BY <1>0, <1>1, <2>2 DEF OneWriter
    <2>3. CASE q = r /\ e # d
      BY <1>0, <1>1, <2>3 DEF UnracedRows, OneWriter, Knows
    <2> QED
      BY <2>1, <2>2, <2>3
  <1>3. ASSUME NEW q \in Rows \ raced
        PROVE  (Unused(q)' <=> Unused(q)) /\ (Dead(q)' <=> Dead(q))
    <2>1. CASE q # r
      BY <1>0, <1>1, <2>1 DEF Unused, Dead
    <2>2. CASE q = r
      <3>1. ~Unused(r) /\ ~Unused(r)'
        BY <1>0, <1>1 DEF Unused
      <3>2. local[d][r].dead => server[r].dead
        BY <2>2 DEF UnracedRows, OneWriter
      <3>3. Dead(r)' <=> Dead(r)
        BY <1>0, <1>1, <3>2 DEF Dead
      <3> QED
        BY <2>2, <3>1, <3>3
    <2> QED
      BY <2>1, <2>2
  <1> QED
    BY <1>0, <1>2, <1>3, LatestKept

\* The copy of a raced row is raced.
LEMMA ForkedKeepsUnraced ==
  ASSUME RowsInv, UnracedRows, UnracedPairs, NEW d \in Devices, NEW r \in Rows,
         NEW copy \in Rows, PushForked(d, r, copy), local[d][r].dirty
  PROVE  UnracedRows' /\ UnracedPairs'
  <1>0. LibraryTypeOK /\ RowsSound /\ local[d][r].here
    BY MissingFields DEF RowsInv
  <1>1. r \in raced
    BY UnracedAccepts DEF PushForked
  <1>2. raced' = raced \cup {copy}
    BY <1>1 DEF PushForked
  <1>3. ASSUME NEW q \in Rows \ raced'
        PROVE  /\ server'[q] = server[q]
               /\ \A e \in Devices : local'[e][q] = local[e][q]
    <2>1. q \notin {copy, r}
      BY <1>1, <1>2
    <2> QED
      BY <1>0, <2>1, ForkedFields
  <1> QED
    BY <1>2, <1>3, SameRowsKept

-----------------------------------------------------------------------------
(* What each operation writes and buries.                                  *)

UnracedInv == UnracedRows /\ UnracedPairs

\* What the kinds of two rows say of one being in the other.
LEMMA ContainerKinds ==
  ASSUME NEW r \in Rows, In[r] \in Rows
  PROVE  /\ KindOf[r] # "class"
         /\ KindOf[r] \in {"general", "book", "deadline"} => KindOf[In[r]] = "class"
         /\ IsText(r) => KindOf[In[r]] \in {"general", "book"}
         /\ KindOf[In[r]] = "class" => KindOf[r] \in {"general", "book", "deadline"}
         /\ KindOf[In[r]] \in {"class", "general", "book"}
         /\ KindOf[In[r]] # "class" => IsText(r)
  <1>1. In[r] # NoRow /\ KindOf[r] \in Kinds
    BY LibraryAssumption
  <1>2. /\ KindOf[r] = "class" => In[r] = NoRow
        /\ KindOf[r] \in {"general", "book", "deadline"} =>
             In[r] \in Rows /\ KindOf[In[r]] = "class"
        /\ IsText(r) => In[r] \in Rows /\ KindOf[In[r]] \in {"general", "book"}
    BY Containment
  <1>3. IsText(r) <=> KindOf[r] = "note" \/ KindOf[r] = "page"
    BY DEF IsText
  <1> QED
    BY <1>1, <1>2, <1>3 DEF Kinds

LEMMA WriteKeepsUnraced ==
  ASSUME RowsInv, UnracedInv,
         NEW d \in Devices, NEW S \in SUBSET Rows, Writes(d, S),
         raced \subseteq raced', \A r \in S \ raced' : Knows(d, r), Enters(d, S)
  PROVE  UnracedInv'
  BY WriteKeepsOneWriter, WriteKeepsPairs DEF UnracedInv

LEMMA BuryKeepsUnraced ==
  ASSUME RowsInv, UnracedInv,
         NEW d \in Devices, NEW S \in SUBSET Rows, Buries(d, S),
         raced \subseteq raced', \A r \in S \ raced' : Knows(d, r), Leaves(d, S)
  PROVE  UnracedInv'
  BY WriteKeepsOneWriter, BuryKeepsPairs DEF UnracedInv

LEMMA PushKeeps ==
  ASSUME RowsInv, UnracedInv, NEW d \in Devices, NEW r \in Rows, PushRow(d, r)
  PROVE  UnracedInv'
  <1>1. /\ LibraryTypeOK /\ UnracedRows /\ UnracedPairs
    BY DEF RowsInv, UnracedInv
  <1>2. /\ local[d][r].dirty
        /\ \/ PushAccepted(d, r)
           \/ Took(d, r) /\ r \in raced
           \/ \E copy \in Rows : PushForked(d, r, copy)
    BY <1>1, PushShapes, UnracedAccepts
  <1> QED
    BY <1>1, <1>2, AcceptedKeepsUnraced, TookKeepsUnraced, ForkedKeepsUnraced
    DEF UnracedInv

LEMMA PullKeeps ==
  ASSUME RowsInv, UnracedInv, NEW d \in Devices, NEW r \in Rows, PullRow(d, r)
  PROVE  UnracedInv'
  BY PullShape, TookKeepsUnraced DEF RowsInv, UnracedInv

LEMMA CreateClassKeeps ==
  ASSUME RowsInv, UnracedInv, NEW d \in Devices, NEW c \in Rows, CreateClass(d, c)
  PROVE  UnracedInv'
  <1>1. PICK g \in Rows : /\ KindOf[g] = "general" /\ In[g] = c /\ Unused(g)
                          /\ Write(d, {c, g})
    BY DEF CreateClass
  <1>2. KindOf[c] = "class" /\ Unused(c) /\ raced' = raced
    BY DEF CreateClass
  <1>3. Writes(d, {c, g}) /\ \A r \in {c, g} : Knows(d, r)
    BY <1>1, <1>2, FreshRows DEF Writes
  <1>4. Enters(d, {c, g})
    BY <1>1, <1>2, ContainerKinds, Containment DEF Enters
  <1> QED
    BY <1>2, <1>3, <1>4, WriteKeepsUnraced

LEMMA CreateCollegebookKeeps ==
  ASSUME RowsInv, UnracedInv,
         NEW d \in Devices, NEW b \in Rows, CreateCollegebook(d, b)
  PROVE  UnracedInv'
  <1>1. PICK p \in Rows :
          /\ KindOf[p] = "page" /\ In[p] = b /\ Unused(p) /\ Write(d, {b, p})
          /\ raced' = IF Informed(d, In[b]) THEN raced ELSE raced \cup {b, p}
    BY DEF CreateCollegebook, Fresh
  <1>2. KindOf[b] = "book" /\ Unused(b)
    BY DEF CreateCollegebook
  <1>3. Writes(d, {b, p}) /\ \A r \in {b, p} : Knows(d, r)
    BY <1>1, <1>2, FreshRows DEF Writes
  <1>4. Enters(d, {b, p})
    BY <1>1, <1>2, ContainerKinds DEF Enters
  <1> QED
    BY <1>1, <1>3, <1>4, WriteKeepsUnraced

LEMMA CreateTextKeeps ==
  ASSUME RowsInv, UnracedInv, NEW d \in Devices, NEW n \in Rows, CreateText(d, n)
  PROVE  UnracedInv'
  <1>1. /\ IsText(n) /\ Unused(n) /\ Writes(d, {n})
        /\ raced' = IF Informed(d, In[n]) THEN raced ELSE raced \cup {n}
    BY DEF CreateText, Writes, Fresh
  <1>2. Knows(d, n)
    BY <1>1, FreshRows
  <1>3. Enters(d, {n})
    BY <1>1, ContainerKinds DEF Enters, IsText
  <1> QED
    BY <1>1, <1>2, <1>3, WriteKeepsUnraced

LEMMA CreateDeadlineKeeps ==
  ASSUME RowsInv, UnracedInv, NEW d \in Devices, NEW n \in Rows,
         CreateDeadline(d, n)
  PROVE  UnracedInv'
  <1>1. /\ KindOf[n] = "deadline" /\ Unused(n) /\ Writes(d, {n})
        /\ raced' = IF Informed(d, In[n]) THEN raced ELSE raced \cup {n}
    BY DEF CreateDeadline, Writes
  <1>2. Knows(d, n)
    BY <1>1, FreshRows
  <1>3. Enters(d, {n})
    BY <1>1, ContainerKinds DEF Enters
  <1> QED
    BY <1>1, <1>2, <1>3, WriteKeepsUnraced

LEMMA UpdateKeeps ==
  ASSUME RowsInv, UnracedInv, NEW d \in Devices, NEW n \in Rows, Update(d, n)
  PROVE  UnracedInv'
  <1>1. /\ Writes(d, {n}) /\ local[d][n].here
        /\ raced' = IF Knows(d, n) THEN raced ELSE raced \cup {n}
    BY UpdateWrites
  <1>2. ~Unused(n)
    BY <1>1 DEF Unused
  <1>3. Enters(d, {n})
    BY <1>2 DEF Enters
  <1> QED
    BY <1>1, <1>3, WriteKeepsUnraced

LEMMA DeleteKeeps ==
  ASSUME RowsInv, UnracedInv, NEW d \in Devices, NEW n \in Rows, Delete(d, n)
  PROVE  UnracedInv'
  <1>1. /\ KindOf[n] \in {"note", "deadline"} /\ Buries(d, {n})
        /\ raced' = IF Knows(d, n) THEN raced ELSE raced \cup {n}
    BY DEF Delete, Buries
  <1>2. Leaves(d, {n})
    BY <1>1, ContainerKinds DEF Leaves
  <1> QED
    BY <1>1, <1>2, BuryKeepsUnraced

LEMMA DestroyKeeps ==
  ASSUME RowsInv, UnracedInv, NEW d \in Devices, NEW c \in Rows, Destroy(d, c)
  PROVE  UnracedInv'
  <1> DEFINE S == Cascade(d, c)
  <1>1. /\ KindOf[c] = "class" /\ local[d][c].here /\ Bury(d, S)
        /\ raced' = raced \cup {r \in Under(c) : ~Knows(d, r)}
    BY DEF Destroy
  <1>2. S \in SUBSET Rows /\ Buries(d, S)
    BY <1>1, CascadeIsHere DEF Buries
  <1>3. \A r \in Rows : r \in S <=>
          \/ r = c
          \/ In[r] = c /\ KindOf[r] \in {"general", "book"} /\ Live(d, r)
          \/ /\ Live(d, r) /\ IsText(r)
             /\ In[r] \in Rows /\ In[In[r]] = c
             /\ KindOf[In[r]] \in {"general", "book"} /\ Live(d, In[r])
          \/ Live(d, r) /\ KindOf[r] = "deadline" /\ In[r] = c
    BY DEF Cascade, Notebooks
  <1>4. \A r \in Rows : In[r] = c \/ r = c => r \in Under(c)
    BY DEF Under
  <1>5. \A r \in Rows : In[r] \in Rows /\ In[In[r]] = c
                        /\ KindOf[In[r]] \in {"general", "book"} => r \in Under(c)
    BY DEF Under, Notebooks
  <1>6. \A r \in Under(c) \ raced' : Knows(d, r)
    BY <1>1
  <1>7. \A r \in S : r \in Under(c)
    BY <1>2, <1>3, <1>4, <1>5
  <1> HIDE DEF S
  <1>8. Leaves(d, S)
    <2> SUFFICES ASSUME NEW r \in Rows \ raced', In[r] \in Rows \ raced'
                 PROVE  /\ In[r] \in S => Knows(d, r) /\ (Live(d, r) => r \in S)
                        /\ KindOf[r] = "general" /\ r \in S => In[r] \in S
      BY DEF Leaves
    <2>1. ASSUME In[r] = c
          PROVE  Knows(d, r) /\ (Live(d, r) => r \in S)
      <3>1. KindOf[r] \in {"general", "book", "deadline"}
        BY <1>1, <2>1, ContainerKinds
      <3> QED
        BY <1>3, <1>4, <1>6, <2>1, <3>1
    <2>2. ASSUME In[r] \in S, In[r] # c
          PROVE  Knows(d, r) /\ (Live(d, r) => r \in S)
      <3>1. In[In[r]] = c /\ KindOf[In[r]] \in {"general", "book"} /\ Live(d, In[r])
        <4>1. KindOf[In[r]] \in {"class", "general", "book"}
          BY ContainerKinds
        <4> QED
          BY <1>3, <2>2, <4>1 DEF IsText
      <3>2. IsText(r)
        BY <3>1, ContainerKinds
      <3> QED
        BY <1>3, <1>5, <1>6, <3>1, <3>2
    <2>3. KindOf[r] = "general" /\ r \in S => In[r] \in S
      BY <1>1, <1>3 DEF IsText
    <2> QED
      BY <2>1, <2>2, <2>3
  <1>9. \A r \in S \ raced' : Knows(d, r)
    BY <1>6, <1>7
  <1>10. raced \subseteq raced'
    BY <1>1
  <1> QED
    BY <1>2, <1>8, <1>9, <1>10, BuryKeepsUnraced

-----------------------------------------------------------------------------
(* A class and what is in it.                                              *)

LEMMA UnracedInit == LibraryInit => UnracedInv
  <1> SUFFICES ASSUME LibraryInit
               PROVE  UnracedInv
    OBVIOUS
  <1>1. \A r \in Rows :
          /\ server[r].ver = IF r \in Held THEN 1 ELSE 0
          /\ ~server[r].dead
          /\ \A d \in Devices : /\ local[d][r].here <=> r \in Held
                                /\ ~local[d][r].dirty /\ ~local[d][r].dead
    <2> SUFFICES ASSUME NEW r \in Rows
                 PROVE  /\ server[r].ver = IF r \in Held THEN 1 ELSE 0
                        /\ ~server[r].dead
                        /\ \A d \in Devices :
                             /\ local[d][r].here <=> r \in Held
                             /\ ~local[d][r].dirty /\ ~local[d][r].dead
      OBVIOUS
    <2>1. server[r] = [ver |-> IF r \in Held THEN 1 ELSE 0,
                       dead |-> FALSE, text |-> {}]
      BY DEF LibraryInit
    <2>2. ASSUME NEW d \in Devices
          PROVE  /\ local[d][r].here <=> r \in Held
                 /\ ~local[d][r].dirty /\ ~local[d][r].dead
      <3>1. local[d][r] = IF r \in Held
                          THEN [Missing EXCEPT !.here = TRUE, !.ver = 1]
                          ELSE Missing
        BY DEF LibraryInit
      <3>2. CASE r \in Held
        BY <3>1, <3>2, HeldFields
      <3>3. CASE r \notin Held
        BY <3>1, <3>3 DEF Missing
      <3> QED
        BY <3>2, <3>3
    <2> QED
      BY <2>1, <2>2
  <1>2. UnracedRows
    BY <1>1 DEF UnracedRows, OneWriter
  <1>3. UnracedPairs
    <2> SUFFICES ASSUME NEW r \in Rows, In[r] \in Rows
                 PROVE  LatestTogether(r, In[r])
      BY DEF UnracedPairs
    <2> DEFINE c == In[r]
    <2>1. /\ r \in Held => c \in Held
          /\ KindOf[r] = "general" /\ c \in Held => r \in Held
          /\ c \in Rows
      BY LibraryAssumption, Containment
    <2> HIDE DEF c
    <2>2. \A q \in Rows : (Unused(q) <=> q \notin Held) /\ ~Dead(q)
      BY <1>1 DEF Unused, Dead
    <2>3. LatestTogether(r, c)
      BY <2>1, <2>2 DEF LatestTogether
    <2> QED
      BY <2>3 DEF c
  <1> QED
    BY <1>2, <1>3 DEF UnracedInv

LEMMA UnracedStep == RowsInv /\ UnracedInv /\ [LibraryNext]_vars => UnracedInv'
  <1> SUFFICES ASSUME RowsInv, UnracedInv, [LibraryNext]_vars
               PROVE  UnracedInv'
    OBVIOUS
  <1>1. ASSUME UNCHANGED <<local, server, raced>>
        PROVE  UnracedInv'
    BY <1>1 DEF UnracedInv, UnracedRows, UnracedPairs, OneWriter, Knows,
       LatestTogether, Unused, Dead
  <1>2. CASE UNCHANGED vars
    BY <1>1, <1>2 DEF vars
  <1> QED
    BY <1>2, PushKeeps, PullKeeps, CreateClassKeeps, CreateCollegebookKeeps,
       CreateTextKeeps, CreateDeadlineKeeps, UpdateKeeps, DeleteKeeps,
       DestroyKeeps DEF LibraryNext

\* Where a device has all that was done to a row and to its container, neither
\* is there or alive without the other: it takes somebody who wrote without
\* having seen all that was done to split them, and no other interleaving of
\* creations, cascades and rows sent and fetched one by one does (db/classes.ts,
\* db/notebooks.ts, sync/push.ts, sync/pull.ts).
THEOREM ClassesStayWhole == LibrarySpec => []OnlyARaceSplitsAClass
  <1>1. LibraryInit => UnracedInv
    BY UnracedInit
  <1>2. RowsInv /\ UnracedInv /\ [LibraryNext]_vars => UnracedInv'
    BY UnracedStep
  <1>3. RowsInv /\ UnracedInv => OnlyARaceSplitsAClass
    <2> SUFFICES ASSUME RowsInv, UnracedInv, NEW d \in Devices, NEW r \in Rows,
                        In[r] # NoRow, r \notin raced, In[r] \notin raced,
                        Knows(d, r), Knows(d, In[r])
                 PROVE  /\ local[d][r].here => local[d][In[r]].here
                        /\ Live(d, r) => Live(d, In[r])
                        /\ KindOf[r] = "general" /\ Live(d, In[r]) => Live(d, r)
      BY DEF OnlyARaceSplitsAClass
    <2> DEFINE c == In[r]
    <2>1. r \in Rows \ raced /\ c \in Rows \ raced /\ Knows(d, c)
      BY LibraryAssumption
    <2>2. LatestTogether(r, c)
      BY <2>1 DEF UnracedInv, UnracedPairs
    <2> HIDE DEF c
    <2>3. /\ Dead(r) <=> local[d][r].dead
          /\ Unused(r) <=> ~local[d][r].here
          /\ Dead(c) <=> local[d][c].dead
          /\ Unused(c) <=> ~local[d][c].here
      BY <2>1, KnownRows DEF UnracedInv
    <2>4. /\ local[d][r].here => local[d][c].here
          /\ Live(d, r) => Live(d, c)
          /\ KindOf[r] = "general" /\ Live(d, c) => Live(d, r)
      BY <2>2, <2>3 DEF LatestTogether, Live
    <2> QED
      BY <2>4 DEF c
  <1> QED
    BY <1>1, <1>2, <1>3, RowsInvariant, PTL DEF LibrarySpec

=============================================================================
