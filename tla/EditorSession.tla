---------------------------- MODULE EditorSession ----------------------------
(***************************************************************************)
(* The note editor over the rows that NefixSync synchronises:              *)
(* features/notes/Editor.tsx and useAutosave.ts.                           *)
(*                                                                         *)
(* An editor owns its document from the moment it is mounted.  A keystroke *)
(* changes the document, raises `unsaved` and replaces the pending write;  *)
(* a timer, a switch of notes, an unmount or a tab that is hidden flushes  *)
(* the pending write, and the write REPLACES the text of the row.  The row *)
(* is watched, and a change is taken into the document unless `unsaved` or *)
(* the row's dirty flag says that somebody here is ahead of it.            *)
(*                                                                         *)
(* A text is the set of the edits it carries, as in NefixSync, so a write  *)
(* of an older document takes out what the row had gained in between.  A   *)
(* deletion is an edit too: a row that carries one is deleted.             *)
(*                                                                         *)
(* The devices of NefixSync are those whose editors are followed.  What    *)
(* another device of the account does arrives here as a row the server has *)
(* accepted (RemoteWrite, RemoteDelete).                                   *)
(***************************************************************************)
EXTENDS NefixSync

CONSTANTS
  Seeds       \* notes the server and every device hold at the start

ASSUME SeedsAssumption ==
  /\ Seeds = 1..Cardinality(Seeds)
  /\ Seeds \subseteq Ids \cap Edits /\ 0 \notin Ids
  /\ \A i \in Seeds : KindOf[i] = "note"

VARIABLES
  editor,    \* the editor and the autosave of each tab
  deletions, \* the edits that are deletions
  made,      \* history: the edits made on each device
  reached,   \* history: edits the server has stored at some time
  refused    \* history: edits of writes that found their note deleted

editorVars == <<editor, deletions, made, refused>>
sessionVars == <<vars, editorVars, reached>>

NoNote  == 0
NoWrite == [id |-> NoNote, body |-> {}]

\* doc is the document, pending the write the timer will flush.
Editor == [note    : Ids \cup {NoNote},
           doc     : SUBSET Edits,
           unsaved : BOOLEAN,
           pending : [id : Ids \cup {NoNote}, body : SUBSET Edits]]

Closed == [note |-> NoNote, doc |-> {}, unsaved |-> FALSE, pending |-> NoWrite]

EditorTypeOK ==
  /\ TypeOK
  /\ editor \in [Tabs -> Editor]
  /\ deletions \subseteq noteEdits
  /\ made \in [Devices -> SUBSET Edits]
  /\ reached \subseteq 1..edits
  /\ refused \subseteq 1..edits

\* Seed i carries the edit i, which made it; every device has pulled it.
EditorInit ==
  /\ \E u \in Users :
       /\ account = [d \in Devices |-> u]
       /\ rows = [i \in Ids |->
            IF i \in Seeds
            THEN [owner |-> u, ver |-> 1, seq |-> i, body |-> {i}]
            ELSE [owner |-> NoUser, ver |-> 0, seq |-> 0, body |-> NoBody]]
       /\ lastSeq = [v \in Users |-> IF v = u THEN Cardinality(Seeds) ELSE 0]
  /\ handler = [h \in Handlers |-> Idle]
  /\ local = [d \in Devices |-> [i \in Ids |->
       IF i \in Seeds THEN FromWire(1, {i}) ELSE Missing]]
  /\ cursor = [d \in Devices |-> Cardinality(Seeds)]
  /\ tab = [t \in Tabs |-> NoCycle]
  /\ used = Seeds
  /\ edits = Cardinality(Seeds)
  /\ noteEdits = Seeds
  /\ faults = 0
  /\ editor = [t \in Tabs |-> Closed]
  /\ deletions = {}
  /\ made = [d \in Devices |-> {}]
  /\ reached = Seeds
  /\ refused = {}

Deleted(text) == text \cap deletions # {}
Newest(text)  == CHOOSE e \in text : \A f \in text : f <= e

-----------------------------------------------------------------------------
(* Saving.                                                                 *)

\* updateNote: the body of the row becomes the body that was pending.
Saved(row, write) ==
  [row EXCEPT !.body = write.body, !.dirty = TRUE, !.stamp = Newest(write.body)]

\* Mutant: the pending write goes to whichever note is open when it is flushed.
FlushesIntoOpenNote(t, open) ==
  LET write == editor[t].pending
      d     == Dev(t)
  IN  IF write = NoWrite \/ open = NoNote THEN UNCHANGED <<local, refused>>
      ELSE /\ local' = [local EXCEPT ![d][open] = Saved(@, write)]
           /\ UNCHANGED refused

\* flush clears what is pending and writes it into the note it was typed in.
\* updateNote throws when that note is deleted meanwhile: the write is gone.
Flush(t, open) ==
  LET write == editor[t].pending
      d     == Dev(t)
  IN  IF write = NoWrite THEN UNCHANGED <<local, refused>>
      ELSE IF Deleted(local[d][write.id].body)
      THEN refused' = refused \cup write.body /\ UNCHANGED local
      ELSE local' = [local EXCEPT ![d][write.id] = Saved(@, write)]
           /\ UNCHANGED refused

Rest == UNCHANGED <<serverVars, cursor, account, used, edits, noteEdits>>

AutosaveFires(t) ==
  /\ editor[t].pending # NoWrite
  /\ Flush(t, editor[t].note)
  /\ editor' = [editor EXCEPT ![t].pending = NoWrite]
  /\ UNCHANGED <<tab, faults, deletions, made>> /\ Rest

-----------------------------------------------------------------------------
(* The document.                                                           *)

\* A note is opened from the list, in place of another or of none.  What was
\* pending for the other is written on the way.
Open(t, i) ==
  LET row == local[Dev(t)][i]
  IN  /\ editor[t].note # i
      /\ row.here /\ ~Deleted(row.body)
      /\ Flush(t, i)
      /\ editor' = [editor EXCEPT ![t] =
           [Closed EXCEPT !.note = i, !.doc = row.body]]
      /\ UNCHANGED <<tab, faults, deletions, made>> /\ Rest

Leave(t) ==
  /\ editor[t].note # NoNote
  /\ Flush(t, NoNote)
  /\ editor' = [editor EXCEPT ![t] = Closed]
  /\ UNCHANGED <<tab, faults, deletions, made>> /\ Rest

\* onUpdate: a keystroke.
Type(t) ==
  LET note == editor[t].note
      doc  == editor[t].doc \cup {edits + 1}
  IN  /\ note # NoNote
      /\ Authored(note)
      /\ editor' = [editor EXCEPT ![t].doc = doc, ![t].unsaved = TRUE,
                                  ![t].pending = [id |-> note, body |-> doc]]
      /\ made' = [made EXCEPT ![Dev(t)] = @ \cup {edits + 1}]
      /\ UNCHANGED <<serverVars, local, cursor, tab, account, used, faults,
                     deletions, refused>>

\* Mutant: only the row's own flag is asked.
TakenUnlessDirty(t, row) == ~row.dirty

\* Whether a changed row may replace the document.
Taken(t, row) == ~editor[t].unsaved /\ ~row.dirty

\* Mutant: setContent reports the server's text as something that was typed.
EchoesBack(t) ==
  LET row == local[Dev(t)][editor[t].note]
  IN  /\ editor[t].note # NoNote
      /\ row.body # editor[t].doc
      /\ Taken(t, row)
      /\ editor' = [editor EXCEPT ![t].doc = row.body, ![t].pending =
                      [id |-> editor[t].note, body |-> row.body]]
      /\ UNCHANGED <<vars, deletions, made, refused>>

\* The subscription to the row the editor shows.  A row that says what the
\* document says is the proof that everything typed is stored.
RowSeen(t) ==
  LET row == local[Dev(t)][editor[t].note]
  IN  /\ editor[t].note # NoNote
      /\ \/ /\ row.body \ deletions = editor[t].doc \ deletions
            /\ editor[t].unsaved
            /\ editor' = [editor EXCEPT ![t].unsaved = FALSE]
         \/ /\ row.body \ deletions # editor[t].doc \ deletions
            /\ Taken(t, row)
            /\ editor' = [editor EXCEPT ![t].doc = row.body]
      /\ UNCHANGED <<vars, deletions, made, refused>>

\* deleteNote, from the list.
DeleteFromList(t, i) ==
  /\ editor[t].note = NoNote
  /\ ~Deleted(local[Dev(t)][i].body)
  /\ Edit(Dev(t), i)
  /\ deletions' = deletions \cup {edits + 1}
  /\ made' = [made EXCEPT ![Dev(t)] = @ \cup {edits + 1}]
  /\ UNCHANGED <<editor, refused>>

-----------------------------------------------------------------------------
(* The tab.                                                                *)

\* visibilitychange to hidden and pagehide flush; the page is reloaded, closed
\* or killed in the background after that.
TabEnds(t) ==
  /\ Fault
  /\ Flush(t, editor[t].note)
  /\ editor' = [editor EXCEPT ![t] = Closed]
  /\ tab' = [tab EXCEPT ![t] = NoCycle]
  /\ UNCHANGED <<deletions, made>> /\ Rest

EditorStep(t) ==
  \/ AutosaveFires(t)
  \/ Leave(t)
  \/ Type(t)
  \/ RowSeen(t)
  \/ TabEnds(t)
  \/ \E i \in Ids : Open(t, i) \/ DeleteFromList(t, i)

-----------------------------------------------------------------------------
(* Another device of the account pushes an edit of the row as the server    *)
(* has it.                                                                 *)

RemoteEdit(i) ==
  /\ Authored(i)
  /\ Stored(i) /\ ~Deleted(rows[i].body)
  /\ rows' = [rows EXCEPT ![i].ver = @ + 1,
                          ![i].seq = NextSeq(rows[i].owner),
                          ![i].body = @ \cup {edits + 1}]
  /\ lastSeq' = [lastSeq EXCEPT ![rows[i].owner] = NextSeq(rows[i].owner)]
  /\ UNCHANGED <<handler, local, cursor, tab, account, used, faults, editor, made,
                 refused>>

RemoteWrite(i) == RemoteEdit(i) /\ UNCHANGED deletions

RemoteDelete(i) == RemoteEdit(i) /\ deletions' = deletions \cup {edits + 1}

SyncStep ==
  /\ \/ \E t \in Tabs : CycleStep(t) \/ GiveUp(t)
     \/ \E h \in Handlers : ServerStep(h)
  /\ UNCHANGED editorVars

SessionNext ==
  /\ \/ SyncStep
     \/ \E t \in Tabs : EditorStep(t)
     \/ \E i \in Ids : RemoteWrite(i) \/ RemoteDelete(i)
  /\ reached' = reached \cup UNION {rows'[i].body : i \in Ids}

SessionSpec == EditorInit /\ [][SessionNext]_sessionVars

-----------------------------------------------------------------------------
(* Properties.                                                             *)

\* What is typed reaches the server: until it has, it waits in an editor or in
\* a dirty row.  Only a write into a note that was deleted meanwhile is lost.
TypingReachesServer ==
  \A e \in noteEdits \ (reached \cup refused) :
    \/ \E t \in Tabs : e \in editor[t].pending.body
    \/ \E d \in Devices, i \in Ids : local[d][i].dirty /\ e \in local[d][i].body

\* Text goes into the note it was typed in, across switches of notes, pulls
\* and conflicts: a seed keeps the edit that made it on every device.
NotesKeepTheirText ==
  \A d \in Devices, i \in Seeds :
    local[d][i].body \cap Seeds = {i}

\* No device sends back what it was sent: a row waits for a push only because
\* of something done on this device (emitUpdate: false, and the flag of pull).
DirtyIsOurs ==
  \A d \in Devices, i \in Ids :
    local[d][i].here /\ local[d][i].dirty => local[d][i].body \cap made[d] # {}

=============================================================================
