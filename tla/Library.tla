------------------------------- MODULE Library -------------------------------
(***************************************************************************)
(* Classes with their notebooks, collegebooks, notes, pages and deadlines: *)
(* db/classes.ts, db/notebooks.ts, db/notes.ts and db/deadlines.ts as      *)
(* App.tsx calls them, on several devices.                                 *)
(*                                                                         *)
(* Every operation writes the rows it touches in one transaction, but the  *)
(* rows are synchronised one by one, with versions of their own: each is a *)
(* step (PushRow, PullRow), and any may be taken without the others, as    *)
(* when a batch or a page is cut or a cycle is given up.  What the devices *)
(* make of each other's cascades is the subject here; what can happen      *)
(* between a row's snapshot, its upsert and its answer is NefixSync's.     *)
(*                                                                         *)
(* No operation the program calls moves a row, so the container of a row   *)
(* is a constant.                                                          *)
(***************************************************************************)
EXTENDS Integers, FiniteSets

CONSTANTS
  Devices,
  Rows,     \* row ids, in the order uuidv7 hands them out
  KindOf,   \* what each row is
  In,       \* the row's container: a class, a notebook, or none
  NoRow,
  Held,     \* rows that are synchronised everywhere at the start
  MaxEdits  \* bound: operations in a behaviour

Kinds == {"class", "general", "book", "note", "page", "deadline"}

ASSUME LibraryAssumption ==
  /\ Rows \subseteq Nat /\ KindOf \in [Rows -> Kinds]
  /\ In \in [Rows -> Rows \cup {NoRow}] /\ NoRow \notin Rows
  /\ Held \subseteq Rows /\ MaxEdits \in Nat

IsText(r) == KindOf[r] \in {"note", "page"}

\* A class is in nothing, and has one general notebook; notebooks and deadlines
\* are in a class, notes and pages in a notebook.  What everybody starts with
\* was synchronised whole.
ASSUME Containment ==
  /\ \A r \in Rows :
       /\ KindOf[r] = "class" => In[r] = NoRow
       /\ KindOf[r] \in {"general", "book", "deadline"} =>
            In[r] \in Rows /\ KindOf[In[r]] = "class"
       /\ IsText(r) => In[r] \in Rows /\ KindOf[In[r]] \in {"general", "book"}
  /\ \A r, q \in Rows :
       KindOf[r] = "general" /\ KindOf[q] = "general" /\ In[r] = In[q] => r = q
  /\ \A r \in Rows : In[r] # NoRow =>
       /\ r \in Held => In[r] \in Held
       /\ KindOf[r] = "general" /\ In[r] \in Held => r \in Held

VARIABLES
  local,  \* the rows on each device
  server, \* the rows on the server
  edits,  \* operations so far
  raced,  \* history: rows somebody wrote without having seen all that was done
  typed,  \* history: edits made in notes and pages
  gone    \* history: edits that whoever deleted their note had before them

vars == <<local, server, edits, raced, typed, gone>>

Texts == SUBSET (1..MaxEdits)
Local == [here : BOOLEAN, dirty : BOOLEAN, ver : Nat, dead : BOOLEAN, text : Texts]
Missing == [here |-> FALSE, dirty |-> FALSE, ver |-> 0, dead |-> FALSE, text |-> {}]

LibraryTypeOK ==
  /\ local \in [Devices -> [Rows -> Local]]
  /\ server \in [Rows -> [ver : Nat, dead : BOOLEAN, text : Texts]]
  /\ edits \in 0..MaxEdits
  /\ raced \subseteq Rows /\ typed \subseteq 1..edits /\ gone \subseteq typed

LibraryInit ==
  /\ server = [r \in Rows |-> [ver |-> IF r \in Held THEN 1 ELSE 0,
                               dead |-> FALSE, text |-> {}]]
  /\ local = [d \in Devices |-> [r \in Rows |->
       IF r \in Held THEN [Missing EXCEPT !.here = TRUE, !.ver = 1] ELSE Missing]]
  /\ edits = 0 /\ raced = {} /\ typed = {} /\ gone = {}

Live(d, r) == local[d][r].here /\ ~local[d][r].dead
Unused(r)  == server[r].ver = 0 /\ \A d \in Devices : ~local[d][r].here

\* d has all that was done to r: its own copy says everything there is to say.
Knows(d, r) ==
  /\ server[r].ver = local[d][r].ver
  /\ \A e \in Devices \ {d} : ~local[e][r].dirty

\* What d writes into r is not a race with anybody.
Informed(d, r) == Live(d, r) /\ Knows(d, r)

-----------------------------------------------------------------------------
(* Writing.                                                                *)

Written(r, row) ==
  [row EXCEPT !.here = TRUE, !.dirty = TRUE,
              !.text = IF IsText(r) THEN @ \cup {edits + 1} ELSE @]
Buried(row)  == [row EXCEPT !.dirty = TRUE, !.dead = TRUE]

Write(d, S) ==
  /\ edits < MaxEdits /\ edits' = edits + 1
  /\ local' = [local EXCEPT ![d] =
       [r \in Rows |-> IF r \in S THEN Written(r, @[r]) ELSE @[r]]]
  /\ typed' = IF \E r \in S : IsText(r) THEN typed \cup {edits + 1} ELSE typed
  /\ UNCHANGED <<server, gone>>

\* The next id of those for rows of a container.
Fresh(n) == Unused(n) /\ \A m \in Rows : Unused(m) /\ In[m] = In[n] => n <= m

\* Mutant: the general notebook is left to whoever opens the class.
CreateClassAlone(d, c) ==
  /\ KindOf[c] = "class" /\ Unused(c)
  /\ \E g \in Rows :
       /\ KindOf[g] = "general" /\ In[g] = c /\ Unused(g)
       /\ Write(d, {c})
  /\ UNCHANGED raced

\* The class and its general notebook.
CreateClass(d, c) ==
  /\ KindOf[c] = "class" /\ Unused(c)
  /\ \E g \in Rows :
       /\ KindOf[g] = "general" /\ In[g] = c /\ Unused(g)
       /\ Write(d, {c, g})
  /\ UNCHANGED raced

\* The book and its first page.
CreateCollegebook(d, b) ==
  /\ KindOf[b] = "book" /\ Unused(b)
  /\ local[d][In[b]].here
  /\ \E p \in Rows :
       /\ KindOf[p] = "page" /\ In[p] = b /\ Fresh(p)
       /\ Write(d, {b, p})
       /\ raced' = IF Informed(d, In[b]) THEN raced ELSE raced \cup {b, p}

\* createNote, createPage.  Which notebook to write in was read before, or is
\* the book on the screen, and nothing asks again whether it is there: any the
\* device has will do, dead ones too.  A book opened from a topic need not even
\* be there, for that only asks for the page.  A note that is in no notebook
\* has nothing to come and go with, and is left out.
CreateText(d, n) ==
  /\ IsText(n) /\ Fresh(n)
  /\ \/ local[d][In[n]].here
     \/ \E p \in Rows : KindOf[p] = "page" /\ In[p] = In[n] /\ Live(d, p)
  /\ Write(d, {n})
  /\ raced' = IF Informed(d, In[n]) THEN raced ELSE raced \cup {n}

\* The class may have been deleted under the form that is open.
CreateDeadline(d, n) ==
  /\ KindOf[n] = "deadline" /\ Unused(n)
  /\ local[d][In[n]].here
  /\ Write(d, {n})
  /\ raced' = IF Informed(d, In[n]) THEN raced ELSE raced \cup {n}

\* updateNote, updateClass, updateBookSettings, resetBookSettings and
\* toggleDone change a live row and leave it where it is; archiveClass does
\* not ask whether the class is alive.
Update(d, r) ==
  /\ Live(d, r) \/ (KindOf[r] = "class" /\ local[d][r].here)
  /\ Write(d, {r})
  /\ raced' = IF Knows(d, r) THEN raced ELSE raced \cup {r}

-----------------------------------------------------------------------------
(* Deleting.                                                               *)

Bury(d, S) ==
  /\ edits < MaxEdits /\ edits' = edits + 1
  /\ local' = [local EXCEPT ![d] =
       [r \in Rows |-> IF r \in S THEN Buried(@[r]) ELSE @[r]]]
  /\ gone' = gone \cup UNION {local[d][r].text : r \in {q \in S : IsText(q)}}
  /\ UNCHANGED <<server, typed>>

\* deleteNote, deleteDeadline: a row that is dead by then is stamped again.
Delete(d, r) ==
  /\ KindOf[r] \in {"note", "deadline"}
  /\ local[d][r].here
  /\ Bury(d, {r})
  /\ raced' = IF Knows(d, r) THEN raced ELSE raced \cup {r}

Notebooks(c) == {r \in Rows : In[r] = c /\ KindOf[r] \in {"general", "book"}}
Under(c) == {c} \cup {r \in Rows : In[r] = c \/ In[r] \in Notebooks(c)}

\* The class, its live notebooks, their live notes, its live deadlines.
Cascade(d, c) ==
  LET notebooks == {b \in Notebooks(c) : Live(d, b)}
  IN  {c} \cup notebooks
          \cup {r \in Rows : Live(d, r) /\ IsText(r) /\ In[r] \in notebooks}
          \cup {r \in Rows : Live(d, r) /\ KindOf[r] = "deadline" /\ In[r] = c}

\* deleteClassCascade.  It does not ask whether the class is alive, which a
\* pull may have settled while the question was on the screen.
Destroy(d, c) ==
  /\ KindOf[c] = "class"
  /\ local[d][c].here
  /\ Bury(d, Cascade(d, c))
  /\ raced' = raced \cup {r \in Under(c) : ~Knows(d, r)}

-----------------------------------------------------------------------------
(* Synchronising.                                                          *)

\* Mutant: a row built from the wire without its dirty flag.
FromServerWithoutFlag(row) ==
  [here |-> TRUE, ver |-> row.ver, dead |-> row.dead, text |-> row.text]

FromServer(row) ==
  [here |-> TRUE, dirty |-> FALSE, ver |-> row.ver, dead |-> row.dead,
   text |-> row.text]

\* Mutant: a note takes the server's copy, as the other tables do.
NothingForks(r) == FALSE

Forks(r) == IsText(r)

Accepts(d, r) == server[r].ver \in {0, local[d][r].ver}

\* The server stores it.
PushAccepted(d, r) ==
  /\ Accepts(d, r)
  /\ server' = [server EXCEPT ![r] =
       [ver |-> @.ver + 1, dead |-> local[d][r].dead, text |-> local[d][r].text]]
  /\ local' = [local EXCEPT ![d][r] = FromServer(server'[r])]
  /\ UNCHANGED raced

\* A class, a notebook or a deadline in conflict takes the server's copy.
PushOverruled(d, r) ==
  /\ ~Accepts(d, r) /\ ~Forks(r)
  /\ local' = [local EXCEPT ![d][r] = FromServer(server[r])]
  /\ UNCHANGED <<server, raced>>

\* A note in conflict does too, and stays as a copy, still to be pushed.
PushForked(d, r, copy) ==
  /\ ~Accepts(d, r) /\ Forks(r)
  /\ KindOf[copy] = KindOf[r] /\ In[copy] = In[r] /\ Fresh(copy)
  /\ local' = [local EXCEPT ![d] =
       [@ EXCEPT ![copy] = [local[d][r] EXCEPT !.ver = 0],
                 ![r] = FromServer(server[r])]]
  /\ raced' = IF r \in raced THEN raced \cup {copy} ELSE raced
  /\ UNCHANGED server

\* One dirty row is upserted and its answer applied.
PushRow(d, r) ==
  /\ local[d][r].dirty
  /\ \/ PushAccepted(d, r)
     \/ PushOverruled(d, r)
     \/ \E copy \in Rows : PushForked(d, r, copy)
  /\ UNCHANGED <<edits, typed, gone>>

\* A row of a page; one still to be pushed is left alone.
PullRow(d, r) ==
  /\ ~local[d][r].dirty /\ server[r].ver > local[d][r].ver
  /\ local' = [local EXCEPT ![d][r] = FromServer(server[r])]
  /\ UNCHANGED <<server, edits, raced, typed, gone>>

LibraryNext ==
  \E d \in Devices, r \in Rows :
    \/ PushRow(d, r) \/ PullRow(d, r)
    \/ CreateClass(d, r) \/ CreateCollegebook(d, r)
    \/ CreateText(d, r) \/ CreateDeadline(d, r)
    \/ Update(d, r) \/ Delete(d, r) \/ Destroy(d, r)

LibrarySpec == LibraryInit /\ [][LibraryNext]_vars

-----------------------------------------------------------------------------
(* Properties.                                                             *)

\* A class and what is in it come and go together: where a device has all that
\* was done to a row and to its container, the row is not alive without the
\* container, nor a class without its general notebook, unless somebody wrote
\* there without having seen all that was done.
OnlyARaceSplitsAClass ==
  \A d \in Devices, r \in Rows :
    /\ In[r] # NoRow /\ r \notin raced /\ In[r] \notin raced
    /\ Knows(d, r) /\ Knows(d, In[r])
    =>
      /\ local[d][r].here => local[d][In[r]].here
      /\ Live(d, r) => Live(d, In[r])
      /\ KindOf[r] = "general" /\ Live(d, In[r]) => Live(d, r)

\* Deleting a note, or the class around it, takes the text that was there for
\* the deleter to see.  What another device wrote and had not synchronised
\* stays in a live note.
DeletionTakesOnlyWhatItSaw ==
  \A e \in typed \ gone :
    \/ \E r \in Rows : IsText(r) /\ ~server[r].dead /\ e \in server[r].text
    \/ \E d \in Devices, r \in Rows :
         IsText(r) /\ Live(d, r) /\ local[d][r].dirty /\ e \in local[d][r].text

=============================================================================
