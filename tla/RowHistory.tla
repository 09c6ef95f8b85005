----------------------------- MODULE RowHistory -----------------------------
(***************************************************************************)
(* What the server promises the devices that share it: every row is one    *)
(* line of versions.  A write belongs to the account that wrote the first  *)
(* version, makes the next version, and is made by somebody who has seen   *)
(* everything the version before it contains.  There are no devices here,  *)
(* no requests, no conflicts and no faults: NefixSync shows that with all  *)
(* of these a row still has such a history.                                *)
(***************************************************************************)
EXTENDS Naturals

CONSTANTS
  Rows,      \* the rows that may ever exist
  Owners,    \* the accounts
  Nobody,    \* the owner of a row not written yet
  Contents,  \* sets of edits
  Blank      \* the content of a row not written yet

VARIABLE line   \* for each row its owner, its version and the edits in it

Init == line = [i \in Rows |-> [owner |-> Nobody, ver |-> 0, edits |-> Blank]]

Write(i, u, c) ==
  /\ line[i].owner \in {u, Nobody}
  /\ line[i].edits \subseteq c
  /\ line' = [line EXCEPT ![i] = [owner |-> u, ver |-> @.ver + 1, edits |-> c]]

\* The first conjunct only says again that a write shows.
Next ==
  /\ line' # line
  /\ \E i \in Rows, u \in Owners, c \in Contents : Write(i, u, c)

Spec == Init /\ [][Next]_line
=============================================================================
