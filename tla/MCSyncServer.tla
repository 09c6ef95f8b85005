---------------------------- MODULE MCSyncServer ----------------------------
(* Small instances of SyncServer for TLC.                                  *)
EXTENDS SyncServer, TLC

\* Two notebooks' worth of tables: a class, a note and, where asked for, a
\* second note, so that a page can be cut inside one table and between two.
MCTwoTables   == [i \in Ids |-> IF i = 1 THEN "class" ELSE "note"]

MCSymmetry == Permutations(Handlers)
=============================================================================
