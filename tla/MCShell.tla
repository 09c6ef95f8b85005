------------------------------ MODULE MCShell ------------------------------
(* A small instance of Shell for TLC.                                      *)
EXTENDS Shell, TLC

\* There is always an id left for the copy of a conflict.
MCIdsSuffice ==
  Cardinality({r \in cycle.rows : r.status = "conflict" /\ Forks(r.id)})
    <= Cardinality(Fresh \ Containers)
=============================================================================
