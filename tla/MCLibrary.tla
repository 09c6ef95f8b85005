----------------------------- MODULE MCLibrary -----------------------------
(* A small instance of Library for TLC: a class with its general notebook  *)
(* on two devices, ids for notes and for copies, for a book with two pages *)
(* and a deadline in it, and for a second class.                           *)
EXTENDS Library, TLC

MCKinds == <<"class", "general", "note", "note", "note", "book", "page", "page",
             "deadline", "class", "general">>
MCIn    == <<0, 1, 2, 2, 2, 1, 6, 6, 1, 0, 10>>

\* Every copy a conflict asks for has an id left.
MCIdsSuffice ==
  \A d \in Devices, n \in {2, 6} :
    Cardinality({r \in Rows : In[r] = n /\ local[d][r].dirty
                              /\ server[r].ver \notin {0, local[d][r].ver}})
      <= Cardinality({r \in Rows : In[r] = n /\ Unused(r)})

MCSymmetry == Permutations(Devices)
=============================================================================
