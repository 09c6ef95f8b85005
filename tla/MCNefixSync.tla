---------------------------- MODULE MCNefixSync ----------------------------
(* Small instances of NefixSync for TLC.                                   *)
EXTENDS NefixSync, TLC

CONSTANTS d1, d2, t1, t2

MCBodies == SUBSET (1..MaxEdits)

\* One tab on each of two devices, and two tabs on the first.
MCOneTabEach == [t \in Tabs |-> IF t = t1 THEN d1 ELSE d2]
MCSameDevice == [t \in Tabs |-> d1]

\* Requests and accounts are interchangeable, and so are two devices with one
\* tab each when they change places together with their tabs.
Swap    == (d1 :> d2) @@ (d2 :> d1) @@ (t1 :> t2) @@ (t2 :> t1)
Stay    == (d1 :> d1) @@ (d2 :> d2) @@ (t1 :> t1) @@ (t2 :> t2)
MCSymmetry == Permutations(Handlers)
MCFullSymmetry == {h @@ u @@ d : h \in Permutations(Handlers),
                                 u \in Permutations(Users), d \in {Swap, Stay}}

MCNotes == [i \in Ids |-> "note"]
MCClassAndNotes == [i \in Ids |-> IF i = 1 THEN "class" ELSE "note"]
=============================================================================
