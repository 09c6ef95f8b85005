-------------------------- MODULE MCEditorSession --------------------------
(* Small instances of EditorSession for TLC: one device with its editor,   *)
(* and whatever the others push.                                           *)
EXTENDS EditorSession, TLC

CONSTANTS d1, t1

MCBodies == SUBSET (1..MaxEdits)
MCDevice == [t \in Tabs |-> d1]
MCNotes  == [i \in Ids |-> "note"]
=============================================================================
