------------------------------ MODULE MCAccess ------------------------------
(* A small instance of Access for TLC.  The slots are not declared         *)
(* symmetric: WritesComeBack is a liveness property.                       *)
EXTENDS Access
=============================================================================
