---------------------------- MODULE MCModelUplink ----------------------------
(***************************************************************************)
(* Two boards for TLC.                                                     *)
(***************************************************************************)
EXTENDS ModelUplink

CONSTANTS n1, n2

=============================================================================
