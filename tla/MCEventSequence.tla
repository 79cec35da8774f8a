--------------------------- MODULE MCEventSequence ---------------------------
(***************************************************************************)
(* EventSequence for TLC.  Three transactions so that one can wait for the *)
(* lock while another rolls back; two streams at different cursors.        *)
(***************************************************************************)
EXTENDS EventSequence
=============================================================================
