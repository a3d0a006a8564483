----------------------------- MODULE MCFramePump -----------------------------
(***************************************************************************)
(* Instance of FramePump for TLC, with the queue and the ring of the code; *)
(* eight frames fill the queue twice and take the ring past its end.       *)
(***************************************************************************)
EXTENDS FramePump

=============================================================================
