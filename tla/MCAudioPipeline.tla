--------------------------- MODULE MCAudioPipeline ---------------------------
(***************************************************************************)
(* Instance of AudioPipeline for TLC: two subscribers and queues of two,   *)
(* which three buffers of up to two packets overflow.                       *)
(***************************************************************************)
EXTENDS AudioPipeline

=============================================================================
