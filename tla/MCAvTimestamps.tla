---------------------------- MODULE MCAvTimestamps ----------------------------
(***************************************************************************)
(* Instance of AvTimestamps for TLC: a second of 5 units, 2 frames and 5   *)
(* samples a second.  The frame interval of 2.5 units is rounded down, so  *)
(* that frames at full pace need bumps.                                    *)
(***************************************************************************)
EXTENDS AvTimestamps

MCJumps == {-2}

=============================================================================
