---------------------------- MODULE PumpContract ----------------------------
(***************************************************************************)
(* What a pipeline relies on in a frame pump, whatever the grain at which  *)
(* the pump is described: a start begins with nothing of the run before,   *)
(* frames reach the queue one at a time and in a bounded number, a thread  *)
(* that was not asked to stop goes on, also after a hard error, and one    *)
(* that was asked does end.                                                *)
(***************************************************************************)
EXTENDS Naturals

CONSTANT
  Limit      (* MAX_QUEUE_SIZE                                             *)

VARIABLES
  on,        (* running_                                                   *)
  alive,     (* the capture thread is in its loop                          *)
  pending,   (* it has a frame that is not in the queue yet                *)
  waiting,   (* how many frames the queue has                              *)
  error      (* the hard error of the backend                              *)

pumpVars == <<on, alive, pending, waiting, error>>

PumpInit ==
  /\ on = FALSE
  /\ alive = FALSE
  /\ pending = FALSE
  /\ waiting = 0
  /\ error = FALSE

(* init() of the backend and start().                                      *)
Start ==
  /\ ~on /\ ~alive
  /\ on' = TRUE
  /\ alive' = TRUE
  /\ pending' = FALSE
  /\ waiting' = 0
  /\ error' = FALSE

(* init() of the backend fails, but has forgotten the error.               *)
Forget ==
  /\ ~on /\ ~alive
  /\ error' = FALSE
  /\ UNCHANGED <<on, alive, pending, waiting>>

AskToEnd ==
  /\ on' = FALSE
  /\ UNCHANGED <<alive, pending, waiting, error>>

(* The thread may leave its loop only when it has been asked to.           *)
MayEnd == alive' \in {TRUE, on}

Capture ==
  /\ alive /\ ~pending /\ ~error
  /\ pending' = TRUE
  /\ UNCHANGED <<on, alive, waiting, error>>

(* A full queue makes room by dropping one.                                *)
Deliver ==
  /\ alive /\ pending
  /\ pending' = FALSE
  /\ waiting' = IF waiting < Limit THEN waiting + 1 ELSE Limit
  /\ MayEnd
  /\ UNCHANGED <<on, error>>

Fail ==
  /\ alive /\ ~pending
  /\ error' = TRUE
  /\ MayEnd
  /\ UNCHANGED <<on, pending, waiting>>

End ==
  /\ alive /\ ~pending
  /\ ~on
  /\ alive' = FALSE
  /\ UNCHANGED <<on, pending, waiting, error>>

(* try_pop() or wait_pop() returns a frame.                                *)
Take ==
  /\ waiting > 0
  /\ waiting' = waiting - 1
  /\ UNCHANGED <<on, alive, pending, error>>

(* The pump is destroyed.                                                  *)
Discard ==
  /\ ~on /\ ~alive
  /\ waiting' = 0
  /\ UNCHANGED <<on, alive, pending, error>>

PumpNext ==
  \/ Start \/ Forget \/ AskToEnd \/ Capture \/ Deliver \/ Fail \/ End \/ Take
  \/ Discard

(* A thread that was asked to end does.                                    *)
ThreadEnds == ~on ~> ~alive

PumpSafety == PumpInit /\ [][PumpNext]_pumpVars

PumpSpec == PumpSafety /\ ThreadEnds

=============================================================================
