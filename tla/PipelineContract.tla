-------------------------- MODULE PipelineContract --------------------------
(***************************************************************************)
(* What MonitorSupervisor and a pipeline rely on in each other.  The       *)
(* supervisor tells a pipeline a size only before it calls stop().  The    *)
(* pipeline publishes only while it is active, reaches STOPPING only when  *)
(* it was asked to stop, ends its thread only as STOPPING or FATAL, and    *)
(* then publishes no more.  Once it is FATAL or stop() was called it does  *)
(* end, which is what the join in stop() and the restart of FATAL          *)
(* pipelines wait for.                                                     *)
(***************************************************************************)
VARIABLES
  told,        (* the size it was made for or was told last                *)
  stopAsked,   (* stop() was called                                        *)
  phase,       (* its state: those between INIT and the terminal ones are  *)
               (* "ACTIVE"                                                 *)
  done,        (* the pipeline thread has returned                         *)
  publishing   (* at least one RTSP client exists                          *)

contractVars == <<told, stopAsked, phase, done, publishing>>

ContractInit ==
  /\ stopAsked = FALSE
  /\ phase = "INIT"
  /\ done = FALSE
  /\ publishing = FALSE

-----------------------------------------------------------------------------
(* The supervisor.                                                         *)

(* notify_resized()                                                        *)
Tell ==
  /\ ~stopAsked
  /\ UNCHANGED <<stopAsked, phase, done, publishing>>

AskStop ==
  /\ stopAsked' = TRUE
  /\ UNCHANGED <<told, phase, done, publishing>>

-----------------------------------------------------------------------------
(* The pipeline.                                                           *)

(* The first frame, an end that was asked for, or a failure.               *)
Move ==
  /\ ~done
  /\ \/ phase = "INIT" /\ phase' = "ACTIVE"
     \/ phase = "ACTIVE" /\ stopAsked /\ phase' = "STOPPING"
     \/ phase \in {"INIT", "ACTIVE"} /\ phase' = "FATAL"
  /\ UNCHANGED <<told, stopAsked, done, publishing>>

(* Connecting, reconnecting, reconfiguring.                                *)
Publish ==
  /\ ~done
  /\ phase = "ACTIVE"
  /\ publishing' \in BOOLEAN
  /\ UNCHANGED <<told, stopAsked, phase, done>>

(* The thread ends.                                                        *)
Finish ==
  /\ ~done
  /\ phase \in {"STOPPING", "FATAL"}
  /\ done' = TRUE
  /\ publishing' = FALSE
  /\ UNCHANGED <<told, stopAsked, phase>>

SupervisorStep == Tell \/ AskStop

PipelineStep == Move \/ Publish \/ Finish

ContractNext == SupervisorStep \/ PipelineStep

(* The part of the contract that every step can keep or break.             *)
ContractSafety == ContractInit /\ [][ContractNext]_contractVars

(* The thread that has to end does end.                                    *)
ContractEnds == stopAsked \/ phase = "FATAL" ~> done

ContractSpec == ContractSafety /\ ContractEnds

=============================================================================
