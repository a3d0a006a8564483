---------------------------- MODULE StateMachine ----------------------------
(***************************************************************************)
(* The state machine of one ScreenPipeline: the transition table and       *)
(* transition_to(), which refuses a transition that the table does not     *)
(* hold.  A refusal leaves the state alone; its caller logs                *)
(* STATE_TRANSITION_FAILED, which is kept here as the set of the refused   *)
(* pairs.                                                                  *)
(***************************************************************************)
VARIABLES
  state,    (* current_                                                    *)
  rejected  (* the <<from, to>> pairs logged as STATE_TRANSITION_FAILED    *)

PipelineState ==
  {"INIT", "CAPTURING", "CONNECTING", "STREAMING", "RECONNECTING",
   "RECONFIGURING", "STOPPING", "FATAL"}

ValidTransitions ==
  {<<"INIT", "CAPTURING">>, <<"INIT", "FATAL">>,
   <<"CAPTURING", "CONNECTING">>, <<"CAPTURING", "STOPPING">>,
   <<"CAPTURING", "FATAL">>,
   <<"CONNECTING", "STREAMING">>, <<"CONNECTING", "CAPTURING">>,
   <<"CONNECTING", "STOPPING">>, <<"CONNECTING", "FATAL">>,
   <<"STREAMING", "RECONNECTING">>, <<"STREAMING", "RECONFIGURING">>,
   <<"STREAMING", "STOPPING">>, <<"STREAMING", "FATAL">>,
   <<"RECONNECTING", "STREAMING">>, <<"RECONNECTING", "CAPTURING">>,
   <<"RECONNECTING", "STOPPING">>,
   <<"RECONFIGURING", "CAPTURING">>, <<"RECONFIGURING", "STOPPING">>,
   <<"RECONFIGURING", "FATAL">>}

StateInit ==
  /\ state = "INIT"
  /\ rejected = {}

(* transition_to(to) together with the log line of a refusal.              *)
TransitionTo(to) ==
  \/ /\ <<state, to>> \in ValidTransitions
     /\ state' = to
     /\ UNCHANGED rejected
  \/ /\ <<state, to>> \notin ValidTransitions
     /\ rejected' = rejected \cup {<<state, to>>}
     /\ UNCHANGED state

=============================================================================
