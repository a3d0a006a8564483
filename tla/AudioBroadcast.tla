---------------------------- MODULE AudioBroadcast ----------------------------
(***************************************************************************)
(* What the shared audio pipeline promises its subscribers: one stream of  *)
(* packets, numbered as they are published.  A subscriber gets the packets *)
(* published after it joined, each once and in order, and misses only      *)
(* those it is more than Capacity packets too late for.                    *)
(***************************************************************************)
EXTENDS Naturals

CONSTANTS
  Subscribers,  (* the pipelines that may subscribe                        *)
  Capacity,     (* kMaxQueueSize of AudioSubscriberQueue                   *)
  MaxBatch      (* most packets of one captured buffer                     *)

VARIABLES
  published,  (* how many packets were published                           *)
  members,    (* who is subscribed                                         *)
  reach,      (* the number of the last packet each member was given       *)
  next        (* the number of the packet each member takes next           *)

vars == <<published, members, reach, next>>

Init ==
  /\ published = 0
  /\ members = {}
  /\ reach = [s \in Subscribers |-> 0]
  /\ next = [s \in Subscribers |-> 1]

(* A batch is published when everyone has the batches before it.           *)
Publish ==
  /\ \A s \in members : reach[s] = published
  /\ \E n \in 1 .. MaxBatch : published' = published + n
  /\ UNCHANGED <<members, reach, next>>

(* A member is given the next packet; if it lags by more than Capacity, it *)
(* misses the oldest.                                                      *)
Deliver(s) ==
  /\ s \in members
  /\ reach[s] < published
  /\ reach' = [reach EXCEPT ![s] = @ + 1]
  /\ next' = [next EXCEPT ![s] = IF reach[s] + 1 < @ + Capacity THEN @ ELSE @ + 1]
  /\ UNCHANGED <<published, members>>

Take(s) ==
  /\ next[s] <= reach[s]
  /\ next' = [next EXCEPT ![s] = @ + 1]
  /\ UNCHANGED <<published, members, reach>>

(* A new member starts with the next packet that is published.             *)
Subscribe(s) ==
  /\ s \notin members
  /\ \A m \in members : reach[m] = published
  /\ members' = members \cup {s}
  /\ reach' = [reach EXCEPT ![s] = published]
  /\ next' = [next EXCEPT ![s] = published + 1]
  /\ UNCHANGED published

Unsubscribe(s) ==
  /\ s \in members
  /\ \A m \in members : reach[m] = published
  /\ members' = members \ {s}
  /\ UNCHANGED <<published, reach, next>>

Next ==
  \/ Publish
  \/ \E s \in Subscribers :
       Deliver(s) \/ Take(s) \/ Subscribe(s) \/ Unsubscribe(s)

Spec == Init /\ [][Next]_vars

=============================================================================
