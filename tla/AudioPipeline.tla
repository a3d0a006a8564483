---------------------------- MODULE AudioPipeline ----------------------------
(***************************************************************************)
(* The shared audio of all monitors: AudioPipeline with its                *)
(* WasapiAudioCapture, its AudioEncoderController and the queues of its    *)
(* subscribers.                                                            *)
(*                                                                         *)
(* The capture thread waits for the device, reads its buffers into a       *)
(* bounded queue and ends at a hard error.  The pipeline thread takes      *)
(* them, encodes them and pushes the packets to every subscriber, one      *)
(* queue and one packet after the other, with subscribers_mutex_ held.     *)
(* The owner starts both and stops them; pipelines of monitors subscribe,  *)
(* take packets and unsubscribe at any time.                               *)
(*                                                                         *)
(* A buffer is its number in the order of capture, which stands for its    *)
(* timestamp; a packet has the number of the last buffer encoded before it *)
(* and its own number in the order of publication.                         *)
(***************************************************************************)
EXTENDS Naturals, Sequences

CONSTANTS
  Subscribers,   (* the ScreenPipelines that may subscribe, each once      *)
  CaptureLimit,  (* WasapiAudioCapture::kMaxQueueSize                      *)
  Capacity,      (* AudioSubscriberQueue::kMaxQueueSize                    *)
  MaxBatch,      (* most packets that one buffer completes                 *)
  MaxBuffers,    (* bound: buffers captured in all                         *)
  None           (* no packet                                              *)

Packet == [no : Nat, capture : Nat]

ASSUME AudioAssumption ==
  /\ CaptureLimit \in Nat \ {0}
  /\ Capacity \in Nat \ {0}
  /\ MaxBatch \in Nat \ {0}
  /\ MaxBuffers \in Nat
  /\ None \notin Packet

VARIABLES
  life,        (* where the owner is: start(), running, stop()             *)
  running,     (* running_ of the pipeline                                 *)
  encoder,     (* encoder_ is initialised                                  *)
  device,      (* the WASAPI objects of capture_ exist                     *)
  capRunning,  (* running_ of the capture                                  *)
  hardError,   (* hard_error_                                              *)
  capturer,    (* where the capture thread is                              *)
  captured,    (* how many buffers were captured                           *)
  buffers,     (* queue_ of the capture                                    *)
  worker,      (* where the pipeline thread is                             *)
  buf,         (* buf of the pipeline thread                               *)
  packets,     (* packets of the pipeline thread                           *)
  serving,     (* the subscribers yet to be served with packets            *)
  pushed,      (* how many packets the first of them has                   *)
  published,   (* history: how many packets were published                 *)
  phase,       (* of a subscriber: "new", "in", "out"                      *)
  subscribers, (* subscribers_                                             *)
  queue,       (* queue_ of each subscriber                                *)
  reach,       (* history: number of the last packet each was given        *)
  taken        (* the packet each took last                                *)

ownerVars   == <<life, running, encoder>>
deviceVars  == <<device, capRunning, hardError>>
captureVars == <<deviceVars, capturer, captured, buffers>>
batchVars   == <<buf, packets, serving, pushed, published>>
screenVars  == <<phase, subscribers, queue, reach, taken>>
vars == <<ownerVars, captureVars, worker, batchVars, screenVars>>

Init ==
  /\ life = "idle"
  /\ running = FALSE
  /\ encoder = FALSE
  /\ device = FALSE
  /\ capRunning = FALSE
  /\ hardError = FALSE
  /\ capturer = "off"
  /\ captured = 0
  /\ buffers = <<>>
  /\ worker = "off"
  /\ buf = 0
  /\ packets = <<>>
  /\ serving = <<>>
  /\ pushed = 0
  /\ published = 0
  /\ phase = [s \in Subscribers |-> "new"]
  /\ subscribers = <<>>
  /\ queue = [s \in Subscribers |-> <<>>]
  /\ reach = [s \in Subscribers |-> 0]
  /\ taken = [s \in Subscribers |-> None]

(* subscribers_mutex_ is held while packets are pushed.                    *)
MutexFree == worker # "push"

-----------------------------------------------------------------------------
(* The owner: start(), called once, and stop().                            *)

(* capture_.init() opens the device and creates the capture thread.        *)
OpenCapture ==
  /\ life = "idle"
  /\ device' = TRUE
  /\ hardError' = FALSE
  /\ capRunning' = TRUE
  /\ capturer' = "wait"
  /\ life' = "encoderInit"
  /\ UNCHANGED <<running, encoder, captured, buffers, worker, batchVars,
                 screenVars>>

(* What init() had opened goes with the object, which is not kept.         *)
OpenCaptureFails ==
  /\ life = "idle"
  /\ life' = "failed"
  /\ UNCHANGED <<running, encoder, captureVars, worker, batchVars, screenVars>>

OpenEncoder ==
  /\ life = "encoderInit"
  /\ encoder' = TRUE
  /\ running' = TRUE
  /\ worker' = "loop"
  /\ life' = "live"
  /\ UNCHANGED <<captureVars, batchVars, screenVars>>

(* Mutant: the event is set and the flag is not.                           *)
SignalCaptureOnly == UNCHANGED capRunning

(* release() of the capture lowers running_ and sets the event ...         *)
AskCaptureToStop == capRunning' = FALSE

(* ... and after the join frees the device and empties the queue.          *)
ReleaseDevice ==
  /\ capturer = "off"
  /\ device' = FALSE
  /\ buffers' = <<>>
  /\ UNCHANGED <<capRunning, hardError, capturer, captured>>

OpenEncoderFails ==
  /\ life = "encoderInit"
  /\ AskCaptureToStop
  /\ life' = "undo"
  /\ UNCHANGED <<running, encoder, device, hardError, capturer, captured,
                 buffers, worker, batchVars, screenVars>>

Undo ==
  /\ life = "undo"
  /\ ReleaseDevice
  /\ life' = "failed"
  /\ UNCHANGED <<running, encoder, worker, batchVars, screenVars>>

Stop ==
  /\ life = "live"
  /\ running' = FALSE
  /\ life' = "join"
  /\ UNCHANGED <<encoder, captureVars, worker, batchVars, screenVars>>

(* Mutant: stop() without the join.                                        *)
WorkerNotJoined == TRUE

(* thread_.join() returns.                                                 *)
WorkerJoined == worker = "off"

ResetEncoder ==
  /\ life = "join"
  /\ WorkerJoined
  /\ encoder' = FALSE
  /\ AskCaptureToStop
  /\ life' = "release"
  /\ UNCHANGED <<running, device, hardError, capturer, captured, buffers,
                 worker, batchVars, screenVars>>

Release ==
  /\ life = "release"
  /\ ReleaseDevice
  /\ life' = "gone"
  /\ UNCHANGED <<running, encoder, worker, batchVars, screenVars>>

-----------------------------------------------------------------------------
(* WasapiAudioCapture::capture_thread_func().                              *)

(* The wait ends, by the event or by the timeout, and running_ is false.   *)
CaptureEnds ==
  /\ capturer = "wait"
  /\ ~capRunning
  /\ capturer' = "off"
  /\ UNCHANGED <<ownerVars, deviceVars, captured, buffers, worker, batchVars,
                 screenVars>>

(* Mutant: the thread ends without a word.                                 *)
CaptureBreaksSilently ==
  /\ hardError' = hardError
  /\ capRunning' = FALSE
  /\ capturer' = "off"

CaptureBreaks ==
  /\ hardError' = TRUE
  /\ capRunning' = FALSE
  /\ capturer' = "off"

(* Two seconds without an event, or GetNextPacketSize fails after one.     *)
CaptureFails ==
  /\ capturer = "wait"
  /\ capRunning
  /\ CaptureBreaks
  /\ UNCHANGED <<ownerVars, device, captured, buffers, worker, batchVars,
                 screenVars>>

(* The event, and the device has at least one packet.                      *)
CaptureWakes ==
  /\ capturer = "wait"
  /\ capRunning
  /\ capturer' = "get"
  /\ UNCHANGED <<ownerVars, deviceVars, captured, buffers, worker, batchVars,
                 screenVars>>

(* Mutant: no limit.                                                       *)
QueueBufferUnlimited(b) == Append(buffers, b)

(* The newest buffer goes in, the oldest goes if there are too many.       *)
QueueBuffer(b) ==
  Append(IF Len(buffers) < CaptureLimit THEN buffers ELSE Tail(buffers), b)

(* GetBuffer succeeds; the device may have more.                           *)
CaptureBuffer ==
  /\ capturer = "get"
  /\ captured < MaxBuffers
  /\ captured' = captured + 1
  /\ buffers' = QueueBuffer(captured + 1)
  /\ capturer' \in {"get", "wait"}
  /\ UNCHANGED <<ownerVars, deviceVars, worker, batchVars, screenVars>>

(* GetBuffer fails, or gives an empty buffer and then nothing more.        *)
CaptureNothing ==
  /\ capturer = "get"
  /\ capturer' = "wait"
  /\ UNCHANGED <<ownerVars, deviceVars, captured, buffers, worker, batchVars,
                 screenVars>>

-----------------------------------------------------------------------------
(* AudioPipeline::pipeline_thread_func().                                  *)

WorkerEnds ==
  /\ worker = "loop"
  /\ ~running
  /\ worker' = "off"
  /\ UNCHANGED <<ownerVars, captureVars, batchVars, screenVars>>

(* Mutant: an error is noticed only when there is a buffer.                *)
DeviceLostWithBuffer == hardError /\ buffers # <<>>

(* has_hard_error().                                                       *)
DeviceLost == hardError

(* The device is lost: audio ends, and with it what is still in the queue. *)
WorkerSeesError ==
  /\ worker = "loop"
  /\ running /\ DeviceLost
  /\ running' = FALSE
  /\ worker' = "off"
  /\ UNCHANGED <<life, encoder, captureVars, batchVars, screenVars>>

WorkerGoesOn ==
  /\ worker = "loop"
  /\ running /\ ~DeviceLost
  /\ worker' = "pop"
  /\ UNCHANGED <<ownerVars, captureVars, batchVars, screenVars>>

(* Mutant: the newest buffer is taken.                                     *)
WaitPopNewest ==
  /\ worker = "pop"
  /\ buffers # <<>>
  /\ buf' = buffers[Len(buffers)]
  /\ buffers' = SubSeq(buffers, 1, Len(buffers) - 1)
  /\ worker' = "encode"
  /\ UNCHANGED <<ownerVars, deviceVars, capturer, captured, packets, serving,
                 pushed, published, screenVars>>

(* The oldest buffer is taken.                                             *)
WaitPop ==
  /\ worker = "pop"
  /\ buffers # <<>>
  /\ buf' = Head(buffers)
  /\ buffers' = Tail(buffers)
  /\ worker' = "encode"
  /\ UNCHANGED <<ownerVars, deviceVars, capturer, captured, packets, serving,
                 pushed, published, screenVars>>

(* 200 ms pass; the predicate, evaluated once more, is still false.        *)
WaitPopTimesOut ==
  /\ worker = "pop"
  /\ buffers = <<>>
  /\ worker' = "loop"
  /\ UNCHANGED <<ownerVars, captureVars, batchVars, screenVars>>

(* encode() fails, and packets it may have made are not sent; or the       *)
(* samples do not complete a packet yet.                                   *)
EncodeNothing ==
  /\ worker = "encode"
  /\ worker' = "loop"
  /\ UNCHANGED <<ownerVars, captureVars, batchVars, screenVars>>

(* The packets are published to those who are subscribed by now.           *)
Encode ==
  /\ worker = "encode"
  /\ \E n \in 1 .. MaxBatch :
       /\ packets' = [i \in 1 .. n |-> [no |-> published + i, capture |-> buf]]
       /\ published' = published + n
  /\ serving' = subscribers
  /\ pushed' = 0
  /\ worker' = IF subscribers = <<>> THEN "loop" ELSE "push"
  /\ UNCHANGED <<ownerVars, captureVars, buf, screenVars>>

(* Mutant: when the queue is full the new packet is dropped.               *)
PushUnlessFull(q, p) == IF Len(q) < Capacity THEN Append(q, p) ELSE q

(* AudioSubscriberQueue::push().                                           *)
Pushed(q, p) == Append(IF Len(q) < Capacity THEN q ELSE Tail(q), p)

(* One push: the next packet to the subscriber whose turn it is.           *)
Push ==
  /\ worker = "push"
  /\ LET s == Head(serving)
         p == packets[pushed + 1]
     IN  /\ queue' = [queue EXCEPT ![s] = Pushed(@, p)]
         /\ reach' = [reach EXCEPT ![s] = p.no]
  /\ IF pushed + 1 < Len(packets)
     THEN /\ pushed' = pushed + 1
          /\ UNCHANGED <<serving, worker>>
     ELSE /\ pushed' = 0
          /\ serving' = Tail(serving)
          /\ worker' = IF Len(serving) = 1 THEN "loop" ELSE "push"
  /\ UNCHANGED <<ownerVars, captureVars, buf, packets, published, phase,
                 subscribers, taken>>

-----------------------------------------------------------------------------
(* The ScreenPipelines.                                                    *)

(* Mutant: subscribe() without subscribers_mutex_.                         *)
MayJoinAnyTime == TRUE

MayJoin == MutexFree

(* The constructor; a late poll may construct a pipeline after stop().     *)
Subscribe(s) ==
  /\ life \notin {"idle", "encoderInit", "undo", "failed"}
  /\ phase[s] = "new"
  /\ MayJoin
  /\ phase' = [phase EXCEPT ![s] = "in"]
  /\ subscribers' = Append(subscribers, s)
  /\ reach' = [reach EXCEPT ![s] = published]
  /\ UNCHANGED <<ownerVars, captureVars, worker, batchVars, queue, taken>>

(* The streaming loop takes a packet with try_pop().                       *)
TryPop(s) ==
  /\ phase[s] = "in"
  /\ queue[s] # <<>>
  /\ taken' = [taken EXCEPT ![s] = Head(queue[s])]
  /\ queue' = [queue EXCEPT ![s] = Tail(@)]
  /\ UNCHANGED <<ownerVars, captureVars, worker, batchVars, phase, subscribers,
                 reach>>

(* erase() of the i-th element: the others keep their order.               *)
Without(q, i) == [j \in 1 .. Len(q) - 1 |-> q[IF j < i THEN j ELSE j + 1]]

(* The destructor.                                                         *)
Unsubscribe(s) ==
  /\ phase[s] = "in"
  /\ MutexFree
  /\ phase' = [phase EXCEPT ![s] = "out"]
  /\ \E i \in DOMAIN subscribers :
       /\ subscribers[i] = s
       /\ subscribers' = Without(subscribers, i)
  /\ UNCHANGED <<ownerVars, captureVars, worker, batchVars, queue, reach,
                 taken>>

-----------------------------------------------------------------------------
Owner ==
  \/ OpenCapture \/ OpenCaptureFails \/ OpenEncoder \/ OpenEncoderFails
  \/ Undo \/ Stop \/ ResetEncoder \/ Release

Capturer ==
  \/ CaptureEnds \/ CaptureFails \/ CaptureWakes \/ CaptureBuffer
  \/ CaptureNothing

Worker ==
  \/ WorkerEnds \/ WorkerSeesError \/ WorkerGoesOn \/ WaitPop
  \/ WaitPopTimesOut \/ EncodeNothing \/ Encode \/ Push

Screens == \E s \in Subscribers : Subscribe(s) \/ TryPop(s) \/ Unsubscribe(s)

Next == Owner \/ Capturer \/ Worker \/ Screens

Spec == Init /\ [][Next]_vars

(* Both threads keep running: every wait has a deadline or is ended by     *)
(* SetEvent, and no call of theirs blocks for ever.  stop() goes on once   *)
(* its joins return; whether it is called is up to the user.               *)
FairSpec ==
  /\ Spec
  /\ WF_vars(Capturer)
  /\ WF_vars(Worker)
  /\ WF_vars(Undo \/ ResetEncoder \/ Release)

-----------------------------------------------------------------------------
(* Type invariant: every variable has its type, and the two queues never   *)
(* exceed their limits.                                                    *)
TypeOK ==
  /\ life \in {"idle", "encoderInit", "undo", "failed", "live", "join",
               "release", "gone"}
  /\ running \in BOOLEAN
  /\ encoder \in BOOLEAN
  /\ device \in BOOLEAN
  /\ capRunning \in BOOLEAN
  /\ hardError \in BOOLEAN
  /\ capturer \in {"off", "wait", "get"}
  /\ captured \in 0 .. MaxBuffers
  /\ buffers \in Seq(Nat)
  /\ Len(buffers) <= CaptureLimit
  /\ worker \in {"off", "loop", "pop", "encode", "push"}
  /\ buf \in Nat
  /\ packets \in Seq(Packet)
  /\ serving \in Seq(Subscribers)
  /\ pushed \in Nat
  /\ published \in Nat
  /\ phase \in [Subscribers -> {"new", "in", "out"}]
  /\ subscribers \in Seq(Subscribers)
  /\ queue \in [Subscribers -> Seq(Packet)]
  /\ \A s \in Subscribers : Len(queue[s]) <= Capacity
  /\ reach \in [Subscribers -> Nat]
  /\ taken \in [Subscribers -> Packet \cup {None}]

(* Neither thread touches what release() or reset() has freed: no order of *)
(* a failed start, a hard error and stop() frees the encoder under the     *)
(* pipeline thread or the device under the capture thread.                 *)
ThreadsHaveResources ==
  /\ capturer # "off" => device
  /\ worker # "off" => encoder /\ device
  /\ life \in {"failed", "gone"} =>
       /\ capturer = "off" /\ worker = "off"
       /\ ~device /\ ~encoder

(* is_running(), by which a connection decides to announce an audio        *)
(* stream, means that audio is produced: both threads are alive, or the    *)
(* hard error that ends the pipeline thread next is already set.           *)
RunningMeansAlive ==
  running => worker # "off" /\ (capturer # "off" \/ hardError)

(* The packets in a queue are the last ones the subscriber was given,      *)
(* without a gap, and everyone has the same stream up to the same packet   *)
(* unless one is being pushed: pushes to several queues, packets taken in  *)
(* between, joins and leaves never make a subscriber miss a packet.        *)
EveryoneHasTheStream ==
  \A s \in Subscribers :
    /\ Len(queue[s]) <= reach[s]
    /\ \A i \in DOMAIN queue[s] :
         queue[s][i].no = reach[s] - Len(queue[s]) + i
    /\ phase[s] = "in" /\ MutexFree => reach[s] = published

(* A subscriber takes packets in the order of their capture, never an      *)
(* older one after a newer one, although two queues on the way drop what   *)
(* is too much: audio pts follow the capture time.                         *)
AudioInOrder ==
  [][\A s \in Subscribers :
       taken[s] # None =>
         taken'[s].no >= taken[s].no /\ taken'[s].capture >= taken[s].capture]_vars

(* For its subscribers the pipeline is one broadcast stream.               *)
Broadcast == INSTANCE AudioBroadcast WITH
  members <- {s \in Subscribers : phase[s] = "in"},
  next    <- [s \in Subscribers |->
                IF queue[s] = <<>> THEN reach[s] + 1 ELSE queue[s][1].no]

(* The two threads, the mutexes and the queues implement the broadcast: a  *)
(* subscriber loses packets only if it lags by a full queue, and then the  *)
(* oldest, one for each new packet.                                        *)
ImplementsBroadcast == Broadcast!Spec

(* Losing the device ends audio: after a hard error is_running() becomes   *)
(* false, wherever the pipeline thread was.                                *)
HardErrorEndsAudio == hardError ~> ~running

(* stop() returns: both joins do, also when the device failed before.      *)
StopReturns == life = "join" ~> life = "gone"
=============================================================================
