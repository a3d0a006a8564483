--------------------------- MODULE ScreenPipeline ---------------------------
(***************************************************************************)
(* One ScreenPipeline: the pipeline thread (pipeline_thread_func and the   *)
(* do_* functions it dispatches to), the capture thread of its FramePump,  *)
(* the DXGI backend and the encoder they use, the RTSP clients, and the    *)
(* two calls a supervisor makes while the thread runs: stop() and          *)
(* notify_resized().                                                       *)
(*                                                                         *)
(* The pipeline thread is a program counter over its blocking calls and    *)
(* its reads of shared flags; what happens between two of them touches     *)
(* only the thread's own state and is one step.  A call that can fail      *)
(* (DuplicateOutput, AcquireNextFrame, the encoder, the network) is a      *)
(* choice.  Time is abstracted: a wait may end as soon as its condition    *)
(* holds or its timeout may pass at any moment.                            *)
(***************************************************************************)
EXTENDS Naturals, Sequences, StateMachine

CONSTANTS
  Sizes,         (* resolutions a monitor can have                         *)
  MaxQueueSize,  (* FramePump::MAX_QUEUE_SIZE                              *)
  MaxRetries,    (* kMaxRetries of init_capture_with_retry                 *)
  NumUrls,       (* RTSP URLs of the monitor: 2 if it is the primary       *)
  None           (* no frame, no encoder, no size                          *)

(* A frame holds BGRA pixels ("cpu"), a texture of the current D3D11       *)
(* device ("gpu"), or a texture of a device that was released since        *)
(* ("dead").                                                               *)
Frame == [size : Sizes, kind : {"cpu", "gpu", "dead"}]

(* What the pipeline can see of an EncoderController that is initialised:  *)
(* its size, is_gpu_zero_copy_active, whether a frame was submitted        *)
(* (frame_count, and with it first_frame_time_us_, is not 0) and           *)
(* force_next_idr.                                                         *)
Encoder ==
  [size : Sizes, zeroCopy : BOOLEAN, started : BOOLEAN, forceIdr : BOOLEAN]

ASSUME ConstantsAssumption ==
  /\ MaxQueueSize \in Nat \ {0}
  /\ MaxRetries \in Nat \ {0}
  /\ NumUrls \in Nat \ {0}
  /\ None \notin Sizes
  /\ None \notin Frame
  /\ None \notin Encoder

VARIABLES
  pc,            (* where the pipeline thread is                           *)
  stop,          (* stop_requested_                                        *)
  resizeFlag,    (* resize_pending_                                        *)
  pendingSize,   (* pending_resize_                                        *)
  notifying,     (* notify_resized() is between its two writes             *)
  monitorSize,   (* the size the supervisor last passed to the pipeline    *)
  size,          (* current_width_ x current_height_                       *)
  target,        (* the size passed to backend->init()                     *)
  retries,       (* the loop counter of init_capture_with_retry            *)
  backend,       (* capture_backend_                                       *)
  pump,          (* frame_pump_: "none", "stopped", "stopping", "running"  *)
  capturing,     (* the capture thread is in its loop                      *)
  held,          (* the frame the capture thread has yet to queue          *)
  queue,         (* FramePump::queue_                                      *)
  freeze,        (* freeze_buf, or initial_frame_buf_ outside the loop     *)
  encoder,       (* encoder_                                               *)
  clients,       (* how many of the URLs have a client                     *)
  linked,        (* every client is_connected()                            *)
  fresh,         (* the clients have yet to be sent their first packet     *)
  audioStream,   (* the clients were connected with an audio stream        *)
  packet         (* the packet encode() produced: a key frame or not       *)

machineVars == <<state, rejected>>
resizeVars  == <<resizeFlag, pendingSize, notifying, monitorSize>>
initVars    == <<size, target, retries>>
pumpVars    == <<pump, capturing, held, queue>>
clientVars  == <<clients, linked, fresh, audioStream>>
streamVars  == <<freeze, encoder, packet>>
vars == <<machineVars, pc, stop, resizeVars, initVars, backend, pumpVars,
          clientVars, streamVars>>

Locations ==
  {"init", "initFailed", "firstFrame", "initStop", "dispatch", "connect",
   "connectWait", "streamHead", "framePop", "encode", "send",
   "reconnectHead", "backoff", "reconnect", "reconfStop", "resizeSwap",
   "resizeRead", "reinit", "seed", "teardown", "exited"}

Backend ==
  [dev : {"none", "released", "ready"}, logical : Sizes, physical : Sizes,
   zeroCopy : BOOLEAN, hardError : BOOLEAN]

(* The constructor and start(): the thread is created and nothing else is. *)
Init ==
  /\ StateInit
  /\ pc = "init"
  /\ stop = FALSE
  /\ resizeFlag = FALSE
  /\ pendingSize = None
  /\ notifying = FALSE
  /\ monitorSize \in Sizes
  /\ size = None
  /\ target = monitorSize
  /\ retries = 0
  /\ backend = [dev |-> "none", logical |-> monitorSize,
                physical |-> monitorSize, zeroCopy |-> FALSE,
                hardError |-> FALSE]
  /\ pump = "none"
  /\ capturing = FALSE
  /\ held = None
  /\ queue = <<>>
  /\ freeze = None
  /\ encoder = None
  /\ clients = 0
  /\ linked = FALSE
  /\ fresh = FALSE
  /\ audioStream = FALSE
  /\ packet = "delta"

-----------------------------------------------------------------------------
(* The capture backend and the frame pump, as the pipeline calls them.     *)

(* Mutant: release() that leaves zero-copy mode and keeps the device.      *)
ReleasedModeOnly == [backend EXCEPT !.zeroCopy = FALSE]

(* DxgiCaptureBackend::release(): the device goes; textures of it that a   *)
(* frame still refers to become dead.                                      *)
Released == [backend EXCEPT !.dev = "released", !.zeroCopy = FALSE]

Orphaned(f) ==
  IF f # None /\ f.kind = "gpu" THEN [f EXCEPT !.kind = "dead"] ELSE f

(* A successful init() at the size it is given; the desktop has whatever   *)
(* physical size the monitor is in.                                        *)
Opened(logical, physical) ==
  [dev |-> "ready", logical |-> logical, physical |-> physical,
   zeroCopy |-> FALSE, hardError |-> FALSE]

(* supports_zero_copy(): no scaler is needed between the two sizes.        *)
SupportsZeroCopy == backend.dev = "ready" /\ backend.physical = backend.logical

(* acquire_frame(): zero-copy mode returns the texture as it is, at the    *)
(* physical size; the CPU path returns pixels at the logical size.         *)
AcquiredFrame ==
  IF backend.zeroCopy
  THEN [size |-> backend.physical, kind |-> "gpu"]
  ELSE [size |-> backend.logical, kind |-> "cpu"]

(* Mutant: start() without queue_.clear().                                 *)
StartPumpKeepingFrames ==
  /\ pump' = "running"
  /\ capturing' = TRUE
  /\ held' = None
  /\ UNCHANGED queue

(* FramePump::start() drops the frames of an earlier run.                  *)
StartPump ==
  /\ pump' = "running"
  /\ capturing' = TRUE
  /\ held' = None
  /\ queue' = <<>>

(* FramePump::stop() up to its join: the thread ends after its iteration.  *)
AskPumpToStop ==
  /\ pump' = "stopping"
  /\ UNCHANGED <<capturing, held, queue>>

(* Mutant: stop() without the join.                                        *)
PumpNotJoined == pump = "stopping"

(* The join returns once the capture thread has left its loop.             *)
PumpJoined == pump = "stopping" /\ ~capturing

(* try_pop() and wait_pop() return false only if the queue is empty.       *)
Pop ==
  /\ freeze' = IF queue = <<>> THEN freeze ELSE Head(queue)
  /\ queue' = IF queue = <<>> THEN <<>> ELSE Tail(queue)
  /\ UNCHANGED <<pump, capturing, held>>

-----------------------------------------------------------------------------
(* do_init_and_capture().                                                  *)

(* One iteration of init_capture_with_retry() that succeeds: the pump      *)
(* starts and the first frame is awaited.                                  *)
CaptureInit ==
  /\ pc = "init"
  /\ ~stop /\ retries < MaxRetries
  /\ \E physical \in Sizes : backend' = Opened(target, physical)
  /\ StartPump
  /\ TransitionTo("CAPTURING")
  /\ pc' = "firstFrame"
  /\ UNCHANGED <<stop, resizeVars, initVars, clientVars, streamVars>>

(* The backend is new: there is no error that init() could forget.         *)
CaptureInitFails ==
  /\ pc = "init"
  /\ ~stop /\ retries < MaxRetries
  /\ retries' = retries + 1
  /\ UNCHANGED <<machineVars, pc, stop, resizeVars, size, target, backend,
                 pumpVars, clientVars, streamVars>>

(* Out of attempts, or asked to stop: FATAL, which the supervisor may see  *)
(* before the thread has returned.                                         *)
CaptureInitGivesUp ==
  /\ pc = "init"
  /\ stop \/ retries = MaxRetries
  /\ TransitionTo("FATAL")
  /\ pc' = "initFailed"
  /\ UNCHANGED <<stop, resizeVars, initVars, backend, pumpVars, clientVars,
                 streamVars>>

(* pipeline_thread_func() returns; there is nothing to tear down.          *)
ReturnFromInit ==
  /\ pc = "initFailed"
  /\ pc' = "exited"
  /\ UNCHANGED <<machineVars, stop, resizeVars, initVars, backend, pumpVars,
                 clientVars, streamVars>>

FirstFrame ==
  /\ pc = "firstFrame"
  /\ queue # <<>>
  /\ Pop
  /\ size' = Head(queue).size
  /\ pc' = "dispatch"
  /\ UNCHANGED <<machineVars, stop, resizeVars, target, retries, backend,
                 clientVars, encoder, packet>>

FirstFrameTimeout ==
  /\ pc = "firstFrame"
  /\ queue = <<>>
  /\ TransitionTo("FATAL")
  /\ AskPumpToStop
  /\ pc' = "initStop"
  /\ UNCHANGED <<stop, resizeVars, initVars, backend, clientVars, streamVars>>

(* frame_pump_->stop() returns, the backend is released, the thread ends.  *)
FirstFrameCleanup ==
  /\ pc = "initStop"
  /\ PumpJoined
  /\ pump' = "stopped"
  /\ backend' = Released
  /\ queue' = [i \in DOMAIN queue |-> Orphaned(queue[i])]
  /\ pc' = "exited"
  /\ UNCHANGED <<machineVars, stop, resizeVars, initVars, capturing, held,
                 clientVars, streamVars>>

-----------------------------------------------------------------------------
(* The dispatch loop of pipeline_thread_func().                            *)

(* The first half of teardown_all(): drop the saved frame, stop the pump.  *)
BeginTeardown ==
  /\ freeze' = None
  /\ AskPumpToStop
  /\ pc' = "teardown"
  /\ UNCHANGED <<stop, resizeVars, initVars, backend, clientVars, encoder,
                 packet>>

DispatchStop ==
  /\ pc = "dispatch" /\ stop
  /\ TransitionTo("STOPPING")
  /\ BeginTeardown

DispatchTerminal ==
  /\ pc = "dispatch" /\ ~stop
  /\ state \in {"FATAL", "STOPPING"}
  /\ BeginTeardown
  /\ UNCHANGED machineVars

(* rtsp_clients_.clear(): each client disconnects.                         *)
ClientsDropped ==
  /\ clients' = 0
  /\ linked' = FALSE
  /\ fresh' = FALSE

(* The rest of teardown_all(): the pump, the clients, the encoder and the  *)
(* backend go, in this order.                                              *)
Teardown ==
  /\ pc = "teardown"
  /\ PumpJoined
  /\ pump' = "none"
  /\ queue' = <<>>
  /\ ClientsDropped
  /\ encoder' = None
  /\ backend' = [Released EXCEPT !.dev = "none"]
  /\ pc' = "exited"
  /\ UNCHANGED <<machineVars, stop, resizeVars, initVars, capturing, held,
                 audioStream, freeze, packet>>

-----------------------------------------------------------------------------
(* do_connect().                                                           *)

(* Of the encoders to try, the first that opens on the shared device (if   *)
(* there is one) is zero-copy, any other takes pixels.                     *)
ZeroCopyChoices == {FALSE} \cup (IF SupportsZeroCopy THEN {TRUE} ELSE {})

(* A successful init() of the encoder.                                     *)
OpenedEncoder(zeroCopy) ==
  [size |-> size, zeroCopy |-> zeroCopy, started |-> FALSE, forceIdr |-> FALSE]

(* The encoder opens and capture is switched to the same mode.             *)
OpenEncoder ==
  /\ pc = "dispatch" /\ ~stop
  /\ state = "CAPTURING"
  /\ TransitionTo("CONNECTING")
  /\ \E zeroCopy \in ZeroCopyChoices :
       /\ encoder' = OpenedEncoder(zeroCopy)
       /\ backend' = [backend EXCEPT !.zeroCopy = zeroCopy]
  /\ ClientsDropped
  /\ audioStream' \in BOOLEAN
  /\ pc' = "connect"
  /\ UNCHANGED <<stop, resizeVars, initVars, pumpVars, freeze, packet>>

(* encoder_->init() fails: CAPTURING -> CONNECTING -> FATAL.  do_connect() *)
(* returns false, so the thread waits once more before it dispatches.      *)
OpenEncoderFails ==
  /\ pc = "dispatch" /\ ~stop
  /\ state = "CAPTURING"
  /\ <<"CAPTURING", "CONNECTING">> \in ValidTransitions
  /\ <<"CONNECTING", "FATAL">> \in ValidTransitions
  /\ state' = "FATAL"
  /\ pc' = "connectWait"
  /\ UNCHANGED <<rejected, stop, resizeVars, initVars, backend, pumpVars,
                 clientVars, streamVars>>

(* Mutant: one client is enough.                                           *)
AnyConnected(n) == n >= 1

(* The loop over the URLs has come to its end.                             *)
AllConnected(n) == n = NumUrls

(* connect() of one client succeeds; a failure leaves nothing behind.      *)
ClientConnected == clients' = clients + 1

(* The next URL connects; after the last one, STREAMING.                   *)
ConnectUrl ==
  /\ pc = "connect"
  /\ ClientConnected
  /\ IF ~AllConnected(clients')
     THEN UNCHANGED <<machineVars, pc, linked, fresh>>
     ELSE /\ TransitionTo("STREAMING")
          /\ linked' = TRUE
          /\ fresh' = TRUE
          /\ pc' = "dispatch"
  /\ UNCHANGED <<stop, resizeVars, initVars, backend, pumpVars, audioStream,
                 streamVars>>

(* Mutant: the state is not taken back to CAPTURING.                       *)
ConnectUrlFailsSilently ==
  /\ pc = "connect"
  /\ ClientsDropped
  /\ encoder' = None
  /\ pc' = "connectWait"
  /\ UNCHANGED <<machineVars, stop, resizeVars, initVars, backend, pumpVars,
                 audioStream, freeze, packet>>

(* A URL fails: every client and the encoder go, and the next attempt      *)
(* starts from CAPTURING, after reconnect_delay_ms.                        *)
ConnectUrlFails ==
  /\ pc = "connect"
  /\ ClientsDropped
  /\ encoder' = None
  /\ TransitionTo("CAPTURING")
  /\ pc' = "connectWait"
  /\ UNCHANGED <<stop, resizeVars, initVars, backend, pumpVars, audioStream,
                 freeze, packet>>

ConnectWaitOver ==
  /\ pc = "connectWait"
  /\ pc' = "dispatch"
  /\ UNCHANGED <<machineVars, stop, resizeVars, initVars, backend, pumpVars,
                 clientVars, streamVars>>

-----------------------------------------------------------------------------
(* do_streaming_loop().                                                    *)

EnterStreaming ==
  /\ pc = "dispatch" /\ ~stop
  /\ state = "STREAMING"
  /\ pc' = "streamHead"
  /\ UNCHANGED <<machineVars, stop, resizeVars, initVars, backend, pumpVars,
                 clientVars, streamVars>>

(* The loop condition fails: the last frame is saved and the loop left.    *)
StreamStops ==
  /\ pc = "streamHead" /\ stop
  /\ pc' = "dispatch"
  /\ UNCHANGED <<machineVars, stop, resizeVars, initVars, backend, pumpVars,
                 clientVars, streamVars>>

(* A hard error returns at once, without saving the freeze frame.          *)
StreamHardError ==
  /\ pc = "streamHead" /\ ~stop
  /\ backend.hardError
  /\ TransitionTo("RECONFIGURING")
  /\ freeze' = None
  /\ pc' = "dispatch"
  /\ UNCHANGED <<stop, resizeVars, initVars, backend, pumpVars, clientVars,
                 encoder, packet>>

(* The audio backlog is drained: a write that fails disconnects its        *)
(* client, and the loop goes on.                                           *)
DrainAudio ==
  /\ pc = "streamHead" /\ ~stop
  /\ ~backend.hardError
  /\ linked' \in {linked} \cup (IF audioStream THEN {FALSE} ELSE {})
  /\ pc' = "framePop"
  /\ UNCHANGED <<machineVars, stop, resizeVars, initVars, backend, pumpVars,
                 clients, fresh, audioStream, streamVars>>

(* No frame is due yet, or none was ever received.                         *)
NothingToSend ==
  /\ pc = "framePop"
  /\ Pop
  /\ pc' = "streamHead"
  /\ UNCHANGED <<machineVars, stop, resizeVars, initVars, backend, clientVars,
                 encoder, packet>>

(* Mutant: the loop does not look for a resize.                            *)
ResizeUnseen == FALSE

(* resize_pending_.load()                                                  *)
ResizeSeen == resizeFlag

(* Mutant: the streaming loop takes the flag down, as exchange() would.    *)
FrameDueTakingFlag ==
  /\ pc = "framePop"
  /\ freeze # None \/ queue # <<>>
  /\ Pop
  /\ resizeFlag' = FALSE
  /\ IF resizeFlag
     THEN /\ TransitionTo("RECONFIGURING")
          /\ pc' = "dispatch"
     ELSE /\ UNCHANGED machineVars
          /\ pc' = "encode"
  /\ UNCHANGED <<stop, pendingSize, notifying, monitorSize, initVars, backend,
                 clientVars, encoder, packet>>

(* A frame is due: a pending resize comes first.                           *)
FrameDue ==
  /\ pc = "framePop"
  /\ freeze # None \/ queue # <<>>
  /\ Pop
  /\ IF ResizeSeen
     THEN /\ TransitionTo("RECONFIGURING")
          /\ pc' = "dispatch"
     ELSE /\ UNCHANGED machineVars
          /\ pc' = "encode"
  /\ UNCHANGED <<stop, resizeVars, initVars, backend, clientVars, encoder,
                 packet>>

(* encode(): the first frame of an encoder and a forced one are IDR.       *)
Encode ==
  /\ pc = "encode"
  /\ packet' = IF ~encoder.started \/ encoder.forceIdr THEN "key" ELSE "delta"
  /\ encoder' = [encoder EXCEPT !.started = TRUE, !.forceIdr = FALSE]
  /\ pc' = "send"
  /\ UNCHANGED <<machineVars, stop, resizeVars, initVars, backend, pumpVars,
                 clientVars, freeze>>

EncodeFails ==
  /\ pc = "encode"
  /\ TransitionTo("FATAL")
  /\ pc' = "dispatch"
  /\ UNCHANGED <<stop, resizeVars, initVars, backend, pumpVars, clientVars,
                 streamVars>>

(* send_packet() to every client.  A client that lost its connection       *)
(* refuses the packet.                                                     *)
Send ==
  /\ pc = "send"
  /\ linked
  /\ fresh' = FALSE
  /\ pc' = "streamHead"
  /\ UNCHANGED <<machineVars, stop, resizeVars, initVars, backend, pumpVars,
                 clients, linked, audioStream, streamVars>>

SendFails ==
  /\ pc = "send"
  /\ linked' = FALSE
  /\ TransitionTo("RECONNECTING")
  /\ pc' = "dispatch"
  /\ UNCHANGED <<stop, resizeVars, initVars, backend, pumpVars, clients, fresh,
                 audioStream, streamVars>>

-----------------------------------------------------------------------------
(* do_reconnect().                                                         *)

EnterReconnect ==
  /\ pc = "dispatch" /\ ~stop
  /\ state = "RECONNECTING"
  /\ ClientsDropped
  /\ pc' = "reconnectHead"
  /\ UNCHANGED <<machineVars, stop, resizeVars, initVars, backend, pumpVars,
                 audioStream, streamVars>>

BackoffSleep ==
  /\ pc = "reconnectHead" /\ ~stop
  /\ pc' = "backoff"
  /\ UNCHANGED <<machineVars, stop, resizeVars, initVars, backend, pumpVars,
                 clientVars, streamVars>>

(* stop_requested_ is read at the loop head and again after the sleep.     *)
ReconnectStops ==
  /\ pc \in {"reconnectHead", "backoff"} /\ stop
  /\ TransitionTo("STOPPING")
  /\ pc' = "dispatch"
  /\ UNCHANGED <<stop, resizeVars, initVars, backend, pumpVars, clientVars,
                 streamVars>>

BackoffOver ==
  /\ pc = "backoff" /\ ~stop
  /\ audioStream' \in BOOLEAN
  /\ pc' = "reconnect"
  /\ UNCHANGED <<machineVars, stop, resizeVars, initVars, backend, pumpVars,
                 clients, linked, fresh, streamVars>>

(* Mutant: the encoder is not told of the new clients.                     *)
IdrNotRequested == encoder

(* request_next_idr()                                                      *)
IdrRequested == [encoder EXCEPT !.forceIdr = TRUE]

(* The next URL connects; after the last one, STREAMING and the next frame *)
(* is asked to be an IDR.                                                  *)
ReconnectUrl ==
  /\ pc = "reconnect"
  /\ ClientConnected
  /\ IF ~AllConnected(clients')
     THEN UNCHANGED <<machineVars, pc, linked, fresh, encoder>>
     ELSE /\ TransitionTo("STREAMING")
          /\ linked' = TRUE
          /\ fresh' = TRUE
          /\ encoder' = IdrRequested
          /\ pc' = "dispatch"
  /\ UNCHANGED <<stop, resizeVars, initVars, backend, pumpVars, audioStream,
                 freeze, packet>>

ReconnectUrlFails ==
  /\ pc = "reconnect"
  /\ ClientsDropped
  /\ pc' = "reconnectHead"
  /\ UNCHANGED <<machineVars, stop, resizeVars, initVars, backend, pumpVars,
                 audioStream, streamVars>>

-----------------------------------------------------------------------------
(* do_reconfigure().                                                       *)

EnterReconfigure ==
  /\ pc = "dispatch" /\ ~stop
  /\ state = "RECONFIGURING"
  /\ AskPumpToStop
  /\ pc' = "reconfStop"
  /\ UNCHANGED <<machineVars, stop, resizeVars, initVars, backend, clientVars,
                 streamVars>>

(* The pump has stopped: the saved frame, the clients and the encoder go.  *)
DropStream ==
  /\ pc = "reconfStop"
  /\ PumpJoined
  /\ pump' = "stopped"
  /\ freeze' = None
  /\ ClientsDropped
  /\ encoder' = None
  /\ pc' = "resizeSwap"
  /\ UNCHANGED <<machineVars, stop, resizeVars, initVars, backend, capturing,
                 held, queue, audioStream, packet>>

(* release() of the backend, on the way to init_capture_with_retry().      *)
ReleaseForReinit(newSize) ==
  /\ target' = newSize
  /\ backend' = Released
  /\ queue' = [i \in DOMAIN queue |-> Orphaned(queue[i])]
  /\ retries' = 0
  /\ pc' = "reinit"
  /\ UNCHANGED <<pump, capturing, held>>

(* resize_pending_.exchange(false): with no resize the size stays.         *)
SwapResizeFlag ==
  /\ pc = "resizeSwap"
  /\ resizeFlag' = FALSE
  /\ IF resizeFlag
     THEN /\ pc' = "resizeRead"
          /\ UNCHANGED <<target, retries, backend, pumpVars>>
     ELSE ReleaseForReinit(size)
  /\ UNCHANGED <<machineVars, stop, pendingSize, notifying, monitorSize, size,
                 clientVars, streamVars>>

(* pending_resize_ is read under resize_mutex_, after the exchange.        *)
ReadPendingSize ==
  /\ pc = "resizeRead"
  /\ ReleaseForReinit(pendingSize)
  /\ UNCHANGED <<machineVars, stop, resizeVars, size, clientVars, streamVars>>

Reinit ==
  /\ pc = "reinit"
  /\ ~stop /\ retries < MaxRetries
  /\ \E physical \in Sizes : backend' = Opened(target, physical)
  /\ size' = target
  /\ StartPump
  /\ pc' = "seed"
  /\ UNCHANGED <<machineVars, stop, resizeVars, target, retries, clientVars,
                 streamVars>>

(* A failed init() releases what it has opened, but it has forgotten the   *)
(* hard error and taken over the size.                                     *)
ReinitFails ==
  /\ pc = "reinit"
  /\ ~stop /\ retries < MaxRetries
  /\ retries' = retries + 1
  /\ backend' = [Released EXCEPT !.hardError = FALSE, !.logical = target]
  /\ UNCHANGED <<machineVars, pc, stop, resizeVars, size, target, pumpVars,
                 clientVars, streamVars>>

ReinitGivesUp ==
  /\ pc = "reinit"
  /\ stop \/ retries = MaxRetries
  /\ TransitionTo("FATAL")
  /\ pc' = "dispatch"
  /\ UNCHANGED <<stop, resizeVars, initVars, backend, pumpVars, clientVars,
                 streamVars>>

(* The wait for the frame that seeds the freeze frame ends with a frame or *)
(* without one.                                                            *)
SeedFreezeFrame ==
  /\ pc = "seed"
  /\ Pop
  /\ TransitionTo("CAPTURING")
  /\ pc' = "dispatch"
  /\ UNCHANGED <<stop, resizeVars, initVars, backend, clientVars, encoder,
                 packet>>

-----------------------------------------------------------------------------
(* FramePump::capture_thread_func().                                       *)

(* Mutant: a hard error is retried before running_ is looked at.           *)
StillCapturingOnError == pump = "running" \/ backend.hardError

(* The thread leaves its loop once running_ is false.                      *)
StillCapturing == pump = "running"

(* acquire_frame() returns a frame, in the mode it read.                   *)
Acquire ==
  /\ capturing /\ held = None
  /\ ~backend.hardError
  /\ held' = AcquiredFrame
  /\ UNCHANGED <<machineVars, pc, stop, resizeVars, initVars, backend, pump,
                 capturing, queue, clientVars, streamVars>>

(* acquire_frame() times out.                                              *)
AcquireTimesOut ==
  /\ capturing /\ held = None
  /\ capturing' = StillCapturing
  /\ UNCHANGED <<machineVars, pc, stop, resizeVars, initVars, backend, pump,
                 held, queue, clientVars, streamVars>>

(* AcquireNextFrame fails, e.g. with ACCESS_LOST, now and from now on.     *)
AcquireFails ==
  /\ capturing /\ held = None
  /\ backend' = [backend EXCEPT !.hardError = TRUE]
  /\ capturing' = StillCapturing
  /\ UNCHANGED <<machineVars, pc, stop, resizeVars, initVars, pump, held,
                 queue, clientVars, streamVars>>

(* Mutant: no limit.                                                       *)
DropNothing(q) == q

DropOldestIfFull(q) == IF Len(q) >= MaxQueueSize THEN Tail(q) ELSE q

(* The frame is queued; a full queue drops its oldest.                     *)
QueueFrame ==
  /\ capturing /\ held # None
  /\ queue' = Append(DropOldestIfFull(queue), held)
  /\ held' = None
  /\ capturing' = StillCapturing
  /\ UNCHANGED <<machineVars, pc, stop, resizeVars, initVars, backend, pump,
                 clientVars, streamVars>>

-----------------------------------------------------------------------------
(* The supervisor's calls.                                                 *)

(* stop() sets the flag and joins the thread.  Its callers and those of    *)
(* notify_resized() hold pipelines_mutex_, so one ends before the next.    *)
RequestStop ==
  /\ ~stop /\ ~notifying
  /\ stop' = TRUE
  /\ UNCHANGED <<machineVars, pc, resizeVars, initVars, backend, pumpVars,
                 clientVars, streamVars>>

(* notify_resized() writes the size under resize_mutex_ ...  A pipeline    *)
(* that replaced a FATAL one in the same poll is told the size it has.     *)
NotifyResized ==
  /\ ~stop /\ ~notifying
  /\ \E s \in Sizes :
       /\ pendingSize' = s
       /\ monitorSize' = s
  /\ notifying' = TRUE
  /\ UNCHANGED <<machineVars, pc, stop, resizeFlag, initVars, backend,
                 pumpVars, clientVars, streamVars>>

(* ... and raises the flag after it has let the mutex go.                  *)
RaiseResizeFlag ==
  /\ notifying
  /\ resizeFlag' = TRUE
  /\ notifying' = FALSE
  /\ UNCHANGED <<machineVars, pc, stop, pendingSize, monitorSize, initVars,
                 backend, pumpVars, clientVars, streamVars>>

-----------------------------------------------------------------------------
InitStep ==
  \/ CaptureInit \/ CaptureInitFails \/ CaptureInitGivesUp \/ ReturnFromInit
  \/ FirstFrame \/ FirstFrameTimeout \/ FirstFrameCleanup

DispatchStep ==
  \/ DispatchStop \/ DispatchTerminal \/ Teardown

ConnectStep ==
  \/ OpenEncoder \/ OpenEncoderFails \/ ConnectUrl \/ ConnectUrlFails
  \/ ConnectWaitOver

StreamStep ==
  \/ EnterStreaming \/ StreamStops \/ StreamHardError \/ DrainAudio
  \/ NothingToSend \/ FrameDue \/ Encode \/ EncodeFails \/ Send \/ SendFails

ReconnectStep ==
  \/ EnterReconnect \/ BackoffSleep \/ ReconnectStops \/ BackoffOver
  \/ ReconnectUrl \/ ReconnectUrlFails

ReconfigureStep ==
  \/ EnterReconfigure \/ DropStream \/ SwapResizeFlag \/ ReadPendingSize
  \/ Reinit \/ ReinitFails \/ ReinitGivesUp \/ SeedFreezeFrame

PipelineThread ==
  \/ InitStep \/ DispatchStep \/ ConnectStep \/ StreamStep \/ ReconnectStep
  \/ ReconfigureStep

CaptureThread == Acquire \/ AcquireTimesOut \/ AcquireFails \/ QueueFrame

Supervisor == RequestStop \/ NotifyResized \/ RaiseResizeFlag

Next == PipelineThread \/ CaptureThread \/ Supervisor

Spec == Init /\ [][Next]_vars

(* Both threads keep running, and every call they make returns: connect    *)
(* and send have timeouts, sleeps and waits have deadlines.                *)
(* The streaming loop cannot find every frame to be early: time passes.    *)
FairSpec ==
  /\ Spec
  /\ WF_vars(PipelineThread)
  /\ WF_vars(CaptureThread)
  /\ SF_vars(FrameDue)

-----------------------------------------------------------------------------
(* Type invariant: every variable has its type.                            *)
TypeOK ==
  /\ state \in PipelineState
  /\ rejected \subseteq PipelineState \X PipelineState
  /\ pc \in Locations
  /\ stop \in BOOLEAN
  /\ resizeFlag \in BOOLEAN
  /\ pendingSize \in Sizes \cup {None}
  /\ notifying \in BOOLEAN
  /\ monitorSize \in Sizes
  /\ size \in Sizes \cup {None}
  /\ target \in Sizes
  /\ retries \in 0..MaxRetries
  /\ backend \in Backend
  /\ pump \in {"none", "stopped", "stopping", "running"}
  /\ capturing \in BOOLEAN
  /\ held \in Frame \cup {None}
  /\ queue \in Seq(Frame)
  /\ Len(queue) <= MaxQueueSize
  /\ freeze \in Frame \cup {None}
  /\ encoder \in Encoder \cup {None}
  /\ clients \in 0..NumUrls
  /\ linked \in BOOLEAN
  /\ fresh \in BOOLEAN
  /\ audioStream \in BOOLEAN
  /\ packet \in {"key", "delta"}

(* The capture thread and a zero-copy encoder run only while the backend   *)
(* holds its device: no order of stop, hard error, resize and retry        *)
(* releases the device under the one that calls into it.                   *)
DeviceUsersHaveDevice ==
  /\ capturing => backend.dev = "ready"
  /\ encoder # None /\ encoder.zeroCopy => backend.dev = "ready"

(* The size the pipeline works with is the one the supervisor passed last, *)
(* or a notification is still on its way: whatever the interleaving of     *)
(* notify_resized() with the exchange and the read of do_reconfigure(), no *)
(* resize is lost.  A FATAL pipeline is replaced by one of the new size.   *)
NoLostResize ==
  state # "FATAL" /\ ~resizeFlag /\ ~notifying =>
    monitorSize = CASE pc = "resizeRead" -> pendingSize
                    [] pc \in {"init", "firstFrame", "reinit"} -> target
                    [] OTHER -> IF size = None THEN target ELSE size

(* What encode() is given fits the encoder: a frame of its size, never a   *)
(* texture of a device that has been released.  The queue, the saved frame *)
(* and the scaler are all re-made on the way from one size to the next.    *)
EncodedFrameFits ==
  pc = "encode" =>
    /\ freeze # None /\ encoder # None
    /\ freeze.size = encoder.size
    /\ freeze.kind # "dead"

(* The first packet of a connection is a key frame, also after a reconnect *)
(* that keeps the encoder, so that a receiver can start decoding.          *)
FirstPacketIsKey == pc = "send" /\ fresh => packet = "key"

(* While the state says STREAMING to the log and the metrics, the pump     *)
(* runs, the encoder is open and every URL has its client; a reconnect     *)
(* finds an encoder that has encoded, whose first_frame_time_us() is the   *)
(* time base of the new clients.                                           *)
StateMeansResources ==
  /\ state = "STREAMING" /\ pc # "teardown" =>
       /\ pump = "running"
       /\ encoder # None
       /\ clients = NumUrls
  /\ state = "RECONNECTING" => encoder # None /\ encoder.started

(* The dispatch loop always has a case for the state it finds, and the     *)
(* table refuses nothing but the last transition to STOPPING of a pipeline *)
(* that is in a terminal state already.                                    *)
TransitionsAccepted ==
  /\ pc = "dispatch" => state \notin {"INIT", "CONNECTING"}
  /\ rejected \subseteq {<<"STOPPING", "STOPPING">>, <<"FATAL", "STOPPING">>}

(* When the thread has ended, nothing is left running or published, and    *)
(* unless stop() was called the state is FATAL, so that the supervisor     *)
(* knows to start another pipeline.                                        *)
CleanExit ==
  pc = "exited" =>
    /\ stop \/ state = "FATAL"
    /\ ~capturing /\ pump # "running"
    /\ backend.dev # "ready"
    /\ clients = 0 /\ encoder = None

-----------------------------------------------------------------------------
(* The states between INIT and the terminal ones are one phase.            *)
Phase(s) == IF s \in {"INIT", "STOPPING", "FATAL"} THEN s ELSE "ACTIVE"

(* What a supervisor sees of the pipeline.                                 *)
Contract == INSTANCE PipelineContract WITH
  told       <- monitorSize,
  stopAsked  <- stop,
  phase      <- Phase(state),
  done       <- pc = "exited",
  publishing <- clients > 0

(* The pipeline keeps the contract: it publishes only while it is active,  *)
(* is STOPPING only when stop() was called, and every stop() and every     *)
(* FATAL is followed by the end of its thread, wherever the thread was, so *)
(* that the join in stop() returns.                                        *)
ImplementsContract == Contract!ContractSpec

(* What the pipeline uses of its pump.                                     *)
Pump == INSTANCE PumpContract WITH
  Limit   <- MaxQueueSize,
  on      <- pump = "running",
  alive   <- capturing,
  pending <- held # None,
  waiting <- Len(queue),
  error   <- backend.hardError

(* Every start, stop, pop and release that the pipeline thread does, and   *)
(* every step of the capture thread beside it, is one of a pump as         *)
(* FramePump implements it: the pipeline never starts a pump whose thread  *)
(* still runs, and every stop of the pump is followed by the thread's end. *)
ImplementsPump == Pump!PumpSpec

(* A resize is served while streaming: with a frame to send, a raised flag *)
(* takes the pipeline out of STREAMING.                                    *)
ResizeIsServed ==
  state = "STREAMING" /\ resizeFlag /\ freeze # None ~> state # "STREAMING"
-----------------------------------------------------------------------------
(* What comments and documents say, and the code does not do.              *)

(* encoder_controller.hpp:74-75: without zero-copy "frame.data is treated  *)
(* as a BGRA buffer", so a frame without pixels must not get there.  After *)
(* a failed connect, the next encoder may be a CPU one while the queue     *)
(* still holds textures.                                                   *)
CpuEncoderGetsPixels ==
  pc = "encode" /\ ~encoder.zeroCopy => freeze.kind = "cpu"

(* docs/state-machine.md:62-63: a shutdown request takes RECONFIGURING to  *)
(* STOPPING, and FATAL means that DXGI re-initialization failed, that is,  *)
(* ran out of attempts.  A stop() during the attempts also ends in FATAL.  *)
ReconfigureFatalIsFailure ==
  [][state = "RECONFIGURING" /\ state' = "FATAL" => retries = MaxRetries]_vars

=============================================================================
