# A verification project for ScreenRelay

ScreenRelay captures every monitor of a Windows machine with DXGI Desktop
Duplication, encodes each with FFmpeg and publishes it over RTSP.  The code is
small, but almost all of its difficulty is in what tests hardly reach: three
threads per monitor and two more for the process, calls that fail at any time,
resolutions that change under a running stream, and a shutdown that has to find
its way out of every blocking call.  The modules here model that part, TLC
checks it on small instances, and TLAPS proves the safety properties for all
instances.

Line numbers below refer to `src/src/`.  `PROJECT.json` maps every definition to
the lines it models.

## 1. Inventory

| component | state | operations | hard behaviour | what makes it correct |
|---|---|---|---|---|
| `StateMachine` (`app/state_machine.*`) | current state | `transition_to` | refusals are logged, and the caller goes on | no refusal but the harmless last `STOPPING` |
| `ScreenPipeline` (`app/supervisor.cpp:17-702`) | state machine, backend, pump, encoder, RTSP clients, saved freeze frame, current size, stop and resize flags | the thread: init, connect, stream, reconnect, reconfigure, teardown; from outside: `stop`, `notify_resized` | failure of every call; a stop or a resize in every state; two threads and a shared D3D11 device | resources match the state, the device outlives its users, no resize is lost, it always ends |
| `FramePump` (`capture/frame_pump.*`) | bounded queue, `running_`, `backend_hard_error_` | `start`, `stop`, `try_pop`, `wait_pop`, capture thread | flags outside the mutex, a slow consumer, a spinning producer | newest frames in order, no lost wake-up, `stop` returns |
| `DxgiCaptureBackend` (`capture/dxgi_capture.*`) | device, scaler, staging texture, texture ring, hard error, zero-copy mode | `init`, `acquire_frame`, `release`, `set_zero_copy_mode` | textures referred to after they were handed out | a queued texture keeps its image; a failed `init` leaves nothing |
| `EncoderController` (`encoder/*`) | codec context, zero-copy or CPU path, frame count, last pts, forced IDR | `init`, `encode`, `flush`, `reset`, `request_next_idr` | two paths and frames of two kinds; fallbacks | frames fit the path and the size; pts grow |
| `RtspPublisherClient` (`rtsp/*`) | format context, connected | `connect`, `send_packet`, `send_audio_packet`, `disconnect` | synchronous network calls; a failed write disconnects | first packet of a connection is a key frame |
| `MonitorSupervisor` (`app/supervisor.cpp:704-914`) | pipelines by `stable_id`, last monitor list, stop flag | poll, apply changes, run, shut down | a mutex held over joins; a list read before the mutex | one pipeline per monitor, made for its current data; `run` returns |
| time stamps (`app/supervisor.cpp:222-238, 327-333, 381, 488-496`, `encoder_controller.cpp:51-66`) | first frame time, last pts of video and audio, NTP base of the clients | `compute_next_pts`, drain loop, connect, reconnect | two streams and two bases, rounding, a wall clock that is set | pts grow strictly and do not leave the clock; picture and sound together |
| `MonitorDetector` (`monitor/*`) | none | `enumerate` | partial failure of Windows calls | a changed stable id never gives an output two users |
| `AudioPipeline` (`audio/audio_pipeline.*`) | subscribers and their bounded queues, running flag | `start`, `stop`, `subscribe`, `unsubscribe`, thread | subscribers come and go during a push; the thread ends by itself at a hard error | one broadcast stream, nobody misses a packet but the oldest |
| `WasapiAudioCapture`, `AudioEncoderController` (`audio/*`) | device, bounded queue, hard error; codec context and FIFO | `init`, capture thread, `wait_pop`, `release`; `init`, `encode`, `reset` | event waits, a device that disappears, release under a thread | capture order, no use after release |
| `MetricsStore` (`metrics/*`), `metrics_writer_loop` | statistics by monitor number, two files | setters, JSON, atomic write | a kill or a failure between any two file operations; several pipelines write under a number over time | readers see whole files that only get newer |
| `LogSink`, `ConfigLoader`, `main`, `common/*` | | | Ctrl+C on a thread of its own; integer ranges | |

How they interact.  `main` runs a `MonitorSupervisor`; its poll thread calls
`MonitorDetector::enumerate()` and, with `pipelines_mutex_` held, creates, stops
and notifies pipelines.  Each pipeline owns its backend, pump, encoder and
clients, and shares with its pump's thread the backend, the queue and two
atomics.  All pipelines share the audio pipeline (a queue each) and the metrics.
State changes go to log and metrics through the state machine's callback.

`PROJECT.json` lists the hazards, each at the line where it bites, with the
properties that watch it or the reason why none does.

## 2. Modules

| module | models |
|---|---|
| `StateMachine` | the transition table and `transition_to()`; refusals are collected in `rejected` |
| `ScreenPipeline` | one pipeline: pipeline thread, capture thread, supervisor's calls (extends `StateMachine`) |
| `PipelineContract` | what a supervisor and a pipeline rely on in each other; `ScreenPipeline` implements it, `MonitorSupervisor` keeps its side of it |
| `PumpContract` | what a pipeline relies on in a pump; `FramePump` and the pump of `ScreenPipeline` both implement it |
| `FramePump` | the pump at the grain of its mutex, condition variable and atomics, with the texture ring |
| `MonitorSupervisor` | main thread, poll thread, mutex, pipelines seen through the contract |
| `AudioPipeline` | capture thread, pipeline thread, subscriber queues, start and stop of the shared audio |
| `AudioBroadcast` | what the audio pipeline promises its subscribers; `AudioPipeline` implements it |
| `AvTimestamps` | pts of video and audio and the NTP base of one pipeline, over two clocks |
| `MetricsStore` | statistics, snapshots, the writer thread and the atomic write, with kills and restarts |
| `MC*` and `*.cfg` | instances for TLC |
| `ScreenPipelineProofs`, `ScreenPipelineSafetyProofs`, `FramePumpProofs`, `MonitorSupervisorProofs`, `AudioPipelineProofs`, `AvTimestampsProofs`, `MetricsStoreProofs` | theorems and proofs |

### ScreenPipeline

`pc` is where the pipeline thread is: in a blocking call (`firstFrame`,
`connectWait`, `backoff`, `reinit`, a join: `initStop`, `reconfStop`,
`teardown`) or before a read of something another thread writes (`dispatch`,
`streamHead`, `resizeSwap`, `resizeRead`, ...).  What the thread does between
two such points touches only its own state and is one action.  The action of a
call that may fail comes in two (`ConnectUrl`, `ConnectUrlFails`).

| code | actions |
|---|---|
| `do_init_and_capture` | `CaptureInit`, `CaptureInitFails`, `CaptureInitGivesUp`, `ReturnFromInit`, `FirstFrame`, `FirstFrameTimeout`, `FirstFrameCleanup` |
| `pipeline_thread_func`, `teardown_all` | `DispatchStop`, `DispatchTerminal`, `Teardown`, `ConnectWaitOver` |
| `do_connect` | `OpenEncoder`, `OpenEncoderFails`, `ConnectUrl`, `ConnectUrlFails` |
| `do_streaming_loop` | `EnterStreaming`, `StreamStops`, `StreamHardError`, `DrainAudio`, `NothingToSend`, `FrameDue`, `Encode`, `EncodeFails`, `Send`, `SendFails` |
| `do_reconnect` | `EnterReconnect`, `BackoffSleep`, `ReconnectStops`, `BackoffOver`, `ReconnectUrl`, `ReconnectUrlFails` |
| `do_reconfigure` | `EnterReconfigure`, `DropStream`, `SwapResizeFlag`, `ReadPendingSize`, `Reinit`, `ReinitFails`, `ReinitGivesUp`, `SeedFreezeFrame` |
| `capture_thread_func` | `Acquire`, `AcquireTimesOut`, `AcquireFails`, `QueueFrame` |
| `stop`, `notify_resized` | `RequestStop`, `NotifyResized`, `RaiseResizeFlag` |

A frame is its size and where its pixels are: `cpu`, `gpu` (a texture of the
current device) or `dead` (a texture of a device released since).  `freeze` is
`freeze_buf` inside the streaming loop and `initial_frame_buf_` outside of it:
the code moves one to the other at entry and exit, except on the early return
after a hard error, which loses it.  The encoder is its size, its path, whether
it has encoded and whether an IDR is forced.

Two more abstractions.  The pump of this module queues in one step and has no
wake-ups, mutex or textures.  `FramePump` has those, and both implement
`PumpContract`: a start begins with nothing of the run before, frames are
delivered one at a time into a bounded queue, a hard error does not end the
thread, and a stop does.  The failure branches of a refused
transition (for instance supervisor.cpp:255-260) are not modelled one by one:
`TransitionsAccepted`, checked and proved, shows that no transition that has
such a branch is ever refused.

### FramePump

The owner of the pump is the pipeline thread; it may call `start`, `stop`,
`try_pop`, `wait_pop` and switch the zero-copy mode in any order its state
allows.  `wait_pop` is three steps: `BeginWait` evaluates the predicate and
keeps the mutex, `Block` lets it go, a notification makes it `woken`, and the
predicate is evaluated again.  A notification reaches only a thread that waits.
`running_` and the hard error flag are written without the mutex, as in the
code.  `ring[i]` holds the number of the copy that the texture holds.

### MonitorSupervisor

Two threads and the mutex between them; a `stop()` is `AskPipelineToStop`
followed by `PipelineJoined`, with the mutex held throughout, so other
pipelines move in between.  A pipeline is what `PipelineContract` says of it:
phases instead of states, an end after `FATAL` or `stop()`.  The contract has
steps of both parties, and each party is compared with it: `ScreenPipeline`
takes no step that it does not have (`ImplementsContract`), every step that it
allows a pipeline is one of `PipelineThread` here (theorem `ContractExpected`),
and all the supervisor does to a pipeline are steps it allows a supervisor
(`PipelinesKeepContract`).  One such step is `notify_resized()` with a size that
is not new: a pipeline that replaces a FATAL one in a pass whose list also has a
new size is made for that size and told it again at the end.  `ChangeLayout`
changes the desktop; `Enumerate` reads it before the mutex is taken.  A failed
CCD lookup shows up as a desktop in which a display has its device name as
`stable_id`, and the same handle.

### AudioPipeline and AudioBroadcast

Three parties: the owner (`life`: `OpenCapture` to `Release`, with the undo of a
failed start), the capture thread (`CaptureWakes`, `CaptureBuffer`,
`CaptureFails`, `CaptureEnds`) and the pipeline thread (`WorkerGoesOn`,
`WaitPop`, `Encode`, one `Push` for each packet and subscriber).  Subscribers
call `Subscribe`, `TryPop` and `Unsubscribe` at any time; the first and the last
need `subscribers_mutex_`, which the pipeline thread has while it pushes.  The
queues' own mutexes make `Push` and `TryPop` single steps.  A buffer is its
number, a packet its number and that of the buffer encoded last before it,
which is what `capture_timestamp_us` holds.  `encode()` yields any number of
packets up to `MaxBatch`, because resampler and FIFO keep samples back.

`AudioBroadcast` has no threads and no queues: one count of published packets,
and for each member the number it was given last and the number it takes next.
In the refinement mapping the latter is the front of its queue.

### AvTimestamps

`steady` and `wall` tick together; `SetClock` sets the wall clock.  A pipeline
is `idle`, `connecting`, `streaming` or `broken`; all paths of `ScreenPipeline`
between these are one step here, and time may pass at each of them.  What is
kept is every number that pts are computed from, under its name in the code:
`Connect` and `Reconnect` choose the base, `EncodeFrame` is `compute_next_pts`,
`SendAudio` one round of the drain loop.  `Scaled` is the division of the code,
which truncates; `Growing` the rule that keeps pts strictly increasing.
`pending` is the audio that was played and is in no packet yet, counted in time;
with `PacketTime` for the samples of one packet (the frame size of the codec,
1024 if it names none) and
`Burst` for how many packets' worth the device's buffer, the FIFO and the encoder
hold.  `CaptureAudio` takes any part of it at any moment and as often as it
likes, and stamps it with the time of that moment: a capture thread that comes
late finds several buffers and stamps them all at once, since it ignores the
position the device gives it.  What bounds the packets is only how much was
played.  Captured audio reaches the queue as `AudioPipeline` delivers it: in
order, the oldest dropped; the time a buffer waits for the audio encoder is part
of the time its packets wait in the queue.

### MetricsStore

`set_state` and the like change the statistics under the mutex; the writer takes
a snapshot (`Build`), opens and truncates the temporary file, writes and closes
it, and renames it over the old one.  Every one of these may fail, and `Restart`
may come between any two, with the files as they are.  The final pass comes
after the loop.  The snapshot of a removed monitor stays in the statistics for
ever, as in the code.

## 3. Runs

| run | question | result |
|---|---|---|
| `pipeline_safety` (`MCScreenPipeline.cfg`) | Is every interleaving of pipeline thread, capture thread, `stop()` and `notify_resized()` safe? | eight invariants hold in 493,806 states |
| `pipeline_contract` (`MCScreenPipelineLive.cfg`) | Does the pipeline implement `PipelineContract` and use its pump as `PumpContract` says, and is a resize served? | two refinements and a liveness property, 246,236 states |
| `frame_pump` (`MCFramePump.cfg`) | Does the pump lose, reorder or overwrite frames, miss wake-ups, or hang, and is it a pump of `PumpContract`? | four invariants, a liveness property, a refinement and no deadlock, 94,018 states |
| `supervisor` (`MCMonitorSupervisor.cfg`) | Does the map follow the desktop, has an output one user, and does Ctrl+C always work? | three invariants, one action property over the contract, three liveness properties, 154,248 states |
| `audio_pipeline` (`MCAudioPipeline.cfg`) | Do subscribers that come and go get one stream in order, and do its threads end without leaving anything behind? | four invariants, one action property, a refinement, two liveness properties, 297,527 states |
| `av_timestamps` (`MCAvTimestamps.cfg`) | Do pts grow, and do they stay with the clock over reconnects? | four invariants, one action property, 7,292,299 states |
| `metrics_store` (`MCMetricsStore.cfg`) | What do readers see when file operations fail and the process is killed anywhere? | two invariants, one action property and no deadlock, 756,672 states |

Five more runs show disagreements between the code and what its comments and
documents say; each checks one property and TLC gives the trace.

| run | what is said | what happens |
|---|---|---|
| `cpu_encoder` | encoder_controller.hpp:74-75: a frame without zero-copy is a BGRA buffer | after a failed connect, the next encoder may be on the CPU path while frames without pixels are still queued |
| `reconfigure_fatal` | docs/state-machine.md:62-63: a shutdown request takes RECONFIGURING to STOPPING | a stop during the retries ends in FATAL and a refused transition |
| `av_sync` | supervisor.cpp:230-231: audio stays in sync with video | on a first connection the picture is early by the time from the base, read before the connects, to the first frame after them; a reconnect puts it right |
| `shutdown` | supervisor.hpp:179: everything is shut down | a poll that enumerated before Ctrl+C starts pipelines after the map was cleared |
| `metrics_state` | docs/metrics.md:37: the state of that monitor | after two monitors swap numbers, the old pipeline of one overwrites the state of the other |

One more was met and needs no run.  The comment at supervisor.cpp:549-550 says
that no texture of the old device outlives it; the frames left in the queue of
the stopped pump do, until the next `start()` clears it.  They are never encoded
(`EncodedFrameFits`), so only memory is at stake.

### What the properties say

Pipeline.  `DeviceUsersHaveDevice`: no order of stop, hard error, resize and
retry releases the device under the thread or the encoder that calls into it.
`NoLostResize`: the pipeline works with the size the supervisor passed last, or
a notification is on its way; it compares the supervisor's last call with the
pipeline's size at every point of the race between the four accesses.
`EncodedFrameFits`: frame and encoder agree in size, and no dead texture is
encoded.  `FirstPacketIsKey`: also after a reconnect that keeps the encoder.
`StateMeansResources`: STREAMING means pump, encoder and all clients;
RECONNECTING an encoder with a time base.  `TransitionsAccepted`: see above.
`CleanExit`: however the thread ends, nothing is left running.
`ImplementsContract`: publishing only while active, STOPPING only after `stop()`,
and `stop()` or FATAL always lead to the end of the thread.  `ImplementsPump`: on
every path through errors, retries and reconfigurations the pump is started
only after its thread has ended, and with an empty queue.  `ResizeIsServed`:
with a frame to send, a raised flag takes the pipeline out of STREAMING.

Pump.  `FramesInOrder`: the queue is the gapless run of the latest frames, and
frames are taken in the order of capture, so what is lost is old.
`TexturesInUseIntact`: the ring never comes round to a queued texture, nor to
that of the freeze frame while the queue is empty, which is when the freeze
frame is sent again.  `NoLostWakeUp`: whatever falls between the predicate of
`wait_pop` and its wait, a consumer that sleeps beside a frame has its
notification still to come, and the thread is alive.  `WaitEnds`: a frame or a
hard error ends a wait before its deadline; the notification of an error may be
missed, its repetition is not.  `ImplementsPump`: see above; with the end of a
stopped thread.

Supervisor.  `PipelinesMatchLayout`: between polls, one pipeline for each
monitor of the last list, with its current number, primary flag, handle and
size, and no other.  `OneUserPerOutput`: also when a failed lookup renames a
monitor, its output is captured by one pipeline at a time, since the loop over
the removed monitors comes first.  `PipelinesKeepContract`: a pipeline is erased
or replaced only after its thread has ended, is told sizes only before `stop()`,
and is touched in no other way.  `StopMakesRunReturn`: no deadlock over the mutex
and the joins.
`FatalIsReplaced`, `FinalLayoutIsServed`.

Audio.  `ThreadsHaveResources`: no order of a failed start, a hard error and
`stop()` frees device or encoder under a thread.  `RunningMeansAlive`: a
connection that asks `is_running()` announces a stream that exists.
`EveryoneHasTheStream`: nobody misses a packet or gets half a batch, however
pushes, joins, leaves and reads interleave.  `AudioInOrder`: two queues that
drop their oldest never reorder.  `ImplementsBroadcast`; `HardErrorEndsAudio`;
`StopReturns`.

Time stamps.  `VideoOnTime`: bumped pts never accumulate; the bound is one frame
interval, plus what `frame_interval_us` was rounded down by.  `AudioOnTime`: the
same for audio, with one sample for each packet older than the base and for each
but one of the packets that a late capture thread finds at once.  Being late
again and again adds nothing to it.
`ReconnectedInSync`: after a reconnect both streams are right on one clock.
`MuxerTimestampsGrow`: also when the clock is set back.

Metrics.  `FilesOnlyImprove`: through failures and kills between any two file
operations a file never disappears, never gets older, and is never partial.
`FinalFilesAreCurrent`: a writer that ended by itself wrote what it could after
the stop request.

Each property has a mutant in `PROJECT.json`: a change to the code's definition
of the kind a programmer might make, under which TLC refutes the property.  The
mutants stand in the modules just before the definitions they change.

### Bounds, and why they are enough

* `ScreenPipeline`: two sizes (properties compare sizes only for equality);
  `MaxRetries` 2 instead of 15 (first, middle and last attempt differ, no other
  does); two URLs, the most there are; queue 2 instead of 4 (full, partly full
  and empty).  Nothing else is bounded: the state space is finite.  Sizes are
  symmetric in the safety runs.  The liveness run has a queue of 1, one retry
  and one URL, because no wait depends on these numbers.
* `FramePump`: the code's own sizes, queue 4 and ring 6.  `MaxFrames` 8 bounds
  the frames between a start and a stop; it fills the queue twice and takes the
  ring past its end.  The proofs need no such bound.
* `MonitorSupervisor`: two monitors, five desktops (none, both, both with
  number and primary flag exchanged, one with another size, both with one under
  its device name) and two changes in a run, so that a change can be followed by
  another one before it is applied, and a failed lookup by a good one.
* `AudioPipeline`: two subscribers (one is served while the other waits), queues
  of 2 and batches of up to 2 (a batch that fills a queue at once, one that does
  not), `MaxBuffers` 3, so that the capture queue overflows.  Each subscriber
  subscribes once, as a `ScreenPipeline` does.
* `AvTimestamps`: 5 clock units to a second, so that the interval of 2 frames a
  second is rounded (2.5 to 2) and bumps happen; `MaxTime` 6 is enough for a
  connect that takes time, frames, a break and a reconnect with frames after it
  (7 where the picture has to be late by more than a frame); the clock is set
  once, by -2, more than a sample and less than a frame.  A packet is one clock
  unit long, and `Rate` 5 makes that one sample, the least that
  `TimeAssumption` allows, where a bump gains least on time; two packets fit the
  device (`Burst`).  With `Burst - 2` in `AudioOnTime` TLC finds a late thread
  that breaks it.  The proofs need none of these.
* `MetricsStore`: one monitor and two changes of its state, one before and one
  after the stop request; every file operation fails or succeeds each time, and
  kills are not bounded.
* Deadlock is checked for the pump and the metrics.  A pipeline and the supervisor end, so their
  runs do not check it; nor does audio, which ends, nor the time stamps, whose
  clock ends.

### Fairness

Weak fairness of the pipeline thread and the capture thread: every call they
make returns, since AcquireNextFrame, connect, send and all sleeps have
deadlines.  Strong fairness of `FrameDue`: at the loop's head time has passed,
so it does not find every frame to be early.  In the pump nothing is assumed of
deadlines: its wake-ups have to come from notifications.  In the supervisor,
strong fairness of taking the mutex for the main thread: the poll thread sleeps
for `monitor_check_interval_ms` with the mutex free.  In the audio pipeline, weak
fairness of its two threads and of the steps of `stop()` once it was called:
the event wait, the queue wait and the joins end; nothing is assumed of
subscribers or of the device.  `MustEnd` is the liveness
part of `PipelineContract`, which the pipeline is shown to implement.

## 4. Proofs

Assumptions: only the named `ASSUME`s of the modules, all evaluated by TLC.
`ConstantsAssumption` says that the bounds are positive and `None` is none of
the values; `PumpAssumption` adds that the ring is larger than the queue, as 6 is
to 4; this is exactly what the texture argument needs.

`FramePumpProofs` proves `TypeOK`, `FramesInOrder`, `TexturesInUseIntact` and
`NoLostWakeUp` for all queue and ring sizes.  The sequence numbers in the
queue, followed by that of the frame the capture thread holds, are a window of
consecutive numbers that ends just before the next one.  A frame takes at most
one copy, so a frame `f` of the window has `copies + f.seq <= seq + f.copy`: its
copy is at most `MaxQueueSize` copies old, and as the ring is larger, the slot of
the next copy is not the frame's.  The freeze frame is in that window exactly
when the queue is empty (`TakenIsLatest`), and falls out of it when the next
frame is queued.  None of the properties is inductive alone; the invariant is
`TypeOK`, `HeldIsLatest`, `QueueIsMostRecent`, `TakenIsOlder`, `TakenIsLatest` and
`TexturesIntact`.  Wake-ups need a second one, `ThreadFitsOwner`: while
`running_` is set there is a thread, and the owner is not in `stop()`.  With it
each step that makes the predicate of a waiting consumer true is one that has
its notification still to come.  `PumpKept` is the safety part of
`ImplementsPump`; the steps of the mutex and the notifications are stutters.

`ScreenPipelineProofs` proves `TypeOK`, `DeviceUsersHaveDevice` and
`TransitionsAccepted`.  The inductive invariant `IInv` is `TypeOK` and

* `StateFits`: the states in which the thread can be at each location;
* `OnlyAcceptedTransitions`: which pairs may have been refused;
* `DataFits`: where `size`, `pendingSize` and `encoder` are not `None`, and how
  many clients there are while it connects;
* `Devices`: `DeviceUsersHaveDevice` with the locations that have no encoder
  (`NoEncoder`) and no capture thread (`NoCapture`).

The device argument is the join: `Released` happens only at locations that
`PumpJoined` guards or that follow one, where the capture thread is out of its
loop and the encoder is gone.  The types are proved in groups of variables, so
that each action is only concerned with the groups it changes.

`ScreenPipelineSafetyProofs` proves the other safety properties on top of it,
with a second invariant `SafetyInv`:

* `Resources`, for `StateMeansResources`: in which states and places the pump
  runs, and that RECONNECTING is reached only from a place after `encode()`;
* `Ends`, for `CleanExit`: STOPPING is entered only after `stop()`, and what is
  left at the places from which the thread ends;
* `KeyFrameComes`, for `FirstPacketIsKey`: while there are new clients, the
  encoder is new or has a forced IDR;
* `CapturedFrames`, then `StreamedFrames`, for `EncodedFrameFits`: a start of the
  pump empties the queue and follows an `init` of the backend, every frame it
  delivers has the backend's size, and size, freeze frame and encoder are made
  from such frames.  A pump that runs has a capture thread, hence (by `Devices`)
  a ready device: that is why no dead texture is ever taken;
* `ResizeKept`, for `NoLostResize`: the size that waits is always the
  supervisor's, so whichever of the four accesses comes first, the size is in
  use, waiting, or about to be announced; FATAL is never left.

`ContractKept` and `PumpKept` are the safety parts of its two refinements: every
step of the pipeline is a step of `PipelineContract` or changes nothing it sees,
and the same for its pump and `PumpContract`.  The first needs to know that
STOPPING follows `stop()` and the end of the thread a terminal state (`Ends`),
the second that where a pump is started its thread has been joined (`Devices`).

Each part of an invariant has a lemma with one step for each action.

`MonitorSupervisorProofs` proves `TypeOK`, `PipelinesMatchLayout` and
`OneUserPerOutput` for every set of monitors and every desktop, and composes
supervisor and pipeline.  `ContractKept` proves `PipelinesKeepContract`: whatever
the poll thread and the main thread do to a pipeline, in any interleaving, is a
step that the contract allows a supervisor, and it takes a pipeline out of the
map only when that has ended.  `ContractExpected` is the other direction: a
step that the contract allows a pipeline is a step of `PipelineThread`.  With
`ContractKept` of `ScreenPipelineSafetyProofs` the safety properties proved of the
supervisor hold for pipelines that do all that `ScreenPipeline` does.  Because of
the mutex an application of changes can be followed from lock to unlock (`Mutex`,
`Todo`, `Asked`); while it runs, a monitor of the new list is either still to be
visited, with the pipeline of the last list, or has one that is right up to the
size (`Data`, `Presence`), which the notices at the end make equal.  From `Data`
alone follows `OneUserPerOutput`, if outputs keep their handles: the removed
monitors come first, so during the visits of the current ones only these have
pipelines, and no two of them share a handle in the last or the new list.

`AudioPipelineProofs` proves all safety properties and the whole refinement
`ImplementsBroadcast`, for all numbers of subscribers, queue sizes and batches.
`Lifecycle` relates threads, flags and resources to the place in `start()` or
`stop()` and is inductive alone.  The stream is followed from source to reader:
`Captures` (buffers are numbered without a gap), `Batch` (what is pushed was
published last), `Members` and `Owed` (a listed subscriber is owed just what the
current push has left), `Queues` (a queue is the end of what its owner was
given).  In the refinement a push is `Deliver`, an encode `Publish`, and
everything in start, stop and capture is a stutter.

`AvTimestampsProofs` proves `TypeOK`, `VideoOnTime`, `AudioOnTime`,
`ReconnectedInSync` and `MuxerTimestampsGrow` for every frame rate, sample rate
and clock resolution.  Its heart is
one step of the encoder: a bumped pts is one more than the last, and frames are
an interval apart on the steady clock, hence on the wall clock (`Clocks`) unless
that was set; so a bump gains on time at most what the interval was rounded by.
`Frames` keeps the stopwatch behind the last stamp over breaks; `Links` knows
that a broken connection has an encoder that has encoded, so that its first
frame is a base; `Written` compares the muxer's pts with the last ones computed.  `AudioOnTime` has
an invariant of its own, on top of that one.  `AudioQueue`: the stamps in the
queue are in order, and between two of them, or from one of them to now, there
are never more packets than the time between holds and `Burst` besides, also
after the oldest were dropped.  It is a token bucket, with `pending` for the
tokens.  `AudioSound`: the last pts leaves room for the packets that may still
come with stamps near its own (`Allowed`, `Room`), because a packet takes longer
to play than the sample by which its pts may be bumped.

`MetricsStoreProofs` proves what docs/metrics.md:10 promises to readers: a file
is whole, never disappears, never gets older (`FilesOnlyImprove`), and the last
ones are from after the stop (`FinalFilesAreCurrent`).  A rename comes only
after a clean close, so it brings in the document of this attempt (`Attempt`);
there is one writer, so that document is the newest (`Ages`); and the pass after
the loop is followed through its two files (`LastPass`).

Further assumptions on constants: `LayoutsAssumption` (a list numbers its
monitors differently and holds records of four fields), `BoundAssumption`,
`NoneAssumption`; `AudioAssumption` (limits are positive); `TimeAssumption` (at
most one frame per clock unit, and a packet of audio holds at least one sample,
`Second <= PacketTime * Rate`; it holds about a thousand, so that a device
clock which runs fast is no matter); `StoreAssumption` (`None` and
`Partial` are not documents).

`OneUser` further assumes `HandlesStay`: a monitor that has another's handle in
some list, like the device name of a failed lookup, is not in that other list.
The five desktops of the run satisfy it.

Only model-checked: liveness, since the provers do not reach fairness and
`ENABLED`.  That is `WaitEnds`, `ResizeIsServed`, `StopMakesRunReturn`,
`FatalIsReplaced`, `FinalLayoutIsServed`, `HardErrorEndsAudio` and `StopReturns`,
and of the refinements `ContractEnds` in `PipelineContract` and `ThreadEnds` in
`PumpContract`.  Every invariant and every action property of the passing runs
is proved.

## 5. What is not modelled

* What FFmpeg, D3D11 and Windows do inside: a call succeeds or fails.  The
  encoder is taken to return one packet for each frame, as the configuration's
  zero delay and zero B-frames make it; with B-frames, `FirstPacketIsKey` would
  be about the encoder's own queue.
* Durations: except in `AvTimestamps` there is only what may happen before or
  after what.  Hence no `BackoffState`, which only sets the length of a sleep, and
  no `ConfigLoader`, which only chooses such lengths, paths and rates.
* `LogSink`: formatting, and no state that anything depends on.
* The order in which `EncoderController::init` tries codecs: it decides which
  codec is opened, while everything else depends only on whether one was and on
  its path (`OpenedEncoder`, `OpenEncoderFails`).
* Numbers and texts of `MonitorDetector`: `extract_number`, `is_mirror_driver`.
  `LayoutsAssumption` states what is needed of the numbers.
* Of audio: sample formats and resampling; `wait_pop` of a subscriber queue,
  `try_pop` of the capture and `flush` of the audio encoder, which nobody calls; a
  second `start()`, which nobody calls either.  The FIFO of the encoder is taken
  to hold less than a frame after `encode()`, which fails only for lack of
  memory.  Loopback capture delivers no events while nothing plays, so two silent
  seconds look like a lost device; that
  is `CaptureFails`.
* A loss of power: write_atomic() does not promise anything of it
  (metrics_store.cpp:143-144).
* The time between taking a frame and encoding it: if the capture thread makes
  more copies meanwhile than the ring has textures to spare, the image encoded
  is a newer one.  It is never torn, as both sides take the device's lock
  (dxgi_capture.cpp:151-153), and `EncodedFrameFits` holds of either.
* An overflow of 64-bit products of microseconds and rates: base and times are
  both wall-clock times of one session, since a reconnect has an encoder that has
  encoded (`StateMeansResources`).
* Swapped handles: if two monitors exchange their HMONITORs between two polls, the
  new pipeline of one may open an output that the old pipeline of the other still
  has; DuplicateOutput then fails and is retried until that one is replaced, in
  the same pass of the poll thread.
* The process entry apart from Ctrl+C: the window before the supervisor is
  published is listed as a hazard.

## 6. Plan

Done, in this order: `StateMachine`, `ScreenPipeline`, `FramePump`,
`PipelineContract`, `MonitorSupervisor`, proofs of pump and pipeline;
`AudioPipeline` with `AudioBroadcast`, `AvTimestamps`, the failed CCD lookup of
`MonitorDetector`, `MetricsStore`, and the proofs of all four and of the
supervisor; `PumpContract` with its two implementations, wake-ups, the
composition of supervisor and pipeline over `PipelineContract`, and a run for
`MetricsStore`.

What is left and worth doing:

1. Swapped handles: another layout for the supervisor, with the retries of
   DuplicateOutput in the pipeline.
2. The refinement of the pump itself: `ScreenPipeline` with the pump of
   `FramePump` in place of its own, to run what the contract separates.
3. Proofs: `OneUserPerOutput` from an assumption on a single step of the desktop
   instead of on all lists (`HandlesStay`).
