--------------------- MODULE ScreenPipelineSafetyProofs ---------------------
(***************************************************************************)
(* Proofs of the remaining safety properties of ScreenPipeline, on top of  *)
(* the invariant of ScreenPipelineProofs.                                  *)
(*                                                                         *)
(* The argument about frames: each start of the pump empties the queue and *)
(* follows an init of the backend at a known size, every frame it then     *)
(* delivers has that size, and the pipeline's size, its freeze frame and   *)
(* its encoder are made from it.  The argument about resizes: the size     *)
(* that waits is always the supervisor's, and the flag is up or about to   *)
(* be raised until the pipeline has taken the size.                        *)
(***************************************************************************)
EXTENDS ScreenPipelineProofs

(* What the state of the state machine promises of pump and clients.       *)
Resources ==
  /\ state \in {"CAPTURING", "CONNECTING", "STREAMING", "RECONNECTING"}
       \/ pc = "seed" => pump = "running"
  /\ state = "STREAMING" => clients = NumUrls
  /\ pc = "send" \/ state = "RECONNECTING" => encoder.started

(* What is left at the places from which the thread ends.                  *)
Ends ==
  /\ state = "STOPPING" => stop
  /\ pc \in {"init", "initFailed"} => pump = "none" /\ backend.dev = "none"
  /\ pc \in {"init", "initFailed", "firstFrame", "initStop", "exited"}
       => clients = 0
  /\ pc = "exited" => pump # "running" /\ backend.dev # "ready"

(* An encoder that has new clients has yet to produce its next key frame.  *)
KeyFrameComes ==
  /\ pc = "connect" => ~encoder.started
  /\ fresh /\ state = "STREAMING" /\ pc # "send" =>
       ~encoder.started \/ encoder.forceIdr
  /\ FirstPacketIsKey

Usable(f, s) == f.size = s /\ f.kind # "dead"

AllUsable(q, s) == \A i \in DOMAIN q : Usable(q[i], s)

(* Frames on their way from the backend have its size and a live texture.  *)
CapturedFrames ==
  /\ pump = "running" => capturing
  /\ ~capturing => held = None
  /\ backend.dev = "ready" /\ backend.zeroCopy =>
       backend.physical = backend.logical
  /\ held # None => Usable(held, backend.logical)
  /\ backend.dev = "ready" => AllUsable(queue, backend.logical)

(* The pipeline, its freeze frame and its encoder have the backend's size. *)
StreamedFrames ==
  /\ pc = "init" => size = None
  /\ pc = "firstFrame" => backend.logical = target
  /\ backend.dev = "ready" /\ size # None => backend.logical = size
  /\ pc \in {"init", "firstFrame", "initStop", "resizeSwap", "resizeRead",
             "reinit"} => freeze = None
  /\ freeze # None => Usable(freeze, size)
  /\ encoder # None => encoder.size = size
  /\ pc = "encode" => freeze # None

(* The size that waits for the pipeline is the one that was passed last.   *)
ResizeKept ==
  /\ pendingSize # None => pendingSize = monitorSize
  /\ NoLostResize

SafetyInv ==
  Resources /\ Ends /\ KeyFrameComes /\ CapturedFrames /\ StreamedFrames
  /\ ResizeKept

-----------------------------------------------------------------------------
(* The pump, the clients and the encoder are what the state says.          *)
LEMMA ResourcesPreserved ==
  ASSUME TypeOK, StateFits, DataFits, Resources,
         [Next]_vars
  PROVE  Resources'
<1>0. /\ state \in PipelineState /\ clients \in 0 .. NumUrls
      /\ encoder \in Encoder \cup {None} /\ NumUrls \in Nat \ {0}
  BY ConstantsAssumption DEF TypeOK
<1> USE DEF machineVars, resizeVars, initVars, pumpVars, clientVars,
            streamVars, StateFits, Streaming, Reconnecting, Restarting,
            Resources
<1>1. CASE CaptureInit
  BY <1>1, <1>0, ValidTransition
     DEF CaptureInit, StartPump, Opened, ValidTransitions
<1>2. CASE CaptureInitFails
  BY <1>2, <1>0 DEF CaptureInitFails
<1>3. CASE CaptureInitGivesUp
  BY <1>3, <1>0, ValidTransition DEF CaptureInitGivesUp, ValidTransitions
<1>3a. CASE ReturnFromInit
  BY <1>3a, <1>0 DEF ReturnFromInit
<1>4. CASE FirstFrame
  BY <1>4, <1>0 DEF FirstFrame, Pop
<1>5. CASE FirstFrameTimeout
  BY <1>5, <1>0, ValidTransition
     DEF FirstFrameTimeout, AskPumpToStop, ValidTransitions
<1>6. CASE FirstFrameCleanup
  BY <1>6, <1>0 DEF FirstFrameCleanup, PumpJoined, Released
<1>7. CASE DispatchStop
  BY <1>7, <1>0, DispatchTransition
     DEF DispatchStop, BeginTeardown, AskPumpToStop
<1>8. CASE DispatchTerminal
  BY <1>8, <1>0 DEF DispatchTerminal, BeginTeardown, AskPumpToStop
<1>9. CASE Teardown
  BY <1>9, <1>0 DEF Teardown, ClientsDropped, PumpJoined, Released
<1>10. CASE OpenEncoder
  BY <1>10, <1>0, ValidTransition
     DEF OpenEncoder, OpenedEncoder, ClientsDropped, ValidTransitions
<1>11. CASE OpenEncoderFails
  BY <1>11, <1>0 DEF OpenEncoderFails
<1>12. CASE ConnectUrl
  BY <1>12, <1>0, ValidTransition
     DEF ConnectUrl, ClientConnected, AllConnected, ValidTransitions
<1>13. CASE ConnectUrlFails
  BY <1>13, <1>0, ValidTransition
     DEF ConnectUrlFails, ClientsDropped, ValidTransitions
<1>14. CASE ConnectWaitOver
  BY <1>14, <1>0 DEF ConnectWaitOver
<1>15. CASE EnterStreaming
  BY <1>15, <1>0 DEF EnterStreaming
<1>16. CASE StreamStops
  BY <1>16, <1>0 DEF StreamStops
<1>17. CASE StreamHardError
  BY <1>17, <1>0, ValidTransition DEF StreamHardError, ValidTransitions
<1>18. CASE DrainAudio
  BY <1>18, <1>0 DEF DrainAudio
<1>19. CASE NothingToSend
  BY <1>19, <1>0 DEF NothingToSend, Pop
<1>20. CASE FrameDue
  BY <1>20, <1>0, ValidTransition DEF FrameDue, Pop, ValidTransitions
<1>21. CASE Encode
  <2>1. encoder \in Encoder
    BY <1>21, <1>0 DEF Encode, DataFits
  <2>2. encoder'.started
    BY <1>21, <2>1 DEF Encode, Encoder
  <2>3. QED
    BY <1>21, <2>2 DEF Encode
<1>22. CASE EncodeFails
  BY <1>22, <1>0, ValidTransition DEF EncodeFails, ValidTransitions
<1>23. CASE Send
  BY <1>23, <1>0 DEF Send
<1>24. CASE SendFails
  BY <1>24, <1>0, ValidTransition DEF SendFails, ValidTransitions
<1>25. CASE EnterReconnect
  BY <1>25, <1>0 DEF EnterReconnect, ClientsDropped
<1>26. CASE BackoffSleep
  BY <1>26, <1>0 DEF BackoffSleep
<1>27. CASE ReconnectStops
  BY <1>27, <1>0, ValidTransition DEF ReconnectStops, ValidTransitions
<1>28. CASE BackoffOver
  BY <1>28, <1>0 DEF BackoffOver
<1>29. CASE ReconnectUrl
  <2>1. encoder \in Encoder /\ encoder.started
    BY <1>29, <1>0 DEF ReconnectUrl, DataFits
  <2>2. [encoder EXCEPT !.forceIdr = TRUE].started
    BY <2>1 DEF Encoder
  <2>3. encoder'.started
    BY <1>29, <2>1, <2>2 DEF ReconnectUrl, IdrRequested
  <2>4. QED
    BY <1>29, <2>3, ValidTransition
       DEF ReconnectUrl, ClientConnected, AllConnected, ValidTransitions
<1>30. CASE ReconnectUrlFails
  BY <1>30, <1>0 DEF ReconnectUrlFails, ClientsDropped
<1>31. CASE EnterReconfigure
  BY <1>31, <1>0 DEF EnterReconfigure, AskPumpToStop
<1>32. CASE DropStream
  BY <1>32, <1>0 DEF DropStream, ClientsDropped, PumpJoined
<1>33. CASE SwapResizeFlag
  BY <1>33, <1>0 DEF SwapResizeFlag, ReleaseForReinit, Released
<1>34. CASE ReadPendingSize
  BY <1>34, <1>0 DEF ReadPendingSize, ReleaseForReinit, Released
<1>35. CASE Reinit
  BY <1>35, <1>0 DEF Reinit, StartPump, Opened
<1>36. CASE ReinitFails
  BY <1>36, <1>0 DEF ReinitFails
<1>37. CASE ReinitGivesUp
  BY <1>37, <1>0, ValidTransition DEF ReinitGivesUp, ValidTransitions
<1>38. CASE SeedFreezeFrame
  BY <1>38, <1>0, ValidTransition DEF SeedFreezeFrame, Pop, ValidTransitions
<1>39. CASE Acquire
  BY <1>39, <1>0 DEF Acquire
<1>40. CASE AcquireTimesOut
  BY <1>40, <1>0 DEF AcquireTimesOut, StillCapturing
<1>41. CASE AcquireFails
  BY <1>41, <1>0 DEF AcquireFails, StillCapturing
<1>42. CASE QueueFrame
  BY <1>42, <1>0 DEF QueueFrame, StillCapturing
<1>43. CASE RequestStop
  BY <1>43, <1>0 DEF RequestStop
<1>44. CASE NotifyResized
  BY <1>44, <1>0 DEF NotifyResized
<1>45. CASE RaiseResizeFlag
  BY <1>45, <1>0 DEF RaiseResizeFlag
<1>46. CASE UNCHANGED vars
  BY <1>46, <1>0 DEF vars
<1>47. QED
  BY <1>1, <1>2, <1>3, <1>3a, <1>4, <1>5, <1>6, <1>7, <1>8, <1>9, <1>10, <1>11,
     <1>12, <1>13, <1>14, <1>15, <1>16, <1>17, <1>18, <1>19, <1>20,
     <1>21, <1>22, <1>23, <1>24, <1>25, <1>26, <1>27, <1>28, <1>29,
     <1>30, <1>31, <1>32, <1>33, <1>34, <1>35, <1>36, <1>37, <1>38,
     <1>39, <1>40, <1>41, <1>42, <1>43, <1>44, <1>45, <1>46
     DEF Next, PipelineThread, InitStep, DispatchStep, ConnectStep,
         StreamStep, ReconnectStep, ReconfigureStep, CaptureThread, Supervisor
-----------------------------------------------------------------------------
(* Without stop(), the thread ends in FATAL, and nothing is left behind.   *)
LEMMA EndsPreserved ==
  ASSUME TypeOK, StateFits, Ends,
         [Next]_vars
  PROVE  Ends'
<1>0. state \in PipelineState /\ backend \in Backend
  BY DEF TypeOK
<1> USE DEF machineVars, resizeVars, initVars, pumpVars, clientVars,
            streamVars, StateFits, Streaming, Reconnecting, Restarting, Ends
<1>1. CASE CaptureInit
  BY <1>1, <1>0, ValidTransition
     DEF CaptureInit, StartPump, Opened, ValidTransitions
<1>2. CASE CaptureInitFails
  BY <1>2, <1>0 DEF CaptureInitFails
<1>3. CASE CaptureInitGivesUp
  BY <1>3, <1>0, ValidTransition DEF CaptureInitGivesUp, ValidTransitions
<1>3a. CASE ReturnFromInit
  BY <1>3a, <1>0 DEF ReturnFromInit
<1>4. CASE FirstFrame
  BY <1>4, <1>0 DEF FirstFrame, Pop
<1>5. CASE FirstFrameTimeout
  BY <1>5, <1>0, ValidTransition
     DEF FirstFrameTimeout, AskPumpToStop, ValidTransitions
<1>6. CASE FirstFrameCleanup
  <2>1. backend'.dev = "released"
    BY <1>6, <1>0 DEF FirstFrameCleanup, Released, Backend
  <2>2. QED
    BY <1>6, <2>1 DEF FirstFrameCleanup, PumpJoined
<1>7. CASE DispatchStop
  BY <1>7, <1>0, DispatchTransition
     DEF DispatchStop, BeginTeardown, AskPumpToStop
<1>8. CASE DispatchTerminal
  BY <1>8, <1>0 DEF DispatchTerminal, BeginTeardown, AskPumpToStop
<1>9. CASE Teardown
  <2>1. backend'.dev = "none"
    BY <1>9, <1>0 DEF Teardown, Released, Backend
  <2>2. QED
    BY <1>9, <2>1 DEF Teardown, ClientsDropped, PumpJoined
<1>10. CASE OpenEncoder
  BY <1>10, <1>0, ValidTransition
     DEF OpenEncoder, OpenedEncoder, ClientsDropped, ValidTransitions
<1>11. CASE OpenEncoderFails
  BY <1>11, <1>0 DEF OpenEncoderFails
<1>12. CASE ConnectUrl
  BY <1>12, <1>0, ValidTransition
     DEF ConnectUrl, ClientConnected, AllConnected, ValidTransitions
<1>13. CASE ConnectUrlFails
  BY <1>13, <1>0, ValidTransition
     DEF ConnectUrlFails, ClientsDropped, ValidTransitions
<1>14. CASE ConnectWaitOver
  BY <1>14, <1>0 DEF ConnectWaitOver
<1>15. CASE EnterStreaming
  BY <1>15, <1>0 DEF EnterStreaming
<1>16. CASE StreamStops
  BY <1>16, <1>0 DEF StreamStops
<1>17. CASE StreamHardError
  BY <1>17, <1>0, ValidTransition DEF StreamHardError, ValidTransitions
<1>18. CASE DrainAudio
  BY <1>18, <1>0 DEF DrainAudio
<1>19. CASE NothingToSend
  BY <1>19, <1>0 DEF NothingToSend, Pop
<1>20. CASE FrameDue
  BY <1>20, <1>0, ValidTransition DEF FrameDue, Pop, ValidTransitions
<1>21. CASE Encode
  BY <1>21, <1>0 DEF Encode
<1>22. CASE EncodeFails
  BY <1>22, <1>0, ValidTransition DEF EncodeFails, ValidTransitions
<1>23. CASE Send
  BY <1>23, <1>0 DEF Send
<1>24. CASE SendFails
  BY <1>24, <1>0, ValidTransition DEF SendFails, ValidTransitions
<1>25. CASE EnterReconnect
  BY <1>25, <1>0 DEF EnterReconnect, ClientsDropped
<1>26. CASE BackoffSleep
  BY <1>26, <1>0 DEF BackoffSleep
<1>27. CASE ReconnectStops
  BY <1>27, <1>0, ValidTransition DEF ReconnectStops, ValidTransitions
<1>28. CASE BackoffOver
  BY <1>28, <1>0 DEF BackoffOver
<1>29. CASE ReconnectUrl
  BY <1>29, <1>0, ValidTransition
     DEF ReconnectUrl, ClientConnected, AllConnected, IdrRequested,
         ValidTransitions
<1>30. CASE ReconnectUrlFails
  BY <1>30, <1>0 DEF ReconnectUrlFails, ClientsDropped
<1>31. CASE EnterReconfigure
  BY <1>31, <1>0 DEF EnterReconfigure, AskPumpToStop
<1>32. CASE DropStream
  BY <1>32, <1>0 DEF DropStream, ClientsDropped, PumpJoined
<1>33. CASE SwapResizeFlag
  BY <1>33, <1>0 DEF SwapResizeFlag, ReleaseForReinit, Released
<1>34. CASE ReadPendingSize
  BY <1>34, <1>0 DEF ReadPendingSize, ReleaseForReinit, Released
<1>35. CASE Reinit
  BY <1>35, <1>0 DEF Reinit, StartPump, Opened
<1>36. CASE ReinitFails
  BY <1>36, <1>0 DEF ReinitFails
<1>37. CASE ReinitGivesUp
  BY <1>37, <1>0, ValidTransition DEF ReinitGivesUp, ValidTransitions
<1>38. CASE SeedFreezeFrame
  BY <1>38, <1>0, ValidTransition DEF SeedFreezeFrame, Pop, ValidTransitions
<1>39. CASE Acquire
  BY <1>39, <1>0 DEF Acquire
<1>40. CASE AcquireTimesOut
  BY <1>40, <1>0 DEF AcquireTimesOut, StillCapturing
<1>41. CASE AcquireFails
  <2>1. backend'.dev = backend.dev
    BY <1>41, <1>0 DEF AcquireFails, Backend
  <2>2. QED
    BY <1>41, <2>1 DEF AcquireFails
<1>42. CASE QueueFrame
  BY <1>42, <1>0 DEF QueueFrame, StillCapturing
<1>43. CASE RequestStop
  BY <1>43, <1>0 DEF RequestStop
<1>44. CASE NotifyResized
  BY <1>44, <1>0 DEF NotifyResized
<1>45. CASE RaiseResizeFlag
  BY <1>45, <1>0 DEF RaiseResizeFlag
<1>46. CASE UNCHANGED vars
  BY <1>46, <1>0 DEF vars
<1>47. QED
  BY <1>1, <1>2, <1>3, <1>3a, <1>4, <1>5, <1>6, <1>7, <1>8, <1>9, <1>10, <1>11,
     <1>12, <1>13, <1>14, <1>15, <1>16, <1>17, <1>18, <1>19, <1>20,
     <1>21, <1>22, <1>23, <1>24, <1>25, <1>26, <1>27, <1>28, <1>29,
     <1>30, <1>31, <1>32, <1>33, <1>34, <1>35, <1>36, <1>37, <1>38,
     <1>39, <1>40, <1>41, <1>42, <1>43, <1>44, <1>45, <1>46
     DEF Next, PipelineThread, InitStep, DispatchStep, ConnectStep,
         StreamStep, ReconnectStep, ReconfigureStep, CaptureThread, Supervisor
-----------------------------------------------------------------------------
(* A key frame is on its way to new clients.                               *)
LEMMA KeyFramePreserved ==
  ASSUME TypeOK, StateFits, DataFits, Resources, KeyFrameComes,
         [Next]_vars
  PROVE  KeyFrameComes'
<1>0. /\ state \in PipelineState /\ encoder \in Encoder \cup {None}
      /\ fresh \in BOOLEAN
  BY DEF TypeOK
<1> USE DEF machineVars, resizeVars, initVars, pumpVars, clientVars,
            streamVars, StateFits, Streaming, Reconnecting, Restarting,
            KeyFrameComes, FirstPacketIsKey
<1>1. CASE CaptureInit
  BY <1>1, <1>0, ValidTransition
     DEF CaptureInit, StartPump, Opened, ValidTransitions
<1>2. CASE CaptureInitFails
  BY <1>2, <1>0 DEF CaptureInitFails
<1>3. CASE CaptureInitGivesUp
  BY <1>3, <1>0, ValidTransition DEF CaptureInitGivesUp, ValidTransitions
<1>3a. CASE ReturnFromInit
  BY <1>3a, <1>0 DEF ReturnFromInit
<1>4. CASE FirstFrame
  BY <1>4, <1>0 DEF FirstFrame, Pop
<1>5. CASE FirstFrameTimeout
  BY <1>5, <1>0, ValidTransition
     DEF FirstFrameTimeout, AskPumpToStop, ValidTransitions
<1>6. CASE FirstFrameCleanup
  BY <1>6, <1>0 DEF FirstFrameCleanup, PumpJoined, Released
<1>7. CASE DispatchStop
  BY <1>7, <1>0, DispatchTransition
     DEF DispatchStop, BeginTeardown, AskPumpToStop
<1>8. CASE DispatchTerminal
  BY <1>8, <1>0 DEF DispatchTerminal, BeginTeardown, AskPumpToStop
<1>9. CASE Teardown
  BY <1>9, <1>0 DEF Teardown, ClientsDropped, PumpJoined, Released
<1>10. CASE OpenEncoder
  BY <1>10, <1>0, ValidTransition
     DEF OpenEncoder, OpenedEncoder, ClientsDropped, ValidTransitions
<1>11. CASE OpenEncoderFails
  BY <1>11, <1>0 DEF OpenEncoderFails
<1>12. CASE ConnectUrl
  BY <1>12, <1>0, ValidTransition
     DEF ConnectUrl, ClientConnected, AllConnected, ValidTransitions
<1>13. CASE ConnectUrlFails
  BY <1>13, <1>0, ValidTransition
     DEF ConnectUrlFails, ClientsDropped, ValidTransitions
<1>14. CASE ConnectWaitOver
  BY <1>14, <1>0 DEF ConnectWaitOver
<1>15. CASE EnterStreaming
  BY <1>15, <1>0 DEF EnterStreaming
<1>16. CASE StreamStops
  BY <1>16, <1>0 DEF StreamStops
<1>17. CASE StreamHardError
  BY <1>17, <1>0, ValidTransition DEF StreamHardError, ValidTransitions
<1>18. CASE DrainAudio
  BY <1>18, <1>0 DEF DrainAudio
<1>19. CASE NothingToSend
  BY <1>19, <1>0 DEF NothingToSend, Pop
<1>20. CASE FrameDue
  BY <1>20, <1>0, ValidTransition DEF FrameDue, Pop, ValidTransitions
<1>21. CASE Encode
  <2>1. fresh => packet' = "key"
    BY <1>21, <1>0 DEF Encode
  <2>2. QED
    BY <1>21, <2>1 DEF Encode
<1>22. CASE EncodeFails
  BY <1>22, <1>0, ValidTransition DEF EncodeFails, ValidTransitions
<1>23. CASE Send
  BY <1>23, <1>0 DEF Send
<1>24. CASE SendFails
  BY <1>24, <1>0, ValidTransition DEF SendFails, ValidTransitions
<1>25. CASE EnterReconnect
  BY <1>25, <1>0 DEF EnterReconnect, ClientsDropped
<1>26. CASE BackoffSleep
  BY <1>26, <1>0 DEF BackoffSleep
<1>27. CASE ReconnectStops
  BY <1>27, <1>0, ValidTransition DEF ReconnectStops, ValidTransitions
<1>28. CASE BackoffOver
  BY <1>28, <1>0 DEF BackoffOver
<1>29. CASE ReconnectUrl
  <2>1. encoder \in Encoder
    BY <1>29, <1>0 DEF ReconnectUrl, DataFits
  <2>2. [encoder EXCEPT !.forceIdr = TRUE].forceIdr
    BY <2>1 DEF Encoder
  <2>3. QED
    BY <1>29, <2>2, ValidTransition
       DEF ReconnectUrl, IdrRequested, ValidTransitions
<1>30. CASE ReconnectUrlFails
  BY <1>30, <1>0 DEF ReconnectUrlFails, ClientsDropped
<1>31. CASE EnterReconfigure
  BY <1>31, <1>0 DEF EnterReconfigure, AskPumpToStop
<1>32. CASE DropStream
  BY <1>32, <1>0 DEF DropStream, ClientsDropped, PumpJoined
<1>33. CASE SwapResizeFlag
  BY <1>33, <1>0 DEF SwapResizeFlag, ReleaseForReinit, Released
<1>34. CASE ReadPendingSize
  BY <1>34, <1>0 DEF ReadPendingSize, ReleaseForReinit, Released
<1>35. CASE Reinit
  BY <1>35, <1>0 DEF Reinit, StartPump, Opened
<1>36. CASE ReinitFails
  BY <1>36, <1>0 DEF ReinitFails
<1>37. CASE ReinitGivesUp
  BY <1>37, <1>0, ValidTransition DEF ReinitGivesUp, ValidTransitions
<1>38. CASE SeedFreezeFrame
  BY <1>38, <1>0, ValidTransition DEF SeedFreezeFrame, Pop, ValidTransitions
<1>39. CASE Acquire
  BY <1>39, <1>0 DEF Acquire
<1>40. CASE AcquireTimesOut
  BY <1>40, <1>0 DEF AcquireTimesOut, StillCapturing
<1>41. CASE AcquireFails
  BY <1>41, <1>0 DEF AcquireFails, StillCapturing
<1>42. CASE QueueFrame
  BY <1>42, <1>0 DEF QueueFrame, StillCapturing
<1>43. CASE RequestStop
  BY <1>43, <1>0 DEF RequestStop
<1>44. CASE NotifyResized
  BY <1>44, <1>0 DEF NotifyResized
<1>45. CASE RaiseResizeFlag
  BY <1>45, <1>0 DEF RaiseResizeFlag
<1>46. CASE UNCHANGED vars
  BY <1>46, <1>0 DEF vars
<1>47. QED
  BY <1>1, <1>2, <1>3, <1>3a, <1>4, <1>5, <1>6, <1>7, <1>8, <1>9, <1>10, <1>11,
     <1>12, <1>13, <1>14, <1>15, <1>16, <1>17, <1>18, <1>19, <1>20,
     <1>21, <1>22, <1>23, <1>24, <1>25, <1>26, <1>27, <1>28, <1>29,
     <1>30, <1>31, <1>32, <1>33, <1>34, <1>35, <1>36, <1>37, <1>38,
     <1>39, <1>40, <1>41, <1>42, <1>43, <1>44, <1>45, <1>46
     DEF Next, PipelineThread, InitStep, DispatchStep, ConnectStep,
         StreamStep, ReconnectStep, ReconfigureStep, CaptureThread, Supervisor
-----------------------------------------------------------------------------
(* Taking from and adding to a queue keeps its frames usable.               *)
LEMMA UsableTaken ==
  ASSUME NEW q \in Seq(Frame), q # <<>>, NEW s, AllUsable(q, s)
  PROVE  Usable(Head(q), s) /\ AllUsable(Tail(q), s)
<1>1. Head(q) = q[1] /\ 1 \in DOMAIN q
  OBVIOUS
<1>2. \A i \in DOMAIN Tail(q) : Tail(q)[i] = q[i + 1] /\ i + 1 \in DOMAIN q
  OBVIOUS
<1>3. QED
  BY <1>1, <1>2 DEF AllUsable

LEMMA UsableAdded ==
  ASSUME NEW q \in Seq(Frame), NEW s, AllUsable(q, s),
         NEW f \in Frame, Usable(f, s)
  PROVE  AllUsable(Append(DropOldestIfFull(q), f), s)
<1>1. MaxQueueSize \in Nat \ {0}
  BY ConstantsAssumption
<1>2. DropOldestIfFull(q) \in Seq(Frame) /\ AllUsable(DropOldestIfFull(q), s)
  <2>1. CASE Len(q) >= MaxQueueSize
    <3>1. q # <<>>
      BY <1>1, <2>1
    <3>2. QED
      BY <2>1, <3>1, FirstOfQueue, UsableTaken DEF DropOldestIfFull
  <2>2. CASE ~(Len(q) >= MaxQueueSize)
    BY <2>2 DEF DropOldestIfFull
  <2>3. QED
    BY <2>1, <2>2
<1>3. ASSUME NEW r \in Seq(Frame), AllUsable(r, s)
      PROVE  AllUsable(Append(r, f), s)
  <2>1. SUFFICES ASSUME NEW i \in DOMAIN Append(r, f)
                 PROVE  Usable(Append(r, f)[i], s)
    BY DEF AllUsable
  <2>2. CASE i = Len(r) + 1
    BY <2>2
  <2>3. CASE i # Len(r) + 1
    <3>1. i \in DOMAIN r /\ Append(r, f)[i] = r[i]
      BY <2>3
    <3>2. QED
      BY <1>3, <3>1 DEF AllUsable
  <2>4. QED
    BY <2>2, <2>3
<1>4. QED
  BY <1>2, <1>3

(* Pop leaves usable frames in the queue.                                  *)
LEMMA PopKeepsUsable ==
  ASSUME queue \in Seq(Frame), NEW s, AllUsable(queue, s), Pop
  PROVE  AllUsable(queue', s)
<1>1. CASE queue = <<>>
  BY <1>1 DEF Pop, AllUsable
<1>2. CASE queue # <<>>
  BY <1>2, UsableTaken DEF Pop
<1>3. QED
  BY <1>1, <1>2

(* What the capture thread hands over has the size of the backend.         *)
LEMMA CapturedPreserved ==
  ASSUME TypeOK, Devices, CapturedFrames,
         [Next]_vars
  PROVE  CapturedFrames'
<1>0. /\ backend \in Backend /\ queue \in Seq(Frame) /\ capturing \in BOOLEAN
      /\ held \in Frame \cup {None} /\ target \in Sizes /\ None \notin Frame
  BY ConstantsAssumption DEF TypeOK
<1> USE DEF machineVars, resizeVars, initVars, pumpVars, clientVars,
            streamVars, CapturedFrames
<1>1. CASE CaptureInit
  <2>1. backend' \in Backend /\ ~backend'.zeroCopy
    BY <1>1, <1>0, BackendTyped DEF CaptureInit, Opened
  <2>2. queue' = <<>> /\ held' = None /\ capturing'
    BY <1>1 DEF CaptureInit, StartPump
  <2>3. AllUsable(queue', backend'.logical)
    BY <2>2 DEF AllUsable
  <2>4. QED
    BY <2>1, <2>2, <2>3
<1>2. CASE CaptureInitFails
  BY <1>2, <1>0 DEF CaptureInitFails
<1>3. CASE CaptureInitGivesUp
  BY <1>3, <1>0 DEF CaptureInitGivesUp
<1>3a. CASE ReturnFromInit
  BY <1>3a, <1>0 DEF ReturnFromInit
<1>4. CASE FirstFrame
  BY <1>4, <1>0, PopKeepsUsable DEF FirstFrame, Pop
<1>5. CASE FirstFrameTimeout
  BY <1>5, <1>0 DEF FirstFrameTimeout, AskPumpToStop
<1>6. CASE FirstFrameCleanup
  <2>1. backend'.dev # "ready" /\ backend'.logical = backend.logical
    BY <1>6, <1>0 DEF FirstFrameCleanup, Released, Backend
  <2>2. QED
    BY <1>6, <2>1 DEF FirstFrameCleanup, PumpJoined
<1>7. CASE DispatchStop
  BY <1>7, <1>0, DispatchTransition
     DEF DispatchStop, BeginTeardown, AskPumpToStop
<1>8. CASE DispatchTerminal
  BY <1>8, <1>0 DEF DispatchTerminal, BeginTeardown, AskPumpToStop
<1>9. CASE Teardown
  <2>1. backend'.dev # "ready" /\ backend'.logical = backend.logical
    BY <1>9, <1>0 DEF Teardown, Released, Backend
  <2>2. QED
    BY <1>9, <2>1 DEF Teardown, PumpJoined
<1>10. CASE OpenEncoder
  <2>1. PICK zeroCopy \in ZeroCopyChoices :
          backend' = [backend EXCEPT !.zeroCopy = zeroCopy]
    BY <1>10 DEF OpenEncoder
  <2>2. /\ backend'.dev = backend.dev /\ backend'.zeroCopy = zeroCopy
        /\ backend'.logical = backend.logical
        /\ backend'.physical = backend.physical
    BY <1>0, <2>1 DEF Backend
  <2>3. zeroCopy => backend.physical = backend.logical
    BY <2>1 DEF ZeroCopyChoices, SupportsZeroCopy
  <2>4. UNCHANGED pumpVars
    BY <1>10 DEF OpenEncoder
  <2>5. QED
    BY <2>2, <2>3, <2>4
<1>11. CASE OpenEncoderFails
  BY <1>11, <1>0 DEF OpenEncoderFails
<1>12. CASE ConnectUrl
  BY <1>12, <1>0 DEF ConnectUrl, ClientConnected, AllConnected
<1>13. CASE ConnectUrlFails
  BY <1>13, <1>0 DEF ConnectUrlFails, ClientsDropped
<1>14. CASE ConnectWaitOver
  BY <1>14, <1>0 DEF ConnectWaitOver
<1>15. CASE EnterStreaming
  BY <1>15, <1>0 DEF EnterStreaming
<1>16. CASE StreamStops
  BY <1>16, <1>0 DEF StreamStops
<1>17. CASE StreamHardError
  BY <1>17, <1>0 DEF StreamHardError
<1>18. CASE DrainAudio
  BY <1>18, <1>0 DEF DrainAudio
<1>19. CASE NothingToSend
  BY <1>19, <1>0, PopKeepsUsable DEF NothingToSend, Pop
<1>20. CASE FrameDue
  BY <1>20, <1>0, PopKeepsUsable DEF FrameDue, Pop
<1>21. CASE Encode
  BY <1>21, <1>0 DEF Encode
<1>22. CASE EncodeFails
  BY <1>22, <1>0 DEF EncodeFails
<1>23. CASE Send
  BY <1>23, <1>0 DEF Send
<1>24. CASE SendFails
  BY <1>24, <1>0 DEF SendFails
<1>25. CASE EnterReconnect
  BY <1>25, <1>0 DEF EnterReconnect, ClientsDropped
<1>26. CASE BackoffSleep
  BY <1>26, <1>0 DEF BackoffSleep
<1>27. CASE ReconnectStops
  BY <1>27, <1>0 DEF ReconnectStops
<1>28. CASE BackoffOver
  BY <1>28, <1>0 DEF BackoffOver
<1>29. CASE ReconnectUrl
  BY <1>29, <1>0 DEF ReconnectUrl, ClientConnected, AllConnected, IdrRequested
<1>30. CASE ReconnectUrlFails
  BY <1>30, <1>0 DEF ReconnectUrlFails, ClientsDropped
<1>31. CASE EnterReconfigure
  BY <1>31, <1>0 DEF EnterReconfigure, AskPumpToStop
<1>32. CASE DropStream
  BY <1>32, <1>0 DEF DropStream, ClientsDropped, PumpJoined
<1>33. CASE SwapResizeFlag
  <2>1. CASE resizeFlag
    BY <1>33, <2>1 DEF SwapResizeFlag
  <2>2. CASE ~resizeFlag
    <3>1. backend'.dev # "ready" /\ backend'.logical = backend.logical
      BY <1>33, <1>0, <2>2 DEF SwapResizeFlag, ReleaseForReinit, Released, Backend
    <3>2. QED
      BY <1>33, <2>2, <3>1 DEF SwapResizeFlag, ReleaseForReinit
  <2>3. QED
    BY <2>1, <2>2
<1>34. CASE ReadPendingSize
  <2>1. backend'.dev # "ready" /\ backend'.logical = backend.logical
    BY <1>34, <1>0 DEF ReadPendingSize, ReleaseForReinit, Released, Backend
  <2>2. QED
    BY <1>34, <2>1 DEF ReadPendingSize, ReleaseForReinit
<1>35. CASE Reinit
  <2>1. backend' \in Backend /\ ~backend'.zeroCopy
    BY <1>35, <1>0, BackendTyped DEF Reinit, Opened
  <2>2. queue' = <<>> /\ held' = None /\ capturing'
    BY <1>35 DEF Reinit, StartPump
  <2>3. AllUsable(queue', backend'.logical)
    BY <2>2 DEF AllUsable
  <2>4. QED
    BY <2>1, <2>2, <2>3
<1>36. CASE ReinitFails
  <2>1. backend'.dev # "ready"
    BY <1>36, <1>0 DEF ReinitFails, Released, Backend
  <2>2. QED
    BY <1>36, <1>0, <2>1 DEF ReinitFails, Devices, NoCapture
<1>37. CASE ReinitGivesUp
  BY <1>37, <1>0 DEF ReinitGivesUp
<1>38. CASE SeedFreezeFrame
  BY <1>38, <1>0, PopKeepsUsable DEF SeedFreezeFrame, Pop
<1>39. CASE Acquire
  <2>1. backend.dev = "ready"
    BY <1>39 DEF Acquire, Devices, DeviceUsersHaveDevice
  <2>2. Usable(AcquiredFrame, backend.logical)
    BY <1>0, <2>1 DEF AcquiredFrame, Usable
  <2>3. QED
    BY <1>39, <2>2 DEF Acquire
<1>40. CASE AcquireTimesOut
  BY <1>40, <1>0 DEF AcquireTimesOut, StillCapturing
<1>41. CASE AcquireFails
  <2>1. /\ backend'.dev = backend.dev /\ backend'.zeroCopy = backend.zeroCopy
        /\ backend'.logical = backend.logical
        /\ backend'.physical = backend.physical
    BY <1>41, <1>0 DEF AcquireFails, Backend
  <2>2. QED
    BY <1>41, <2>1 DEF AcquireFails, StillCapturing
<1>42. CASE QueueFrame
  <2>1. backend.dev = "ready" => AllUsable(queue', backend.logical)
    BY <1>42, <1>0, UsableAdded DEF QueueFrame
  <2>2. QED
    BY <1>42, <2>1 DEF QueueFrame, StillCapturing
<1>43. CASE RequestStop
  BY <1>43, <1>0 DEF RequestStop
<1>44. CASE NotifyResized
  BY <1>44, <1>0 DEF NotifyResized
<1>45. CASE RaiseResizeFlag
  BY <1>45, <1>0 DEF RaiseResizeFlag
<1>46. CASE UNCHANGED vars
  BY <1>46, <1>0 DEF vars
<1>47. QED
  BY <1>1, <1>2, <1>3, <1>3a, <1>4, <1>5, <1>6, <1>7, <1>8, <1>9, <1>10, <1>11,
     <1>12, <1>13, <1>14, <1>15, <1>16, <1>17, <1>18, <1>19, <1>20,
     <1>21, <1>22, <1>23, <1>24, <1>25, <1>26, <1>27, <1>28, <1>29,
     <1>30, <1>31, <1>32, <1>33, <1>34, <1>35, <1>36, <1>37, <1>38,
     <1>39, <1>40, <1>41, <1>42, <1>43, <1>44, <1>45, <1>46
     DEF Next, PipelineThread, InitStep, DispatchStep, ConnectStep,
         StreamStep, ReconnectStep, ReconfigureStep, CaptureThread, Supervisor
-----------------------------------------------------------------------------
(* The frame that the pipeline takes has the size of the open backend.     *)
LEMMA TakenFrame ==
  ASSUME IInv, Resources, CapturedFrames,
         pc \in {"firstFrame", "framePop", "seed"}
  PROVE  /\ backend.dev = "ready"
         /\ queue # <<>> => /\ Head(queue) # None
                            /\ Usable(Head(queue), backend.logical)
<1>1. pump = "running"
  BY DEF IInv, StateFits, Streaming, Resources
<1>2. backend.dev = "ready"
  BY <1>1 DEF CapturedFrames, IInv, Devices, DeviceUsersHaveDevice
<1>3. queue \in Seq(Frame) /\ None \notin Frame
  BY ConstantsAssumption DEF IInv, TypeOK
<1>4. QED
  BY <1>2, <1>3, FirstOfQueue, UsableTaken DEF CapturedFrames

(* Everything on the way to the encoder has the size of the backend.       *)
LEMMA StreamedPreserved ==
  ASSUME IInv, Resources, CapturedFrames, StreamedFrames,
         [Next]_vars
  PROVE  StreamedFrames'
<1>0. /\ backend \in Backend /\ target \in Sizes /\ None \notin Sizes
      /\ encoder \in Encoder \cup {None}
      /\ StateFits /\ DataFits /\ NoEncoder
  BY ConstantsAssumption DEF IInv, TypeOK, Devices
<1> USE DEF machineVars, resizeVars, initVars, pumpVars, clientVars,
            streamVars, StreamedFrames
<1>1. CASE CaptureInit
  <2>1. backend'.logical = target
    BY <1>1, <1>0 DEF CaptureInit, Opened
  <2>2. QED
    BY <1>1, <1>0, <2>1 DEF CaptureInit, NoEncoder
<1>2. CASE CaptureInitFails
  BY <1>2, <1>0 DEF CaptureInitFails
<1>3. CASE CaptureInitGivesUp
  BY <1>3, <1>0 DEF CaptureInitGivesUp
<1>3a. CASE ReturnFromInit
  BY <1>3a, <1>0 DEF ReturnFromInit
<1>4. CASE FirstFrame
  <2>1. /\ backend.dev = "ready"
        /\ Head(queue) # None /\ Usable(Head(queue), backend.logical)
    BY <1>4, TakenFrame DEF FirstFrame
  <2>2. size' = backend.logical /\ freeze' = Head(queue)
    BY <1>4, <2>1 DEF FirstFrame, Pop, Usable
  <2>3. encoder' = None
    BY <1>4, <1>0 DEF FirstFrame, NoEncoder
  <2>4. QED
    BY <1>4, <2>1, <2>2, <2>3 DEF FirstFrame
<1>5. CASE FirstFrameTimeout
  BY <1>5, <1>0 DEF FirstFrameTimeout, AskPumpToStop
<1>6. CASE FirstFrameCleanup
  <2>1. backend'.dev # "ready"
    BY <1>6, <1>0 DEF FirstFrameCleanup, Released, Backend
  <2>2. QED
    BY <1>6, <2>1 DEF FirstFrameCleanup, PumpJoined
<1>7. CASE DispatchStop
  BY <1>7, <1>0 DEF DispatchStop, BeginTeardown, AskPumpToStop
<1>8. CASE DispatchTerminal
  BY <1>8, <1>0 DEF DispatchTerminal, BeginTeardown, AskPumpToStop
<1>9. CASE Teardown
  <2>1. backend'.dev # "ready"
    BY <1>9, <1>0 DEF Teardown, Released, Backend
  <2>2. QED
    BY <1>9, <2>1 DEF Teardown, PumpJoined
<1>10. CASE OpenEncoder
  <2>1. encoder'.size = size
    BY <1>10 DEF OpenEncoder, OpenedEncoder
  <2>2. backend'.dev = backend.dev /\ backend'.logical = backend.logical
    BY <1>10, <1>0 DEF OpenEncoder, Backend
  <2>3. QED
    BY <1>10, <2>1, <2>2 DEF OpenEncoder
<1>11. CASE OpenEncoderFails
  BY <1>11, <1>0 DEF OpenEncoderFails
<1>12. CASE ConnectUrl
  BY <1>12, <1>0 DEF ConnectUrl, ClientConnected, AllConnected
<1>13. CASE ConnectUrlFails
  BY <1>13, <1>0 DEF ConnectUrlFails, ClientsDropped
<1>14. CASE ConnectWaitOver
  BY <1>14, <1>0 DEF ConnectWaitOver
<1>15. CASE EnterStreaming
  BY <1>15, <1>0 DEF EnterStreaming
<1>16. CASE StreamStops
  BY <1>16, <1>0 DEF StreamStops
<1>17. CASE StreamHardError
  BY <1>17, <1>0 DEF StreamHardError
<1>18. CASE DrainAudio
  BY <1>18, <1>0 DEF DrainAudio
<1>19. CASE NothingToSend
  <2>1. backend.dev = "ready" /\ size # None
    BY <1>19, <1>0, TakenFrame DEF NothingToSend, DataFits
  <2>2. freeze' # None => Usable(freeze', size)
    BY <1>19, <2>1, TakenFrame DEF NothingToSend, Pop
  <2>3. QED
    BY <1>19, <2>1, <2>2 DEF NothingToSend, Pop
<1>20. CASE FrameDue
  <2>1. backend.dev = "ready" /\ size # None
    BY <1>20, <1>0, TakenFrame DEF FrameDue, DataFits
  <2>2. freeze' # None => Usable(freeze', size)
    BY <1>20, <2>1, TakenFrame DEF FrameDue, Pop
  <2>3. freeze' # None
    BY <1>20, TakenFrame DEF FrameDue, Pop
  <2>4. QED
    BY <1>20, <2>1, <2>2, <2>3 DEF FrameDue, Pop
<1>21. CASE Encode
  <2>1. encoder \in Encoder
    BY <1>21, <1>0 DEF Encode, StateFits, Streaming, DataFits
  <2>2. encoder'.size = encoder.size
    BY <1>21, <2>1 DEF Encode, Encoder
  <2>3. QED
    BY <1>21, <2>1, <2>2, ConstantsAssumption DEF Encode
<1>22. CASE EncodeFails
  BY <1>22, <1>0 DEF EncodeFails
<1>23. CASE Send
  BY <1>23, <1>0 DEF Send
<1>24. CASE SendFails
  BY <1>24, <1>0 DEF SendFails
<1>25. CASE EnterReconnect
  BY <1>25, <1>0 DEF EnterReconnect, ClientsDropped
<1>26. CASE BackoffSleep
  BY <1>26, <1>0 DEF BackoffSleep
<1>27. CASE ReconnectStops
  BY <1>27, <1>0 DEF ReconnectStops
<1>28. CASE BackoffOver
  BY <1>28, <1>0 DEF BackoffOver
<1>29. CASE ReconnectUrl
  <2>1. encoder \in Encoder
    BY <1>29, <1>0 DEF ReconnectUrl, StateFits, Reconnecting, DataFits
  <2>2. encoder'.size = encoder.size
    BY <1>29, <2>1 DEF ReconnectUrl, IdrRequested, Encoder
  <2>3. QED
    BY <1>29, <2>1, <2>2, ConstantsAssumption DEF ReconnectUrl
<1>30. CASE ReconnectUrlFails
  BY <1>30, <1>0 DEF ReconnectUrlFails, ClientsDropped
<1>31. CASE EnterReconfigure
  BY <1>31, <1>0 DEF EnterReconfigure, AskPumpToStop
<1>32. CASE DropStream
  BY <1>32, <1>0 DEF DropStream, ClientsDropped, PumpJoined
<1>33. CASE SwapResizeFlag
  <2>1. CASE resizeFlag
    BY <1>33, <2>1 DEF SwapResizeFlag
  <2>2. CASE ~resizeFlag
    <3>1. backend'.dev # "ready"
      BY <1>33, <1>0, <2>2 DEF SwapResizeFlag, ReleaseForReinit, Released, Backend
    <3>2. QED
      BY <1>33, <2>2, <3>1 DEF SwapResizeFlag, ReleaseForReinit
  <2>3. QED
    BY <2>1, <2>2
<1>34. CASE ReadPendingSize
  <2>1. backend'.dev # "ready"
    BY <1>34, <1>0 DEF ReadPendingSize, ReleaseForReinit, Released, Backend
  <2>2. QED
    BY <1>34, <2>1 DEF ReadPendingSize, ReleaseForReinit
<1>35. CASE Reinit
  <2>1. backend'.logical = target
    BY <1>35, <1>0 DEF Reinit, Opened
  <2>2. QED
    BY <1>35, <1>0, <2>1 DEF Reinit, NoEncoder
<1>36. CASE ReinitFails
  <2>1. backend'.dev # "ready"
    BY <1>36, <1>0 DEF ReinitFails, Released, Backend
  <2>2. QED
    BY <1>36, <1>0, <2>1 DEF ReinitFails
<1>37. CASE ReinitGivesUp
  BY <1>37, <1>0 DEF ReinitGivesUp
<1>38. CASE SeedFreezeFrame
  <2>1. backend.dev = "ready" /\ size # None
    BY <1>38, <1>0, TakenFrame DEF SeedFreezeFrame, DataFits
  <2>2. freeze' # None => Usable(freeze', size)
    BY <1>38, <2>1, TakenFrame DEF SeedFreezeFrame, Pop
  <2>3. QED
    BY <1>38, <2>1, <2>2 DEF SeedFreezeFrame, Pop
<1>39. CASE Acquire
  BY <1>39, <1>0 DEF Acquire
<1>40. CASE AcquireTimesOut
  BY <1>40, <1>0 DEF AcquireTimesOut, StillCapturing
<1>41. CASE AcquireFails
  <2>1. backend'.dev = backend.dev /\ backend'.logical = backend.logical
    BY <1>41, <1>0 DEF AcquireFails, Backend
  <2>2. QED
    BY <1>41, <2>1 DEF AcquireFails
<1>42. CASE QueueFrame
  BY <1>42, <1>0 DEF QueueFrame, StillCapturing
<1>43. CASE RequestStop
  BY <1>43, <1>0 DEF RequestStop
<1>44. CASE NotifyResized
  BY <1>44, <1>0 DEF NotifyResized
<1>45. CASE RaiseResizeFlag
  BY <1>45, <1>0 DEF RaiseResizeFlag
<1>46. CASE UNCHANGED vars
  BY <1>46, <1>0 DEF vars
<1>47. QED
  BY <1>1, <1>2, <1>3, <1>3a, <1>4, <1>5, <1>6, <1>7, <1>8, <1>9, <1>10, <1>11,
     <1>12, <1>13, <1>14, <1>15, <1>16, <1>17, <1>18, <1>19, <1>20,
     <1>21, <1>22, <1>23, <1>24, <1>25, <1>26, <1>27, <1>28, <1>29,
     <1>30, <1>31, <1>32, <1>33, <1>34, <1>35, <1>36, <1>37, <1>38,
     <1>39, <1>40, <1>41, <1>42, <1>43, <1>44, <1>45, <1>46
     DEF Next, PipelineThread, InitStep, DispatchStep, ConnectStep,
         StreamStep, ReconnectStep, ReconfigureStep, CaptureThread, Supervisor
-----------------------------------------------------------------------------
(* Whoever comes first, notify_resized() or do_reconfigure(): the size     *)
(* that was passed last is in use, waiting, or about to be announced.      *)
LEMMA ResizePreserved ==
  ASSUME IInv, Resources, CapturedFrames, StreamedFrames, ResizeKept,
         [Next]_vars
  PROVE  ResizeKept'
<1>0. /\ target \in Sizes /\ monitorSize \in Sizes /\ None \notin Sizes
      /\ state \in PipelineState /\ size \in Sizes \cup {None}
      /\ resizeFlag \in BOOLEAN /\ notifying \in BOOLEAN
      /\ StateFits /\ DataFits
  BY ConstantsAssumption DEF IInv, TypeOK
<1> USE DEF machineVars, resizeVars, initVars, pumpVars, clientVars,
            streamVars, StateFits, Streaming, Reconnecting, Restarting,
            ResizeKept, NoLostResize
<1>1. CASE CaptureInit
  BY <1>1, <1>0, ValidTransition
     DEF CaptureInit, StartPump, Opened, ValidTransitions
<1>2. CASE CaptureInitFails
  BY <1>2, <1>0 DEF CaptureInitFails
<1>3. CASE CaptureInitGivesUp
  BY <1>3, <1>0, ValidTransition DEF CaptureInitGivesUp, ValidTransitions
<1>3a. CASE ReturnFromInit
  BY <1>3a, <1>0 DEF ReturnFromInit
<1>4. CASE FirstFrame
  <2>1. size' = target
    BY <1>4, TakenFrame DEF FirstFrame, Usable, StreamedFrames
  <2>2. QED
    BY <1>4, <1>0, <2>1 DEF FirstFrame
<1>5. CASE FirstFrameTimeout
  BY <1>5, <1>0, ValidTransition
     DEF FirstFrameTimeout, AskPumpToStop, ValidTransitions
<1>6. CASE FirstFrameCleanup
  BY <1>6, <1>0 DEF FirstFrameCleanup, PumpJoined, Released
<1>7. CASE DispatchStop
  <2>1. CASE state = "FATAL"
    <3>1. state' = "FATAL"
      BY <1>7, <2>1 DEF DispatchStop, TransitionTo, ValidTransitions
    <3>2. QED
      BY <1>7, <3>1 DEF DispatchStop, BeginTeardown
  <2>2. CASE state # "FATAL"
    BY <1>7, <1>0, <2>2 DEF DispatchStop, BeginTeardown
  <2>3. QED
    BY <2>1, <2>2
<1>8. CASE DispatchTerminal
  BY <1>8, <1>0 DEF DispatchTerminal, BeginTeardown, AskPumpToStop
<1>9. CASE Teardown
  BY <1>9, <1>0 DEF Teardown, ClientsDropped, PumpJoined, Released
<1>10. CASE OpenEncoder
  BY <1>10, <1>0, ValidTransition
     DEF OpenEncoder, OpenedEncoder, ClientsDropped, ValidTransitions
<1>11. CASE OpenEncoderFails
  BY <1>11, <1>0 DEF OpenEncoderFails
<1>12. CASE ConnectUrl
  BY <1>12, <1>0, ValidTransition
     DEF ConnectUrl, ClientConnected, AllConnected, ValidTransitions
<1>13. CASE ConnectUrlFails
  BY <1>13, <1>0, ValidTransition
     DEF ConnectUrlFails, ClientsDropped, ValidTransitions
<1>14. CASE ConnectWaitOver
  BY <1>14, <1>0 DEF ConnectWaitOver
<1>15. CASE EnterStreaming
  BY <1>15, <1>0 DEF EnterStreaming
<1>16. CASE StreamStops
  BY <1>16, <1>0 DEF StreamStops
<1>17. CASE StreamHardError
  BY <1>17, <1>0, ValidTransition DEF StreamHardError, ValidTransitions
<1>18. CASE DrainAudio
  BY <1>18, <1>0 DEF DrainAudio
<1>19. CASE NothingToSend
  BY <1>19, <1>0 DEF NothingToSend, Pop
<1>20. CASE FrameDue
  BY <1>20, <1>0, ValidTransition DEF FrameDue, Pop, ValidTransitions
<1>21. CASE Encode
  BY <1>21, <1>0 DEF Encode
<1>22. CASE EncodeFails
  BY <1>22, <1>0, ValidTransition DEF EncodeFails, ValidTransitions
<1>23. CASE Send
  BY <1>23, <1>0 DEF Send
<1>24. CASE SendFails
  BY <1>24, <1>0, ValidTransition DEF SendFails, ValidTransitions
<1>25. CASE EnterReconnect
  BY <1>25, <1>0 DEF EnterReconnect, ClientsDropped
<1>26. CASE BackoffSleep
  BY <1>26, <1>0 DEF BackoffSleep
<1>27. CASE ReconnectStops
  BY <1>27, <1>0, ValidTransition DEF ReconnectStops, ValidTransitions
<1>28. CASE BackoffOver
  BY <1>28, <1>0 DEF BackoffOver
<1>29. CASE ReconnectUrl
  BY <1>29, <1>0, ValidTransition
     DEF ReconnectUrl, ClientConnected, AllConnected, IdrRequested,
         ValidTransitions
<1>30. CASE ReconnectUrlFails
  BY <1>30, <1>0 DEF ReconnectUrlFails, ClientsDropped
<1>31. CASE EnterReconfigure
  BY <1>31, <1>0 DEF EnterReconfigure, AskPumpToStop
<1>32. CASE DropStream
  BY <1>32, <1>0 DEF DropStream, ClientsDropped, PumpJoined
<1>33. CASE SwapResizeFlag
  <2>1. CASE resizeFlag
    BY <1>33, <1>0, <2>1 DEF SwapResizeFlag, DataFits
  <2>2. CASE ~resizeFlag
    BY <1>33, <1>0, <2>2 DEF SwapResizeFlag, ReleaseForReinit, DataFits
  <2>3. QED
    BY <2>1, <2>2
<1>34. CASE ReadPendingSize
  BY <1>34, <1>0 DEF ReadPendingSize, ReleaseForReinit, DataFits
<1>35. CASE Reinit
  BY <1>35, <1>0 DEF Reinit, StartPump, Opened
<1>36. CASE ReinitFails
  BY <1>36, <1>0 DEF ReinitFails
<1>37. CASE ReinitGivesUp
  BY <1>37, <1>0, ValidTransition DEF ReinitGivesUp, ValidTransitions
<1>38. CASE SeedFreezeFrame
  BY <1>38, <1>0, ValidTransition DEF SeedFreezeFrame, Pop, ValidTransitions
<1>39. CASE Acquire
  BY <1>39, <1>0 DEF Acquire
<1>40. CASE AcquireTimesOut
  BY <1>40, <1>0 DEF AcquireTimesOut, StillCapturing
<1>41. CASE AcquireFails
  BY <1>41, <1>0 DEF AcquireFails, StillCapturing
<1>42. CASE QueueFrame
  BY <1>42, <1>0 DEF QueueFrame, StillCapturing
<1>43. CASE RequestStop
  BY <1>43, <1>0 DEF RequestStop
<1>44. CASE NotifyResized
  BY <1>44, <1>0 DEF NotifyResized
<1>45. CASE RaiseResizeFlag
  BY <1>45, <1>0 DEF RaiseResizeFlag
<1>46. CASE UNCHANGED vars
  BY <1>46, <1>0 DEF vars
<1>47. QED
  BY <1>1, <1>2, <1>3, <1>3a, <1>4, <1>5, <1>6, <1>7, <1>8, <1>9, <1>10, <1>11,
     <1>12, <1>13, <1>14, <1>15, <1>16, <1>17, <1>18, <1>19, <1>20,
     <1>21, <1>22, <1>23, <1>24, <1>25, <1>26, <1>27, <1>28, <1>29,
     <1>30, <1>31, <1>32, <1>33, <1>34, <1>35, <1>36, <1>37, <1>38,
     <1>39, <1>40, <1>41, <1>42, <1>43, <1>44, <1>45, <1>46
     DEF Next, PipelineThread, InitStep, DispatchStep, ConnectStep,
         StreamStep, ReconnectStep, ReconfigureStep, CaptureThread, Supervisor
-----------------------------------------------------------------------------
(* The second invariant is inductive, given the first.                      *)
LEMMA SafetyEstablished == Init => SafetyInv
<1> SUFFICES ASSUME Init PROVE SafetyInv
  OBVIOUS
<1> USE DEF Init, StateInit
<1>1. Resources /\ Ends
  BY DEF Resources, Ends
<1>2. KeyFrameComes
  BY DEF KeyFrameComes, FirstPacketIsKey
<1>3. CapturedFrames
  BY DEF CapturedFrames, AllUsable
<1>4. StreamedFrames
  BY DEF StreamedFrames
<1>5. ResizeKept
  BY DEF ResizeKept, NoLostResize
<1>6. QED
  BY <1>1, <1>2, <1>3, <1>4, <1>5 DEF SafetyInv

LEMMA SafetyPreserved ==
  IInv /\ SafetyInv /\ [Next]_vars => SafetyInv'
<1> SUFFICES ASSUME IInv, SafetyInv, [Next]_vars PROVE SafetyInv'
  OBVIOUS
<1>1. TypeOK /\ StateFits /\ DataFits /\ Devices
  BY DEF IInv
<1>2. Resources' /\ Ends' /\ KeyFrameComes'
  BY <1>1, ResourcesPreserved, EndsPreserved, KeyFramePreserved DEF SafetyInv
<1>3. CapturedFrames' /\ StreamedFrames' /\ ResizeKept'
  BY <1>1, CapturedPreserved, StreamedPreserved, ResizePreserved DEF SafetyInv
<1>4. QED
  BY <1>2, <1>3 DEF SafetyInv

-----------------------------------------------------------------------------
(* Both invariants hold in every reachable state.                          *)
THEOREM SafetyInvariance == Spec => [](IInv /\ SafetyInv)
<1>1. Init => IInv /\ SafetyInv
  BY InitEstablishes, SafetyEstablished
<1>2. IInv /\ SafetyInv /\ [Next]_vars => (IInv /\ SafetyInv)'
  BY NextPreserves, SafetyPreserved
<1>3. QED
  BY <1>1, <1>2, PTL DEF Spec

(* STREAMING, in the log and the metrics, is true: the pump runs, the      *)
(* encoder is open and every URL has its client, after any sequence of     *)
(* failed connects, lost connections, resizes and hard errors.             *)
THEOREM StateIsTrue == Spec => []StateMeansResources
<1>1. IInv /\ SafetyInv => StateMeansResources
  BY DEF IInv, DataFits, SafetyInv, Resources, StateMeansResources
<1>2. QED
  BY <1>1, SafetyInvariance, PTL

(* However the thread of start() ends, it has stopped its pump, released   *)
(* its device and disconnected its clients, and a supervisor that did not  *)
(* call stop() finds FATAL and starts another pipeline.                    *)
THEOREM EndsClean == Spec => []CleanExit
<1>1. IInv /\ SafetyInv => CleanExit
  BY DEF IInv, StateFits, Devices, NoEncoder, NoCapture, SafetyInv, Ends,
         CleanExit
<1>2. QED
  BY <1>1, SafetyInvariance, PTL

(* The first packet that do_streaming_loop() sends to new clients is a key *)
(* frame, from a new encoder or by request_next_idr().                     *)
THEOREM KeyFrameFirst == Spec => []FirstPacketIsKey
<1>1. SafetyInv => FirstPacketIsKey
  BY DEF SafetyInv, KeyFrameComes
<1>2. QED
  BY <1>1, SafetyInvariance, PTL

(* encode() is given a frame of the encoder's size that is not a texture   *)
(* of a released device.                                                   *)
THEOREM FramesFit == Spec => []EncodedFrameFits
<1>1. IInv /\ SafetyInv => EncodedFrameFits
  BY DEF IInv, StateFits, Streaming, DataFits, SafetyInv, StreamedFrames,
         Usable, EncodedFrameFits
<1>2. QED
  BY <1>1, SafetyInvariance, PTL

(* The size that notify_resized() was last given is the one in use, or     *)
(* the flag is up or about to be raised.                                   *)
THEOREM ResizeNotLost == Spec => []NoLostResize
<1>1. SafetyInv => NoLostResize
  BY DEF SafetyInv, ResizeKept
<1>2. QED
  BY <1>1, SafetyInvariance, PTL
-----------------------------------------------------------------------------
(* Each step is a step of the contract or leaves what it sees alone.       *)
LEMMA ContractStep ==
  ASSUME IInv, SafetyInv,
         [Next]_vars
  PROVE  [Contract!ContractNext]_(Contract!contractVars)
<1>0. /\ state \in PipelineState /\ StateFits /\ Ends
      /\ clients \in 0 .. NumUrls /\ NumUrls \in Nat /\ stop \in BOOLEAN
  BY ConstantsAssumption DEF IInv, SafetyInv, TypeOK
<1> USE DEF machineVars, clientVars, resizeVars, StateFits, Streaming,
            Reconnecting, Restarting, Ends, Phase, Contract!ContractNext,
            Contract!SupervisorStep, Contract!PipelineStep
<1>1. CASE CaptureInit
  BY <1>1, <1>0, ValidTransition
     DEF CaptureInit, ValidTransitions, Contract!Move
<1>2. CASE CaptureInitFails
  BY <1>2, <1>0 DEF CaptureInitFails, Contract!contractVars
<1>3. CASE CaptureInitGivesUp
  BY <1>3, <1>0, ValidTransition
     DEF CaptureInitGivesUp, ValidTransitions, Contract!Move
<1>3a. CASE ReturnFromInit
  BY <1>3a, <1>0 DEF ReturnFromInit, Contract!Finish
<1>4. CASE FirstFrame
  BY <1>4, <1>0 DEF FirstFrame, Contract!contractVars
<1>5. CASE FirstFrameTimeout
  BY <1>5, <1>0, ValidTransition
     DEF FirstFrameTimeout, ValidTransitions, Contract!Move
<1>6. CASE FirstFrameCleanup
  BY <1>6, <1>0 DEF FirstFrameCleanup, Contract!Finish
<1>7. CASE DispatchStop
  BY <1>7, <1>0
     DEF DispatchStop, BeginTeardown, TransitionTo, ValidTransitions,
         PipelineState, Contract!Move, Contract!contractVars
<1>8. CASE DispatchTerminal
  BY <1>8, <1>0 DEF DispatchTerminal, BeginTeardown, Contract!contractVars
<1>9. CASE Teardown
  BY <1>9, <1>0 DEF Teardown, ClientsDropped, Contract!Finish
<1>10. CASE OpenEncoder
  BY <1>10, <1>0, ValidTransition
     DEF OpenEncoder, ValidTransitions, ClientsDropped, Contract!Publish
<1>11. CASE OpenEncoderFails
  BY <1>11, <1>0 DEF OpenEncoderFails, Contract!Move
<1>12. CASE ConnectUrl
  BY <1>12, <1>0, ValidTransition
     DEF ConnectUrl, ValidTransitions, Contract!Publish
<1>13. CASE ConnectUrlFails
  BY <1>13, <1>0, ValidTransition
     DEF ConnectUrlFails, ValidTransitions, ClientsDropped, Contract!Publish
<1>14. CASE ConnectWaitOver
  BY <1>14, <1>0 DEF ConnectWaitOver, Contract!contractVars
<1>15. CASE EnterStreaming
  BY <1>15, <1>0 DEF EnterStreaming, Contract!contractVars
<1>16. CASE StreamStops
  BY <1>16, <1>0 DEF StreamStops, Contract!contractVars
<1>17. CASE StreamHardError
  BY <1>17, <1>0, ValidTransition
     DEF StreamHardError, ValidTransitions, Contract!contractVars
<1>18. CASE DrainAudio
  BY <1>18, <1>0 DEF DrainAudio, Contract!contractVars
<1>19. CASE NothingToSend
  BY <1>19, <1>0 DEF NothingToSend, Contract!contractVars
<1>20. CASE FrameDue
  BY <1>20, <1>0, ValidTransition
     DEF FrameDue, ValidTransitions, Contract!contractVars
<1>21. CASE Encode
  BY <1>21, <1>0 DEF Encode, Contract!contractVars
<1>22. CASE EncodeFails
  BY <1>22, <1>0, ValidTransition
     DEF EncodeFails, ValidTransitions, Contract!Move
<1>23. CASE Send
  BY <1>23, <1>0 DEF Send, Contract!contractVars
<1>24. CASE SendFails
  BY <1>24, <1>0, ValidTransition
     DEF SendFails, ValidTransitions, Contract!contractVars
<1>25. CASE EnterReconnect
  BY <1>25, <1>0 DEF EnterReconnect, ClientsDropped, Contract!Publish
<1>26. CASE BackoffSleep
  BY <1>26, <1>0 DEF BackoffSleep, Contract!contractVars
<1>27. CASE ReconnectStops
  BY <1>27, <1>0, ValidTransition
     DEF ReconnectStops, ValidTransitions, Contract!Move
<1>28. CASE BackoffOver
  BY <1>28, <1>0 DEF BackoffOver, Contract!contractVars
<1>29. CASE ReconnectUrl
  BY <1>29, <1>0, ValidTransition
     DEF ReconnectUrl, ValidTransitions, Contract!Publish
<1>30. CASE ReconnectUrlFails
  BY <1>30, <1>0 DEF ReconnectUrlFails, ClientsDropped, Contract!Publish
<1>31. CASE EnterReconfigure
  BY <1>31, <1>0 DEF EnterReconfigure, Contract!contractVars
<1>32. CASE DropStream
  BY <1>32, <1>0 DEF DropStream, ClientsDropped, Contract!Publish
<1>33. CASE SwapResizeFlag
  BY <1>33, <1>0 DEF SwapResizeFlag, ReleaseForReinit, Contract!contractVars
<1>34. CASE ReadPendingSize
  BY <1>34, <1>0 DEF ReadPendingSize, ReleaseForReinit, Contract!contractVars
<1>35. CASE Reinit
  BY <1>35, <1>0 DEF Reinit, Contract!contractVars
<1>36. CASE ReinitFails
  BY <1>36, <1>0 DEF ReinitFails, Contract!contractVars
<1>37. CASE ReinitGivesUp
  BY <1>37, <1>0, ValidTransition
     DEF ReinitGivesUp, ValidTransitions, Contract!Move
<1>38. CASE SeedFreezeFrame
  BY <1>38, <1>0, ValidTransition
     DEF SeedFreezeFrame, ValidTransitions, Contract!contractVars
<1>39. CASE Acquire
  BY <1>39, <1>0 DEF Acquire, Contract!contractVars
<1>40. CASE AcquireTimesOut
  BY <1>40, <1>0 DEF AcquireTimesOut, Contract!contractVars
<1>41. CASE AcquireFails
  BY <1>41, <1>0 DEF AcquireFails, Contract!contractVars
<1>42. CASE QueueFrame
  BY <1>42, <1>0 DEF QueueFrame, Contract!contractVars
<1>43. CASE RequestStop
  BY <1>43, <1>0 DEF RequestStop, Contract!AskStop
<1>44. CASE NotifyResized
  BY <1>44, <1>0 DEF NotifyResized, Contract!Tell
<1>45. CASE RaiseResizeFlag
  BY <1>45, <1>0 DEF RaiseResizeFlag, Contract!contractVars
<1>46. CASE UNCHANGED vars
  BY <1>46 DEF vars, Contract!contractVars
<1>47. QED
  BY <1>1, <1>2, <1>3, <1>3a, <1>4, <1>5, <1>6, <1>7, <1>8, <1>9, <1>10, <1>11,
     <1>12, <1>13, <1>14, <1>15, <1>16, <1>17, <1>18, <1>19, <1>20,
     <1>21, <1>22, <1>23, <1>24, <1>25, <1>26, <1>27, <1>28, <1>29,
     <1>30, <1>31, <1>32, <1>33, <1>34, <1>35, <1>36, <1>37, <1>38,
     <1>39, <1>40, <1>41, <1>42, <1>43, <1>44, <1>45, <1>46
     DEF Next, PipelineThread, InitStep, DispatchStep, ConnectStep,
         StreamStep, ReconnectStep, ReconfigureStep, CaptureThread, Supervisor
-----------------------------------------------------------------------------
(* Up to its promise to end, which only the runs can check, the pipeline   *)
(* keeps the contract of PipelineContract: it publishes only while it is   *)
(* active, stops only when it was asked to, and its thread ends only as    *)
(* STOPPING or FATAL, with every client gone.                              *)
THEOREM ContractKept == Spec => Contract!ContractSafety
<1>1. Init => Contract!ContractInit
  BY DEF Init, StateInit, Phase, Contract!ContractInit
<1>2. IInv /\ SafetyInv /\ [Next]_vars =>
        [Contract!ContractNext]_(Contract!contractVars)
  BY ContractStep
<1>3. QED
  BY <1>1, <1>2, SafetyInvariance, PTL DEF Spec, Contract!ContractSafety

-----------------------------------------------------------------------------
(* The pump of the pipeline is one of PumpContract.                        *)

(* A delivery to a queue with room, and to a full one.                     *)
LEMMA DeliveredLength ==
  ASSUME NEW q \in Seq(Frame), NEW f \in Frame, Len(q) <= MaxQueueSize
  PROVE  Len(Append(DropOldestIfFull(q), f)) =
           IF Len(q) < MaxQueueSize THEN Len(q) + 1 ELSE MaxQueueSize
<1>1. CASE Len(q) < MaxQueueSize
  BY <1>1, ConstantsAssumption DEF DropOldestIfFull
<1>2. CASE Len(q) = MaxQueueSize
  <2>1. q # <<>>
    BY <1>2, ConstantsAssumption
  <2>2. Tail(q) \in Seq(Frame) /\ Len(Tail(q)) = Len(q) - 1
    BY <2>1
  <2>3. DropOldestIfFull(q) = Tail(q)
    BY <1>2, ConstantsAssumption DEF DropOldestIfFull
  <2>4. QED
    BY <1>2, <2>2, <2>3, ConstantsAssumption
<1>3. QED
  BY <1>1, <1>2, ConstantsAssumption

(* What a release does to the frames of a queue leaves their number alone. *)
LEMMA OrphanedLength ==
  ASSUME NEW q \in Seq(Frame)
  PROVE  Len([i \in DOMAIN q |-> Orphaned(q[i])]) = Len(q)
OBVIOUS

(* A pop takes one frame, or finds none and changes nothing.               *)
LEMMA PumpPopped ==
  ASSUME queue \in Seq(Frame), Pop, backend' = backend
  PROVE  [Pump!PumpNext]_(Pump!pumpVars)
<1>1. CASE queue = <<>>
  BY <1>1 DEF Pop, Pump!pumpVars
<1>2. CASE queue # <<>>
  <2>1. Len(queue) > 0 /\ Len(Tail(queue)) = Len(queue) - 1
    BY <1>2
  <2>2. QED
    BY <1>2, <2>1 DEF Pop, Pump!PumpNext, Pump!Take
<1>3. QED
  BY <1>1, <1>2

(* A call of stop(), also on a pump that has stopped already.              *)
LEMMA PumpAsked ==
  ASSUME AskPumpToStop, backend' = backend
  PROVE  Pump!PumpNext
BY DEF AskPumpToStop, Pump!PumpNext, Pump!AskToEnd

(* A start, where no thread runs.                                          *)
LEMMA PumpStarted ==
  ASSUME pump # "running", ~capturing, StartPump, ~backend'.hardError
  PROVE  Pump!PumpNext
<1>1. Len(queue') = 0
  BY DEF StartPump
<1>2. QED
  BY <1>1 DEF StartPump, Pump!PumpNext, Pump!Start

(* A release and a join leave what the contract sees.                      *)
LEMMA PumpReleased ==
  ASSUME queue \in Seq(Frame), backend \in Backend,
         pump # "running", pump' # "running",
         backend' \in {backend, Released},
         queue' \in {queue, [i \in DOMAIN queue |-> Orphaned(queue[i])]},
         UNCHANGED <<capturing, held>>
  PROVE  UNCHANGED Pump!pumpVars
<1>1. backend'.hardError = backend.hardError
  BY DEF Released, Backend
<1>2. Len(queue') = Len(queue)
  BY OrphanedLength
<1>3. QED
  BY <1>1, <1>2 DEF Pump!pumpVars

LEMMA PumpThreadStep ==
  ASSUME IInv, CapturedFrames, CaptureThread
  PROVE  [Pump!PumpNext]_(Pump!pumpVars)
<1>0. /\ queue \in Seq(Frame) /\ Len(queue) <= MaxQueueSize
      /\ backend \in Backend /\ held \in Frame \cup {None}
      /\ capturing \in BOOLEAN
  BY DEF IInv, TypeOK
<1> USE <1>0 DEF StillCapturing, Pump!PumpNext, Pump!pumpVars
<1>1. CASE Acquire
  <2>1. AcquiredFrame \in Frame
    BY DEF AcquiredFrame, Frame, Backend
  <2>2. held' # None
    BY <1>1, <2>1, ConstantsAssumption DEF Acquire
  <2>3. QED
    BY <1>1, <2>2 DEF Acquire, Pump!Capture
<1>2. CASE AcquireTimesOut
  BY <1>2 DEF AcquireTimesOut, Pump!End
<1>3. CASE AcquireFails
  <2>1. backend'.hardError
    BY <1>3 DEF AcquireFails, Backend
  <2>2. QED
    BY <1>3, <2>1 DEF AcquireFails, Pump!Fail, Pump!MayEnd
<1>4. CASE QueueFrame
  <2>1. Len(queue') =
          IF Len(queue) < MaxQueueSize THEN Len(queue) + 1 ELSE MaxQueueSize
    BY <1>4, DeliveredLength DEF QueueFrame
  <2>2. QED
    BY <1>4, <2>1 DEF QueueFrame, Pump!Deliver, Pump!MayEnd
<1>5. QED
  BY <1>1, <1>2, <1>3, <1>4 DEF CaptureThread

(* What the pipeline thread does to its pump.                              *)
LEMMA PumpOwnerStep ==
  ASSUME IInv, SafetyInv, PipelineThread
  PROVE  [Pump!PumpNext]_(Pump!pumpVars)
<1>0. /\ queue \in Seq(Frame) /\ backend \in Backend
      /\ pc = "init" => pump = "none"
      /\ pump = "running" => capturing
      /\ NoCapture
  BY DEF IInv, TypeOK, SafetyInv, Ends, CapturedFrames, Devices
<1> USE <1>0
<1>1. CASE CaptureInit \/ Reinit
  <2>1. pump # "running" /\ ~capturing
    BY <1>1 DEF CaptureInit, Reinit, NoCapture
  <2>2. StartPump /\ ~backend'.hardError
    BY <1>1 DEF CaptureInit, Reinit, Opened
  <2>3. QED
    BY <2>1, <2>2, PumpStarted
<1>2. CASE FirstFrame \/ NothingToSend \/ FrameDue \/ SeedFreezeFrame
  BY <1>2, PumpPopped DEF FirstFrame, NothingToSend, FrameDue, SeedFreezeFrame
<1>3. CASE FirstFrameTimeout \/ DispatchStop \/ DispatchTerminal
             \/ EnterReconfigure
  BY <1>3, PumpAsked
     DEF FirstFrameTimeout, DispatchStop, DispatchTerminal, EnterReconfigure,
         BeginTeardown
<1>4. CASE FirstFrameCleanup \/ DropStream
  BY <1>4, PumpReleased DEF FirstFrameCleanup, DropStream, PumpJoined
<1>5. CASE SwapResizeFlag \/ ReadPendingSize
  <2>1. pump # "running"
    BY <1>5 DEF SwapResizeFlag, ReadPendingSize, NoCapture
  <2>2. CASE UNCHANGED <<backend, pumpVars>>
    BY <2>2 DEF pumpVars, Pump!pumpVars
  <2>3. CASE \E s : ReleaseForReinit(s)
    BY <2>1, <2>3, PumpReleased DEF ReleaseForReinit
  <2>4. QED
    BY <1>5, <2>2, <2>3 DEF SwapResizeFlag, ReadPendingSize
<1>6. CASE Teardown
  <2>1. Len(queue') = 0
    BY <1>6 DEF Teardown
  <2>2. backend'.hardError = backend.hardError
    BY <1>6 DEF Teardown, Released, Backend
  <2>3. QED
    BY <1>6, <2>1, <2>2 DEF Teardown, PumpJoined, Pump!PumpNext, Pump!Discard
<1>7. CASE OpenEncoder
  <2>1. backend'.hardError = backend.hardError
    BY <1>7 DEF OpenEncoder, Backend
  <2>2. QED
    BY <1>7, <2>1 DEF OpenEncoder, pumpVars, Pump!pumpVars
<1>7a. CASE ReinitFails
  <2>1. pump # "running" /\ ~capturing
    BY <1>7a DEF ReinitFails, NoCapture
  <2>2. backend'.hardError = FALSE
    BY <1>7a DEF ReinitFails, Released, Backend
  <2>3. QED
    BY <1>7a, <2>1, <2>2 DEF ReinitFails, pumpVars, Pump!PumpNext, Pump!Forget
<1>8. CASE UNCHANGED <<backend, pumpVars>>
  BY <1>8 DEF pumpVars, Pump!pumpVars
<1>9. CASE ConnectStep \/ ReconnectStep
  BY <1>7, <1>8, <1>9
     DEF ConnectStep, ReconnectStep, OpenEncoderFails, ConnectUrl,
         ConnectUrlFails, ConnectWaitOver, EnterReconnect, BackoffSleep,
         ReconnectStops, BackoffOver, ReconnectUrl, ReconnectUrlFails
<1>10. CASE InitStep \/ DispatchStep \/ ReconfigureStep
  BY <1>1, <1>2, <1>3, <1>4, <1>5, <1>6, <1>7a, <1>8, <1>10
     DEF InitStep, DispatchStep, ReconfigureStep, CaptureInitFails,
         CaptureInitGivesUp, ReturnFromInit, ReinitGivesUp
<1>11. CASE StreamStep
  BY <1>2, <1>8, <1>11
     DEF StreamStep, EnterStreaming, StreamStops, StreamHardError, DrainAudio,
         Encode, EncodeFails, Send, SendFails
<1>12. QED
  BY <1>9, <1>10, <1>11 DEF PipelineThread

(* Up to the end of a stopped thread, which only the runs can check, the   *)
(* pipeline thread and the capture thread work together as PumpContract    *)
(* says, which the pump at its finest grain implements as well.            *)
THEOREM PumpKept == Spec => Pump!PumpSafety
<1>1. Init => Pump!PumpInit
  BY DEF Init, Pump!PumpInit
<1>2. IInv /\ SafetyInv /\ [Next]_vars => [Pump!PumpNext]_(Pump!pumpVars)
  <2> SUFFICES ASSUME IInv, SafetyInv, [Next]_vars
               PROVE  [Pump!PumpNext]_(Pump!pumpVars)
    OBVIOUS
  <2>1. CASE PipelineThread
    BY <2>1, PumpOwnerStep
  <2>2. CASE CaptureThread
    BY <2>2, PumpThreadStep DEF SafetyInv
  <2>3. CASE Supervisor \/ UNCHANGED vars
    BY <2>3 DEF Supervisor, RequestStop, NotifyResized, RaiseResizeFlag, vars,
                pumpVars, Pump!pumpVars
  <2>4. QED
    BY <2>1, <2>2, <2>3 DEF Next
<1>3. QED
  BY <1>1, <1>2, SafetyInvariance, PTL DEF Spec, Pump!PumpSafety

=============================================================================
