------------------------ MODULE ScreenPipelineProofs ------------------------
(***************************************************************************)
(* Proofs about ScreenPipeline, for every set of sizes, every queue, every *)
(* number of attempts and every number of URLs.                            *)
(*                                                                         *)
(* The argument: where the pipeline thread is determines the state of the  *)
(* state machine and which resources exist.  The capture thread can only   *)
(* run between a start and a join of the pump, and each release of the     *)
(* device is at a place that only a join reaches and where there is no     *)
(* encoder.                                                                *)
(***************************************************************************)
EXTENDS ScreenPipeline, TLAPS

Streaming    == {"streamHead", "framePop", "encode", "send"}
Reconnecting == {"reconnectHead", "backoff", "reconnect"}
Restarting   == {"reconfStop", "resizeSwap", "resizeRead", "reinit", "seed"}

(* The state of the state machine at each place of the thread.             *)
StateFits ==
  /\ pc = "init" => state = "INIT"
  /\ pc = "firstFrame" => state = "CAPTURING"
  /\ pc \in {"initFailed", "initStop"} => state = "FATAL"
  /\ pc = "dispatch" => state \notin {"INIT", "CONNECTING"}
  /\ pc = "connect" => state = "CONNECTING"
  /\ pc = "connectWait" => state \in {"CAPTURING", "FATAL"}
  /\ pc \in Streaming => state = "STREAMING"
  /\ pc \in Reconnecting => state = "RECONNECTING"
  /\ pc \in Restarting => state = "RECONFIGURING"
  /\ pc \in {"teardown", "exited"} => state \in {"STOPPING", "FATAL"}

(* What is not None, and how many clients there are, at each place.        *)
DataFits ==
  /\ pc \notin {"init", "initFailed", "firstFrame", "initStop", "exited"} =>
       size # None
  /\ resizeFlag \/ notifying \/ pc = "resizeRead" => pendingSize # None
  /\ pc = "connect" \/ state \in {"STREAMING", "RECONNECTING"} => encoder # None
  /\ pc \in {"connect", "reconnect"} => clients < NumUrls
  /\ pc \in {"reconnectHead", "backoff"} => clients = 0

(* Places without an encoder, and places that a join must have preceded.   *)
NoEncoder ==
  pc \in {"init", "initFailed", "firstFrame", "initStop", "resizeSwap",
          "resizeRead", "reinit", "seed", "exited"} => encoder = None

NoCapture ==
  pc \in {"init", "initFailed", "resizeSwap", "resizeRead", "reinit", "exited"}
    => ~capturing

OnlyAcceptedTransitions ==
  rejected \subseteq {<<"STOPPING", "STOPPING">>, <<"FATAL", "STOPPING">>}

(* The device is released only where the pump was joined and there is no   *)
(* encoder, and a capture thread or an encoder begins only on a device.    *)
Devices == NoEncoder /\ NoCapture /\ DeviceUsersHaveDevice

IInv ==
  /\ TypeOK
  /\ StateFits /\ OnlyAcceptedTransitions
  /\ DataFits
  /\ Devices

-----------------------------------------------------------------------------
(* transition_to() does what it is asked, if the table holds the pair.     *)
LEMMA ValidTransition ==
  ASSUME NEW to, <<state, to>> \in ValidTransitions, TransitionTo(to)
  PROVE  state' = to /\ rejected' = rejected
  BY DEF TransitionTo

(* The last transition of a pipeline that was asked to stop.               *)
LEMMA DispatchTransition ==
  ASSUME state \in PipelineState \ {"INIT", "CONNECTING"},
         TransitionTo("STOPPING")
  PROVE  /\ state' \in {"STOPPING", "FATAL"}
         /\ rejected' \subseteq rejected \cup
              {<<"STOPPING", "STOPPING">>, <<"FATAL", "STOPPING">>}
<1>1. CASE state \in {"STOPPING", "FATAL"}
  BY <1>1 DEF TransitionTo, ValidTransitions
<1>2. CASE state \notin {"STOPPING", "FATAL"}
  <2>1. <<state, "STOPPING">> \in ValidTransitions
    BY <1>2 DEF ValidTransitions, PipelineState
  <2>2. QED
    BY <2>1, ValidTransition
<1>3. QED
  BY <1>1, <1>2

(* The place of the thread determines the state, and no transition but the *)
(* one to STOPPING of a pipeline that has ended is refused.                *)
LEMMA StatePreserved ==
  ASSUME state \in PipelineState, StateFits, OnlyAcceptedTransitions,
         [Next]_vars
  PROVE  StateFits' /\ OnlyAcceptedTransitions'
<1> USE DEF machineVars, StateFits, OnlyAcceptedTransitions, Streaming,
            Reconnecting, Restarting
<1>1. CASE CaptureInit
  BY <1>1, ValidTransition DEF CaptureInit, StartPump, ValidTransitions
<1>2. CASE CaptureInitFails
  BY <1>2 DEF CaptureInitFails
<1>3. CASE CaptureInitGivesUp
  BY <1>3, ValidTransition DEF CaptureInitGivesUp, ValidTransitions
<1>3a. CASE ReturnFromInit
  BY <1>3a DEF ReturnFromInit
<1>4. CASE FirstFrame
  BY <1>4 DEF FirstFrame, Pop
<1>5. CASE FirstFrameTimeout
  BY <1>5, ValidTransition
     DEF FirstFrameTimeout, AskPumpToStop, ValidTransitions
<1>6. CASE FirstFrameCleanup
  BY <1>6 DEF FirstFrameCleanup, PumpJoined, Released
<1>7. CASE DispatchStop
  BY <1>7, DispatchTransition
     DEF DispatchStop, BeginTeardown, AskPumpToStop, ValidTransitions
<1>8. CASE DispatchTerminal
  BY <1>8 DEF DispatchTerminal, BeginTeardown, AskPumpToStop
<1>9. CASE Teardown
  BY <1>9 DEF Teardown, ClientsDropped, PumpJoined, Released
<1>10. CASE OpenEncoder
  BY <1>10, ValidTransition
     DEF OpenEncoder, OpenedEncoder, ClientsDropped, ValidTransitions
<1>11. CASE OpenEncoderFails
  BY <1>11 DEF OpenEncoderFails
<1>12. CASE ConnectUrl
  BY <1>12, ValidTransition DEF ConnectUrl, ValidTransitions
<1>13. CASE ConnectUrlFails
  BY <1>13, ValidTransition
     DEF ConnectUrlFails, ClientsDropped, ValidTransitions
<1>14. CASE ConnectWaitOver
  BY <1>14 DEF ConnectWaitOver
<1>15. CASE EnterStreaming
  BY <1>15 DEF EnterStreaming
<1>16. CASE StreamStops
  BY <1>16 DEF StreamStops
<1>17. CASE StreamHardError
  BY <1>17, ValidTransition DEF StreamHardError, ValidTransitions
<1>18. CASE DrainAudio
  BY <1>18 DEF DrainAudio
<1>19. CASE NothingToSend
  BY <1>19 DEF NothingToSend, Pop
<1>20. CASE FrameDue
  BY <1>20, ValidTransition DEF FrameDue, Pop, ValidTransitions
<1>21. CASE Encode
  BY <1>21 DEF Encode
<1>22. CASE EncodeFails
  BY <1>22, ValidTransition DEF EncodeFails, ValidTransitions
<1>23. CASE Send
  BY <1>23 DEF Send
<1>24. CASE SendFails
  BY <1>24, ValidTransition DEF SendFails, ValidTransitions
<1>25. CASE EnterReconnect
  BY <1>25 DEF EnterReconnect, ClientsDropped
<1>26. CASE BackoffSleep
  BY <1>26 DEF BackoffSleep
<1>27. CASE ReconnectStops
  BY <1>27, ValidTransition DEF ReconnectStops, ValidTransitions
<1>28. CASE BackoffOver
  BY <1>28 DEF BackoffOver
<1>29. CASE ReconnectUrl
  BY <1>29, ValidTransition DEF ReconnectUrl, ValidTransitions
<1>30. CASE ReconnectUrlFails
  BY <1>30 DEF ReconnectUrlFails, ClientsDropped
<1>31. CASE EnterReconfigure
  BY <1>31 DEF EnterReconfigure, AskPumpToStop
<1>32. CASE DropStream
  BY <1>32 DEF DropStream, ClientsDropped, PumpJoined
<1>33. CASE SwapResizeFlag
  BY <1>33 DEF SwapResizeFlag, ReleaseForReinit
<1>34. CASE ReadPendingSize
  BY <1>34 DEF ReadPendingSize, ReleaseForReinit
<1>35. CASE Reinit
  BY <1>35 DEF Reinit, StartPump
<1>36. CASE ReinitFails
  BY <1>36 DEF ReinitFails
<1>37. CASE ReinitGivesUp
  BY <1>37, ValidTransition DEF ReinitGivesUp, ValidTransitions
<1>38. CASE SeedFreezeFrame
  BY <1>38, ValidTransition DEF SeedFreezeFrame, Pop, ValidTransitions
<1>39. CASE Acquire
  BY <1>39 DEF Acquire
<1>40. CASE AcquireTimesOut
  BY <1>40 DEF AcquireTimesOut, StillCapturing
<1>41. CASE AcquireFails
  BY <1>41 DEF AcquireFails, StillCapturing
<1>42. CASE QueueFrame
  BY <1>42 DEF QueueFrame, StillCapturing
<1>43. CASE RequestStop
  BY <1>43 DEF RequestStop
<1>44. CASE NotifyResized
  BY <1>44 DEF NotifyResized
<1>45. CASE RaiseResizeFlag
  BY <1>45 DEF RaiseResizeFlag
<1>46. CASE UNCHANGED vars
  BY <1>46 DEF vars
<1>47. QED
  BY <1>1, <1>2, <1>3, <1>3a, <1>4, <1>5, <1>6, <1>7, <1>8, <1>9, <1>10, <1>11,
     <1>12, <1>13, <1>14, <1>15, <1>16, <1>17, <1>18, <1>19, <1>20,
     <1>21, <1>22, <1>23, <1>24, <1>25, <1>26, <1>27, <1>28, <1>29,
     <1>30, <1>31, <1>32, <1>33, <1>34, <1>35, <1>36, <1>37, <1>38,
     <1>39, <1>40, <1>41, <1>42, <1>43, <1>44, <1>45, <1>46
     DEF Next, PipelineThread, InitStep, DispatchStep, ConnectStep,
         StreamStep, ReconnectStep, ReconfigureStep, CaptureThread, Supervisor

-----------------------------------------------------------------------------
(* No order of the steps lets the device go under one that calls into it.  *)
LEMMA DevicesPreserved ==
  ASSUME TypeOK, StateFits, DataFits, Devices, [Next]_vars
  PROVE  Devices'
<1>0. /\ encoder \in Encoder \cup {None} /\ backend \in Backend
      /\ capturing \in BOOLEAN
  BY DEF TypeOK
<1> USE DEF initVars, pumpVars, clientVars, streamVars, Devices, NoEncoder,
            NoCapture, DeviceUsersHaveDevice
<1>1. CASE CaptureInit
  BY <1>1, <1>0 DEF CaptureInit, StartPump, Opened
<1>2. CASE CaptureInitFails
  BY <1>2, <1>0 DEF CaptureInitFails
<1>3. CASE CaptureInitGivesUp
  BY <1>3, <1>0 DEF CaptureInitGivesUp
<1>3a. CASE ReturnFromInit
  BY <1>3a, <1>0 DEF ReturnFromInit
<1>4. CASE FirstFrame
  BY <1>4, <1>0 DEF FirstFrame, Pop
<1>5. CASE FirstFrameTimeout
  BY <1>5, <1>0 DEF FirstFrameTimeout, AskPumpToStop
<1>6. CASE FirstFrameCleanup
  BY <1>6, <1>0 DEF FirstFrameCleanup, PumpJoined, Released
<1>7. CASE DispatchStop
  BY <1>7, <1>0 DEF DispatchStop, BeginTeardown, AskPumpToStop
<1>8. CASE DispatchTerminal
  BY <1>8, <1>0 DEF DispatchTerminal, BeginTeardown, AskPumpToStop
<1>9. CASE Teardown
  BY <1>9, <1>0 DEF Teardown, ClientsDropped, PumpJoined, Released
<1>10. CASE OpenEncoder
  <2>1. PICK zeroCopy \in ZeroCopyChoices :
          /\ encoder' = [size |-> size, zeroCopy |-> zeroCopy,
                         started |-> FALSE, forceIdr |-> FALSE]
          /\ backend' = [backend EXCEPT !.zeroCopy = zeroCopy]
    BY <1>10 DEF OpenEncoder, OpenedEncoder
  <2>2. backend'.dev = backend.dev /\ encoder'.zeroCopy = zeroCopy
    BY <1>0, <2>1 DEF Backend
  <2>3. zeroCopy => backend.dev = "ready"
    BY <2>1 DEF ZeroCopyChoices, SupportsZeroCopy
  <2>4. UNCHANGED capturing /\ pc = "dispatch" /\ pc' = "connect"
    BY <1>10 DEF OpenEncoder
  <2>5. QED
    BY <2>2, <2>3, <2>4
<1>11. CASE OpenEncoderFails
  BY <1>11, <1>0 DEF OpenEncoderFails
<1>12. CASE ConnectUrl
  BY <1>12, <1>0 DEF ConnectUrl
<1>13. CASE ConnectUrlFails
  BY <1>13, <1>0 DEF ConnectUrlFails, ClientsDropped
<1>14. CASE ConnectWaitOver
  BY <1>14, <1>0 DEF ConnectWaitOver
<1>15. CASE EnterStreaming
  BY <1>15, <1>0 DEF EnterStreaming
<1>16. CASE StreamStops
  BY <1>16, <1>0 DEF StreamStops
<1>17. CASE StreamHardError
  BY <1>17, <1>0 DEF StreamHardError
<1>18. CASE DrainAudio
  BY <1>18, <1>0 DEF DrainAudio
<1>19. CASE NothingToSend
  BY <1>19, <1>0 DEF NothingToSend, Pop
<1>20. CASE FrameDue
  BY <1>20, <1>0 DEF FrameDue, Pop
<1>21. CASE Encode
  <2>1. encoder # None
    BY <1>21 DEF Encode, StateFits, Streaming, DataFits
  <2>2. encoder'.zeroCopy = encoder.zeroCopy
    BY <1>0, <1>21, <2>1 DEF Encode, Encoder
  <2>3. QED
    BY <1>21, <2>1, <2>2 DEF Encode
<1>22. CASE EncodeFails
  BY <1>22, <1>0 DEF EncodeFails
<1>23. CASE Send
  BY <1>23, <1>0 DEF Send
<1>24. CASE SendFails
  BY <1>24, <1>0 DEF SendFails
<1>25. CASE EnterReconnect
  BY <1>25, <1>0 DEF EnterReconnect, ClientsDropped
<1>26. CASE BackoffSleep
  BY <1>26, <1>0 DEF BackoffSleep
<1>27. CASE ReconnectStops
  BY <1>27, <1>0 DEF ReconnectStops
<1>28. CASE BackoffOver
  BY <1>28, <1>0 DEF BackoffOver
<1>29. CASE ReconnectUrl
  <2>1. encoder # None
    BY <1>29 DEF ReconnectUrl, StateFits, Reconnecting, DataFits
  <2>2. encoder'.zeroCopy = encoder.zeroCopy
    BY <1>0, <1>29, <2>1 DEF ReconnectUrl, IdrRequested, Encoder
  <2>3. QED
    BY <1>29, <2>1, <2>2 DEF ReconnectUrl
<1>30. CASE ReconnectUrlFails
  BY <1>30, <1>0 DEF ReconnectUrlFails, ClientsDropped
<1>31. CASE EnterReconfigure
  BY <1>31, <1>0 DEF EnterReconfigure, AskPumpToStop
<1>32. CASE DropStream
  BY <1>32, <1>0 DEF DropStream, ClientsDropped, PumpJoined
<1>33. CASE SwapResizeFlag
  BY <1>33, <1>0 DEF SwapResizeFlag, ReleaseForReinit
<1>34. CASE ReadPendingSize
  BY <1>34, <1>0 DEF ReadPendingSize, ReleaseForReinit
<1>35. CASE Reinit
  BY <1>35, <1>0 DEF Reinit, StartPump, Opened
<1>36. CASE ReinitFails
  BY <1>36, <1>0 DEF ReinitFails
<1>37. CASE ReinitGivesUp
  BY <1>37, <1>0 DEF ReinitGivesUp
<1>38. CASE SeedFreezeFrame
  BY <1>38, <1>0 DEF SeedFreezeFrame, Pop
<1>39. CASE Acquire
  BY <1>39, <1>0 DEF Acquire
<1>40. CASE AcquireTimesOut
  BY <1>40, <1>0 DEF AcquireTimesOut, StillCapturing
<1>41. CASE AcquireFails
  BY <1>41, <1>0 DEF AcquireFails, StillCapturing
<1>42. CASE QueueFrame
  BY <1>42, <1>0 DEF QueueFrame, StillCapturing
<1>43. CASE RequestStop
  BY <1>43, <1>0 DEF RequestStop
<1>44. CASE NotifyResized
  BY <1>44, <1>0 DEF NotifyResized
<1>45. CASE RaiseResizeFlag
  BY <1>45, <1>0 DEF RaiseResizeFlag
<1>46. CASE UNCHANGED vars
  BY <1>46 DEF vars
<1>47. QED
  BY <1>1, <1>2, <1>3, <1>3a, <1>4, <1>5, <1>6, <1>7, <1>8, <1>9, <1>10, <1>11,
     <1>12, <1>13, <1>14, <1>15, <1>16, <1>17, <1>18, <1>19, <1>20,
     <1>21, <1>22, <1>23, <1>24, <1>25, <1>26, <1>27, <1>28, <1>29,
     <1>30, <1>31, <1>32, <1>33, <1>34, <1>35, <1>36, <1>37, <1>38,
     <1>39, <1>40, <1>41, <1>42, <1>43, <1>44, <1>45, <1>46
     DEF Next, PipelineThread, InitStep, DispatchStep, ConnectStep,
         StreamStep, ReconnectStep, ReconfigureStep, CaptureThread, Supervisor

-----------------------------------------------------------------------------
(* Frames and encoders keep their types when they are made and changed.    *)
LEMMA FirstOfQueue ==
  ASSUME NEW q \in Seq(Frame), q # <<>>
  PROVE  /\ Head(q) \in Frame /\ Head(q).size \in Sizes
         /\ Tail(q) \in Seq(Frame)
         /\ Len(q) \in Nat \ {0} /\ Len(Tail(q)) = Len(q) - 1
<1>1. /\ Head(q) \in Frame /\ Tail(q) \in Seq(Frame)
      /\ Len(q) \in Nat \ {0} /\ Len(Tail(q)) = Len(q) - 1
  OBVIOUS
<1>2. QED
  BY <1>1 DEF Frame

LEMMA EncoderOpened ==
  ASSUME NEW s \in Sizes, NEW zeroCopy \in BOOLEAN
  PROVE  [size |-> s, zeroCopy |-> zeroCopy, started |-> FALSE,
          forceIdr |-> FALSE] \in Encoder
  BY DEF Encoder

LEMMA EncoderMarked ==
  ASSUME NEW e \in Encoder
  PROVE  /\ [e EXCEPT !.forceIdr = TRUE] \in Encoder
         /\ [e EXCEPT !.started = TRUE, !.forceIdr = FALSE] \in Encoder
  BY DEF Encoder

(* The encoder is there when it is used, and what is done to it keeps its  *)
(* type.                                                                   *)
LEMMA EncoderSteps ==
  ASSUME TypeOK, StateFits, DataFits, OpenEncoder \/ Encode \/ ReconnectUrl
  PROVE  encoder' \in Encoder
<1>1. encoder \in Encoder \cup {None} /\ size \in Sizes \cup {None}
  BY DEF TypeOK
<1>2. CASE OpenEncoder
  <2>1. size \in Sizes
    BY <1>1, <1>2 DEF OpenEncoder, DataFits
  <2>2. QED
    BY <1>2, <2>1, EncoderOpened DEF OpenEncoder, OpenedEncoder, ZeroCopyChoices
<1>3. CASE Encode
  <2>1. encoder \in Encoder
    BY <1>1, <1>3 DEF Encode, StateFits, Streaming, DataFits
  <2>2. QED
    BY <1>3, <2>1, EncoderMarked DEF Encode
<1>4. CASE ReconnectUrl
  <2>1. encoder \in Encoder
    BY <1>1, <1>4 DEF ReconnectUrl, StateFits, Reconnecting, DataFits
  <2>2. QED
    BY <1>4, <2>1, EncoderMarked DEF ReconnectUrl, IdrRequested
<1>5. QED
  BY <1>2, <1>3, <1>4

(* What each place of the thread relies on is there.                       *)
LEMMA DataPreserved ==
  ASSUME TypeOK, StateFits, DataFits, [Next]_vars
  PROVE  DataFits'
<1>0. /\ state \in PipelineState /\ clients \in 0 .. NumUrls
      /\ encoder \in Encoder \cup {None} /\ NumUrls \in Nat \ {0}
      /\ None \notin Sizes /\ None \notin Encoder
      /\ monitorSize \in Sizes /\ size \in Sizes \cup {None}
      /\ target \in Sizes /\ queue \in Seq(Frame)
  BY ConstantsAssumption DEF TypeOK
<1> USE DEF machineVars, resizeVars, initVars, clientVars, streamVars,
            StateFits, DataFits, Streaming, Reconnecting, Restarting
<1>1. CASE CaptureInit
  BY <1>1, <1>0, ValidTransition DEF CaptureInit, StartPump, ValidTransitions
<1>2. CASE CaptureInitFails
  BY <1>2, <1>0 DEF CaptureInitFails
<1>3. CASE CaptureInitGivesUp
  BY <1>3, <1>0, ValidTransition DEF CaptureInitGivesUp, ValidTransitions
<1>3a. CASE ReturnFromInit
  BY <1>3a, <1>0 DEF ReturnFromInit
<1>4. CASE FirstFrame
  <2>1. size' # None
    BY <1>4, <1>0, FirstOfQueue DEF FirstFrame
  <2>2. QED
    BY <1>4, <1>0, <2>1 DEF FirstFrame
<1>5. CASE FirstFrameTimeout
  BY <1>5, <1>0, ValidTransition
     DEF FirstFrameTimeout, AskPumpToStop, ValidTransitions
<1>6. CASE FirstFrameCleanup
  BY <1>6, <1>0 DEF FirstFrameCleanup, PumpJoined, Released
<1>7. CASE DispatchStop
  BY <1>7, <1>0, DispatchTransition
     DEF DispatchStop, BeginTeardown, AskPumpToStop
<1>8. CASE DispatchTerminal
  BY <1>8, <1>0 DEF DispatchTerminal, BeginTeardown, AskPumpToStop
<1>9. CASE Teardown
  BY <1>9, <1>0 DEF Teardown, ClientsDropped, PumpJoined, Released
<1>10. CASE OpenEncoder
  <2>1. encoder' # None
    BY <1>0, <1>10, EncoderSteps
  <2>2. clients' < NumUrls
    BY <1>0, <1>10 DEF OpenEncoder, ClientsDropped
  <2>3. state' = "CONNECTING"
    BY <1>10, ValidTransition DEF OpenEncoder, ValidTransitions
  <2>4. QED
    BY <1>10, <1>0, <2>1, <2>2, <2>3 DEF OpenEncoder, ClientsDropped
<1>11. CASE OpenEncoderFails
  BY <1>11, <1>0 DEF OpenEncoderFails
<1>12. CASE ConnectUrl
  BY <1>12, <1>0, ValidTransition
     DEF ConnectUrl, ClientConnected, ValidTransitions, AllConnected
<1>13. CASE ConnectUrlFails
  BY <1>13, <1>0, ValidTransition
     DEF ConnectUrlFails, ClientsDropped, ValidTransitions
<1>14. CASE ConnectWaitOver
  BY <1>14, <1>0 DEF ConnectWaitOver
<1>15. CASE EnterStreaming
  BY <1>15, <1>0 DEF EnterStreaming
<1>16. CASE StreamStops
  BY <1>16, <1>0 DEF StreamStops
<1>17. CASE StreamHardError
  BY <1>17, <1>0, ValidTransition DEF StreamHardError, ValidTransitions
<1>18. CASE DrainAudio
  BY <1>18, <1>0 DEF DrainAudio
<1>19. CASE NothingToSend
  BY <1>19, <1>0 DEF NothingToSend, Pop
<1>20. CASE FrameDue
  BY <1>20, <1>0, ValidTransition DEF FrameDue, Pop, ValidTransitions
<1>21. CASE Encode
  <2>1. encoder' # None
    BY <1>0, <1>21, EncoderSteps
  <2>2. QED
    BY <1>21, <1>0, <2>1 DEF Encode
<1>22. CASE EncodeFails
  BY <1>22, <1>0, ValidTransition DEF EncodeFails, ValidTransitions
<1>23. CASE Send
  BY <1>23, <1>0 DEF Send
<1>24. CASE SendFails
  BY <1>24, <1>0, ValidTransition DEF SendFails, ValidTransitions
<1>25. CASE EnterReconnect
  BY <1>25, <1>0 DEF EnterReconnect, ClientsDropped
<1>26. CASE BackoffSleep
  BY <1>26, <1>0 DEF BackoffSleep
<1>27. CASE ReconnectStops
  BY <1>27, <1>0, ValidTransition DEF ReconnectStops, ValidTransitions
<1>28. CASE BackoffOver
  BY <1>28, <1>0 DEF BackoffOver
<1>29. CASE ReconnectUrl
  <2>1. encoder' # None
    BY <1>0, <1>29, EncoderSteps
  <2>2. QED
    BY <1>29, <1>0, <2>1, ValidTransition
       DEF ReconnectUrl, ClientConnected, ValidTransitions, AllConnected
<1>30. CASE ReconnectUrlFails
  BY <1>30, <1>0 DEF ReconnectUrlFails, ClientsDropped
<1>31. CASE EnterReconfigure
  BY <1>31, <1>0 DEF EnterReconfigure, AskPumpToStop
<1>32. CASE DropStream
  BY <1>32, <1>0 DEF DropStream, ClientsDropped, PumpJoined
<1>33. CASE SwapResizeFlag
  BY <1>33, <1>0 DEF SwapResizeFlag, ReleaseForReinit
<1>34. CASE ReadPendingSize
  BY <1>34, <1>0 DEF ReadPendingSize, ReleaseForReinit
<1>35. CASE Reinit
  BY <1>35, <1>0 DEF Reinit, StartPump
<1>36. CASE ReinitFails
  BY <1>36, <1>0 DEF ReinitFails
<1>37. CASE ReinitGivesUp
  BY <1>37, <1>0, ValidTransition DEF ReinitGivesUp, ValidTransitions
<1>38. CASE SeedFreezeFrame
  BY <1>38, <1>0, ValidTransition DEF SeedFreezeFrame, Pop, ValidTransitions
<1>39. CASE Acquire
  BY <1>39, <1>0 DEF Acquire
<1>40. CASE AcquireTimesOut
  BY <1>40, <1>0 DEF AcquireTimesOut, StillCapturing
<1>41. CASE AcquireFails
  BY <1>41, <1>0 DEF AcquireFails, StillCapturing
<1>42. CASE QueueFrame
  BY <1>42, <1>0 DEF QueueFrame, StillCapturing
<1>43. CASE RequestStop
  BY <1>43, <1>0 DEF RequestStop
<1>44. CASE NotifyResized
  BY <1>44, <1>0 DEF NotifyResized
<1>45. CASE RaiseResizeFlag
  BY <1>45, <1>0 DEF RaiseResizeFlag
<1>46. CASE UNCHANGED vars
  BY <1>46, <1>0 DEF vars
<1>47. QED
  BY <1>1, <1>2, <1>3, <1>3a, <1>4, <1>5, <1>6, <1>7, <1>8, <1>9, <1>10, <1>11,
     <1>12, <1>13, <1>14, <1>15, <1>16, <1>17, <1>18, <1>19, <1>20,
     <1>21, <1>22, <1>23, <1>24, <1>25, <1>26, <1>27, <1>28, <1>29,
     <1>30, <1>31, <1>32, <1>33, <1>34, <1>35, <1>36, <1>37, <1>38,
     <1>39, <1>40, <1>41, <1>42, <1>43, <1>44, <1>45, <1>46
     DEF Next, PipelineThread, InitStep, DispatchStep, ConnectStep,
         StreamStep, ReconnectStep, ReconfigureStep, CaptureThread, Supervisor

-----------------------------------------------------------------------------
(* Types of the values that the operators of the model make.               *)
LEMMA TransitionTyped ==
  ASSUME NEW to \in PipelineState, TransitionTo(to),
         state \in PipelineState,
         rejected \subseteq PipelineState \X PipelineState
  PROVE  /\ state' \in PipelineState
         /\ rejected' \subseteq PipelineState \X PipelineState
  BY DEF TransitionTo

LEMMA RetriedTyped ==
  ASSUME backend \in Backend, NEW s \in Sizes
  PROVE  [Released EXCEPT !.hardError = FALSE, !.logical = s] \in Backend
  BY DEF Backend, Released

LEMMA BackendTyped ==
  ASSUME backend \in Backend
  PROVE  /\ Released \in Backend
         /\ [Released EXCEPT !.dev = "none"] \in Backend
         /\ \A s, t \in Sizes : Opened(s, t) \in Backend
         /\ \A z \in BOOLEAN : [backend EXCEPT !.zeroCopy = z] \in Backend
         /\ [backend EXCEPT !.hardError = TRUE] \in Backend
         /\ AcquiredFrame \in Frame
  BY DEF Backend, Released, Opened, AcquiredFrame, Frame

LEMMA OrphanedQueue ==
  ASSUME NEW q \in Seq(Frame)
  PROVE  /\ [i \in DOMAIN q |-> Orphaned(q[i])] \in Seq(Frame)
         /\ Len([i \in DOMAIN q |-> Orphaned(q[i])]) = Len(q)
<1>1. \A f \in Frame : Orphaned(f) \in Frame
  BY DEF Orphaned, Frame
<1>2. \A i \in DOMAIN q : Orphaned(q[i]) \in Frame
  BY <1>1
<1> HIDE DEF Orphaned
<1>3. QED
  BY <1>2

LEMMA QueueAppended ==
  ASSUME NEW q \in Seq(Frame), NEW f \in Frame, Len(q) <= MaxQueueSize
  PROVE  /\ Append(DropOldestIfFull(q), f) \in Seq(Frame)
         /\ Len(Append(DropOldestIfFull(q), f)) <= MaxQueueSize
<1>1. MaxQueueSize \in Nat \ {0}
  BY ConstantsAssumption
<1>2. CASE Len(q) >= MaxQueueSize
  <2>1. q # <<>>
    BY <1>1, <1>2
  <2>2. Tail(q) \in Seq(Frame) /\ Len(Tail(q)) = Len(q) - 1 /\ Len(q) \in Nat
    BY <2>1, FirstOfQueue
  <2>3. QED
    BY <1>1, <1>2, <2>2 DEF DropOldestIfFull
<1>3. CASE ~(Len(q) >= MaxQueueSize)
  BY <1>1, <1>3 DEF DropOldestIfFull
<1>4. QED
  BY <1>2, <1>3

(* TypeOK by groups of variables, so that a step is looked at only for the *)
(* groups it changes.                                                      *)
ThreadTyped == pc \in Locations /\ stop \in BOOLEAN

MachineTyped ==
  state \in PipelineState /\ rejected \subseteq PipelineState \X PipelineState

ResizeTyped ==
  /\ resizeFlag \in BOOLEAN
  /\ pendingSize \in Sizes \cup {None}
  /\ notifying \in BOOLEAN
  /\ monitorSize \in Sizes

InitTyped ==
  /\ size \in Sizes \cup {None}
  /\ target \in Sizes
  /\ retries \in 0 .. MaxRetries

PumpTyped ==
  /\ pump \in {"none", "stopped", "stopping", "running"}
  /\ capturing \in BOOLEAN
  /\ held \in Frame \cup {None}
  /\ queue \in Seq(Frame)
  /\ Len(queue) <= MaxQueueSize

ClientTyped ==
  /\ clients \in 0 .. NumUrls
  /\ linked \in BOOLEAN
  /\ fresh \in BOOLEAN
  /\ audioStream \in BOOLEAN

StreamTyped ==
  /\ freeze \in Frame \cup {None}
  /\ encoder \in Encoder \cup {None}
  /\ packet \in {"key", "delta"}

Groups ==
  /\ ThreadTyped /\ MachineTyped /\ ResizeTyped /\ InitTyped
  /\ backend \in Backend
  /\ PumpTyped /\ ClientTyped /\ StreamTyped

LEMMA TypeOKIsGroups == TypeOK <=> Groups
  BY DEF TypeOK, Groups, ThreadTyped, MachineTyped, ResizeTyped, InitTyped,
         PumpTyped, ClientTyped, StreamTyped

LEMMA UnchangedGroups ==
  ASSUME Groups
  PROVE  /\ UNCHANGED machineVars => MachineTyped'
         /\ UNCHANGED resizeVars => ResizeTyped'
         /\ UNCHANGED initVars => InitTyped'
         /\ UNCHANGED pumpVars => PumpTyped'
         /\ UNCHANGED clientVars => ClientTyped'
         /\ UNCHANGED streamVars => StreamTyped'
<1> USE DEF Groups
<1>1. UNCHANGED machineVars => MachineTyped'
  BY DEF machineVars, MachineTyped
<1>2. UNCHANGED resizeVars => ResizeTyped'
  BY DEF resizeVars, ResizeTyped
<1>3. UNCHANGED initVars => InitTyped'
  BY DEF initVars, InitTyped
<1>4. UNCHANGED pumpVars => PumpTyped'
  BY DEF pumpVars, PumpTyped
<1>5. UNCHANGED clientVars => ClientTyped'
  BY DEF clientVars, ClientTyped
<1>6. UNCHANGED streamVars => StreamTyped'
  BY DEF streamVars, StreamTyped
<1>7. QED
  BY <1>1, <1>2, <1>3, <1>4, <1>5, <1>6

(* What the calls of the pump do to its group.                             *)
LEMMA PumpCallsTyped ==
  ASSUME Groups
  PROVE  /\ StartPump => PumpTyped'
         /\ AskPumpToStop => PumpTyped'
         /\ Pop => PumpTyped' /\ freeze' \in Frame \cup {None}
<1> USE DEF Groups, PumpTyped, StreamTyped
<1>1. MaxQueueSize \in Nat
  BY ConstantsAssumption
<1>2. StartPump => PumpTyped'
  BY <1>1 DEF StartPump
<1>3. AskPumpToStop => PumpTyped'
  BY DEF AskPumpToStop
<1>4. ASSUME Pop PROVE PumpTyped' /\ freeze' \in Frame \cup {None}
  <2>1. CASE queue = <<>>
    BY <1>1, <1>4, <2>1 DEF Pop
  <2>2. CASE queue # <<>>
    <3>1. /\ Head(queue) \in Frame /\ Tail(queue) \in Seq(Frame)
          /\ Len(queue) \in Nat /\ Len(Tail(queue)) = Len(queue) - 1
      BY <2>2, FirstOfQueue
    <3>2. QED
      BY <1>1, <1>4, <2>2, <3>1 DEF Pop
  <2>3. QED
    BY <2>1, <2>2
<1>5. QED
  BY <1>2, <1>3, <1>4

LEMMA ReleaseTyped ==
  ASSUME Groups, NEW s \in Sizes, ReleaseForReinit(s), UNCHANGED size
  PROVE  InitTyped' /\ backend' \in Backend /\ PumpTyped' /\ pc' = "reinit"
<1>1. MaxRetries \in Nat
  BY ConstantsAssumption
<1>2. InitTyped' /\ pc' = "reinit"
  BY <1>1 DEF ReleaseForReinit, Groups, InitTyped
<1>3. backend' \in Backend
  BY BackendTyped DEF ReleaseForReinit, Groups
<1>4. PumpTyped'
  BY OrphanedQueue DEF ReleaseForReinit, Groups, PumpTyped
<1>5. QED
  BY <1>2, <1>3, <1>4

(* Without clients, the client variables have their types.                 *)
LEMMA DroppedTyped ==
  ASSUME ClientsDropped, audioStream' \in BOOLEAN
  PROVE  ClientTyped'
<1>1. clients' = 0 /\ linked' = FALSE /\ fresh' = FALSE
  BY DEF ClientsDropped
<1>2. 0 \in 0 .. NumUrls
  BY ConstantsAssumption
<1>3. clients' \in 0 .. NumUrls
  BY <1>1, <1>2
<1>4. linked' \in BOOLEAN /\ fresh' \in BOOLEAN
  BY <1>1
<1>5. QED
  BY <1>3, <1>4 DEF ClientTyped

(* Every step of every actor keeps the types.                              *)
LEMMA GroupsPreserved ==
  ASSUME Groups, StateFits, DataFits, [Next]_vars
  PROVE  Groups'
<1> USE UnchangedGroups DEF Groups, ThreadTyped, Locations
<1>0. /\ TypeOK
      /\ NumUrls \in Nat \ {0} /\ MaxRetries \in Nat \ {0}
      /\ MaxQueueSize \in Nat \ {0}
  BY TypeOKIsGroups, ConstantsAssumption
<1>1. CASE CaptureInit
  <2>1. backend' \in Backend
    BY <1>1, BackendTyped DEF CaptureInit, InitTyped
  <2>2. PumpTyped'
    BY <1>1, PumpCallsTyped DEF CaptureInit
  <2>3. MachineTyped'
    BY <1>1, TransitionTyped DEF CaptureInit, MachineTyped, PipelineState
  <2>4. QED
    BY <1>1, <2>1, <2>2, <2>3 DEF CaptureInit
<1>2. CASE CaptureInitFails
  BY <1>0, <1>2 DEF CaptureInitFails, InitTyped
<1>3. CASE CaptureInitGivesUp
  BY <1>3, TransitionTyped DEF CaptureInitGivesUp, MachineTyped, PipelineState
<1>3a. CASE ReturnFromInit
  BY <1>0, <1>3a DEF ReturnFromInit, InitTyped
<1>4. CASE FirstFrame
  <2>1. PumpTyped' /\ freeze' \in Frame \cup {None}
    BY <1>4, PumpCallsTyped DEF FirstFrame
  <2>2. size' \in Sizes
    BY <1>4, FirstOfQueue DEF FirstFrame, PumpTyped
  <2>3. QED
    BY <1>4, <2>1, <2>2 DEF FirstFrame, InitTyped, StreamTyped
<1>5. CASE FirstFrameTimeout
  BY <1>5, TransitionTyped
     DEF FirstFrameTimeout, AskPumpToStop, MachineTyped, PumpTyped, PipelineState
<1>6. CASE FirstFrameCleanup
  BY <1>6, BackendTyped, OrphanedQueue
     DEF FirstFrameCleanup, PumpJoined, PumpTyped
<1>7. CASE DispatchStop
  BY <1>7, TransitionTyped
     DEF DispatchStop, BeginTeardown, AskPumpToStop, MachineTyped, PumpTyped, StreamTyped, PipelineState
<1>8. CASE DispatchTerminal
  BY <1>8
     DEF DispatchTerminal, BeginTeardown, AskPumpToStop, PumpTyped, StreamTyped
<1>9. CASE Teardown
  <2>1. backend' \in Backend
    BY <1>9, BackendTyped DEF Teardown
  <2>2. PumpTyped'
    BY <1>0, <1>9 DEF Teardown, PumpTyped
  <2>3. ClientTyped'
    BY <1>9, DroppedTyped DEF Teardown, ClientTyped
  <2>4. StreamTyped'
    BY <1>9 DEF Teardown, StreamTyped
  <2>5. QED
    BY <1>9, <2>1, <2>2, <2>3, <2>4 DEF Teardown
<1>10. CASE OpenEncoder
  <2>1. backend' \in Backend
    <3>1. PICK z \in BOOLEAN : backend' = [backend EXCEPT !.zeroCopy = z]
      BY <1>10 DEF OpenEncoder, ZeroCopyChoices
    <3>2. QED
      BY <3>1, BackendTyped
  <2>2. MachineTyped'
    BY <1>10, TransitionTyped DEF OpenEncoder, MachineTyped, PipelineState
  <2>3. ClientTyped'
    BY <1>10, DroppedTyped DEF OpenEncoder
  <2>4. StreamTyped'
    <3>1. encoder' \in Encoder
      BY <1>0, <1>10, EncoderSteps
    <3>2. QED
      BY <1>10, <3>1 DEF OpenEncoder, StreamTyped
  <2>5. QED
    BY <1>10, <2>1, <2>2, <2>3, <2>4 DEF OpenEncoder
<1>11. CASE OpenEncoderFails
  BY <1>11 DEF OpenEncoderFails, MachineTyped, PipelineState
<1>12. CASE ConnectUrl
  <2>1. MachineTyped'
    BY <1>12, TransitionTyped DEF ConnectUrl, MachineTyped, PipelineState
  <2>2. ClientTyped'
    <3>1. clients' \in 0 .. NumUrls
      BY <1>0, <1>12 DEF ConnectUrl, ClientConnected, ClientTyped, DataFits
    <3>2. {linked', fresh', audioStream'} \subseteq BOOLEAN
      BY <1>12 DEF ConnectUrl, ClientTyped
    <3>3. QED
      BY <3>1, <3>2 DEF ClientTyped
  <2>3. QED
    BY <1>12, <2>1, <2>2 DEF ConnectUrl
<1>13. CASE ConnectUrlFails
  <2>1. MachineTyped'
    BY <1>13, TransitionTyped DEF ConnectUrlFails, MachineTyped, PipelineState
  <2>2. ClientTyped'
    BY <1>13, DroppedTyped DEF ConnectUrlFails, ClientTyped
  <2>3. StreamTyped'
    BY <1>13 DEF ConnectUrlFails, StreamTyped
  <2>4. QED
    BY <1>13, <2>1, <2>2, <2>3 DEF ConnectUrlFails
<1>14. CASE ConnectWaitOver
  BY <1>14 DEF ConnectWaitOver
<1>15. CASE EnterStreaming
  BY <1>15 DEF EnterStreaming
<1>16. CASE StreamStops
  BY <1>16 DEF StreamStops
<1>17. CASE StreamHardError
  BY <1>17, TransitionTyped
     DEF StreamHardError, MachineTyped, StreamTyped, PipelineState
<1>18. CASE DrainAudio
  BY <1>18 DEF DrainAudio, ClientTyped
<1>19. CASE NothingToSend
  <2>1. PumpTyped' /\ freeze' \in Frame \cup {None}
    BY <1>19, PumpCallsTyped DEF NothingToSend
  <2>2. QED
    BY <1>19, <2>1 DEF NothingToSend, StreamTyped
<1>20. CASE FrameDue
  <2>1. PumpTyped' /\ freeze' \in Frame \cup {None}
    BY <1>20, PumpCallsTyped DEF FrameDue
  <2>2. MachineTyped'
    BY <1>20, TransitionTyped DEF FrameDue, MachineTyped, PipelineState
  <2>3. QED
    BY <1>20, <2>1, <2>2 DEF FrameDue, StreamTyped
<1>21. CASE Encode
  <2>1. encoder' \in Encoder
    BY <1>0, <1>21, EncoderSteps
  <2>2. QED
    BY <1>21, <2>1 DEF Encode, StreamTyped
<1>22. CASE EncodeFails
  BY <1>22, TransitionTyped DEF EncodeFails, MachineTyped, PipelineState
<1>23. CASE Send
  BY <1>23 DEF Send, ClientTyped
<1>24. CASE SendFails
  BY <1>24, TransitionTyped
     DEF SendFails, MachineTyped, ClientTyped, PipelineState
<1>25. CASE EnterReconnect
  <2>1. ClientTyped'
    BY <1>25, DroppedTyped DEF EnterReconnect, ClientTyped
  <2>2. QED
    BY <1>25, <2>1 DEF EnterReconnect
<1>26. CASE BackoffSleep
  BY <1>26 DEF BackoffSleep
<1>27. CASE ReconnectStops
  BY <1>27, TransitionTyped DEF ReconnectStops, MachineTyped, PipelineState
<1>28. CASE BackoffOver
  BY <1>28 DEF BackoffOver, ClientTyped
<1>29. CASE ReconnectUrl
  <2>1. MachineTyped'
    BY <1>29, TransitionTyped DEF ReconnectUrl, MachineTyped, PipelineState
  <2>2. ClientTyped'
    <3>1. clients' \in 0 .. NumUrls
      BY <1>0, <1>29 DEF ReconnectUrl, ClientConnected, ClientTyped, DataFits
    <3>2. {linked', fresh', audioStream'} \subseteq BOOLEAN
      BY <1>29 DEF ReconnectUrl, ClientTyped
    <3>3. QED
      BY <3>1, <3>2 DEF ClientTyped
  <2>3. StreamTyped'
    <3>1. encoder' \in Encoder
      BY <1>0, <1>29, EncoderSteps
    <3>2. QED
      BY <1>29, <3>1 DEF ReconnectUrl, StreamTyped
  <2>4. QED
    BY <1>29, <2>1, <2>2, <2>3 DEF ReconnectUrl
<1>30. CASE ReconnectUrlFails
  <2>1. ClientTyped'
    BY <1>30, DroppedTyped DEF ReconnectUrlFails, ClientTyped
  <2>2. QED
    BY <1>30, <2>1 DEF ReconnectUrlFails
<1>31. CASE EnterReconfigure
  BY <1>31 DEF EnterReconfigure, AskPumpToStop, PumpTyped
<1>32. CASE DropStream
  <2>1. PumpTyped'
    BY <1>32 DEF DropStream, PumpTyped
  <2>2. ClientTyped'
    BY <1>32, DroppedTyped DEF DropStream, ClientTyped
  <2>3. StreamTyped'
    BY <1>32 DEF DropStream, StreamTyped
  <2>4. QED
    BY <1>32, <2>1, <2>2, <2>3 DEF DropStream
<1>33. CASE SwapResizeFlag
  <2>1. ResizeTyped'
    BY <1>33 DEF SwapResizeFlag, ResizeTyped
  <2>2. CASE resizeFlag
    BY <1>33, <2>1, <2>2 DEF SwapResizeFlag, InitTyped, initVars
  <2>3. CASE ~resizeFlag
    <3>1. ReleaseForReinit(size) /\ UNCHANGED size /\ size \in Sizes
      BY <1>33, <2>3 DEF SwapResizeFlag, DataFits, InitTyped
    <3>2. QED
      BY <1>33, <2>1, <3>1, ReleaseTyped DEF SwapResizeFlag
  <2>4. QED
    BY <2>2, <2>3
<1>34. CASE ReadPendingSize
  <2>1. ReleaseForReinit(pendingSize) /\ UNCHANGED size /\ pendingSize \in Sizes
    BY <1>34 DEF ReadPendingSize, DataFits, ResizeTyped
  <2>2. QED
    BY <1>34, <2>1, ReleaseTyped DEF ReadPendingSize
<1>35. CASE Reinit
  <2>1. backend' \in Backend
    BY <1>35, BackendTyped DEF Reinit, InitTyped
  <2>2. PumpTyped'
    BY <1>35, PumpCallsTyped DEF Reinit
  <2>3. InitTyped'
    BY <1>35 DEF Reinit, InitTyped
  <2>4. QED
    BY <1>35, <2>1, <2>2, <2>3 DEF Reinit
<1>36. CASE ReinitFails
  <2>1. backend' \in Backend
    BY <1>36, RetriedTyped DEF ReinitFails, InitTyped
  <2>2. QED
    BY <1>0, <1>36, <2>1 DEF ReinitFails, InitTyped
<1>37. CASE ReinitGivesUp
  BY <1>37, TransitionTyped DEF ReinitGivesUp, MachineTyped, PipelineState
<1>38. CASE SeedFreezeFrame
  <2>1. PumpTyped' /\ freeze' \in Frame \cup {None}
    BY <1>38, PumpCallsTyped DEF SeedFreezeFrame
  <2>2. MachineTyped'
    BY <1>38, TransitionTyped DEF SeedFreezeFrame, MachineTyped, PipelineState
  <2>3. QED
    BY <1>38, <2>1, <2>2 DEF SeedFreezeFrame, StreamTyped
<1>39. CASE Acquire
  BY <1>39, BackendTyped DEF Acquire, PumpTyped
<1>40. CASE AcquireTimesOut
  BY <1>40 DEF AcquireTimesOut, StillCapturing, PumpTyped
<1>41. CASE AcquireFails
  BY <1>41, BackendTyped DEF AcquireFails, StillCapturing, PumpTyped
<1>42. CASE QueueFrame
  BY <1>42, QueueAppended DEF QueueFrame, StillCapturing, PumpTyped
<1>43. CASE RequestStop
  BY <1>43 DEF RequestStop
<1>44. CASE NotifyResized
  BY <1>44 DEF NotifyResized, ResizeTyped
<1>45. CASE RaiseResizeFlag
  BY <1>45 DEF RaiseResizeFlag, ResizeTyped
<1>46. CASE UNCHANGED vars
  BY <1>46 DEF vars
<1>47. QED
  BY <1>1, <1>2, <1>3, <1>3a, <1>4, <1>5, <1>6, <1>7, <1>8, <1>9, <1>10, <1>11,
     <1>12, <1>13, <1>14, <1>15, <1>16, <1>17, <1>18, <1>19, <1>20,
     <1>21, <1>22, <1>23, <1>24, <1>25, <1>26, <1>27, <1>28, <1>29,
     <1>30, <1>31, <1>32, <1>33, <1>34, <1>35, <1>36, <1>37, <1>38,
     <1>39, <1>40, <1>41, <1>42, <1>43, <1>44, <1>45, <1>46
     DEF Next, PipelineThread, InitStep, DispatchStep, ConnectStep,
         StreamStep, ReconnectStep, ReconfigureStep, CaptureThread, Supervisor

-----------------------------------------------------------------------------
LEMMA InitEstablishes == Init => IInv
<1> SUFFICES ASSUME Init PROVE IInv
  OBVIOUS
<1> USE DEF Init, StateInit
<1>1. Groups
  <2>1. ThreadTyped /\ MachineTyped /\ ResizeTyped
    BY DEF ThreadTyped, Locations, MachineTyped, PipelineState, ResizeTyped
  <2>2. InitTyped
    BY ConstantsAssumption DEF InitTyped
  <2>3. backend \in Backend
    BY DEF Backend
  <2>4. PumpTyped
    <3>1. queue \in Seq(Frame)
      OBVIOUS
    <3>2. Len(queue) <= MaxQueueSize
      <4>1. Len(queue) = 0 /\ MaxQueueSize \in Nat
        BY ConstantsAssumption
      <4> HIDE DEF Init
      <4>2. QED
        BY <4>1
    <3>3. pump = "none" /\ held = None /\ capturing \in BOOLEAN
      OBVIOUS
    <3>4. QED
      <4> HIDE DEF Init
      <4>1. QED
        BY <3>1, <3>2, <3>3, Zenon DEF PumpTyped
  <2>5. ClientTyped
    <3>1. clients \in 0 .. NumUrls
      BY ConstantsAssumption
    <3>2. QED
      BY <3>1 DEF ClientTyped
  <2>6. StreamTyped
    BY DEF StreamTyped
  <2>7. QED
    BY <2>1, <2>2, <2>3, <2>4, <2>5, <2>6 DEF Groups
<1>2. StateFits /\ OnlyAcceptedTransitions
  BY DEF StateFits, OnlyAcceptedTransitions, Streaming, Reconnecting, Restarting
<1>3. DataFits
  BY DEF DataFits
<1>4. Devices
  BY DEF Devices, NoEncoder, NoCapture, DeviceUsersHaveDevice
<1>5. QED
  BY <1>1, <1>2, <1>3, <1>4, TypeOKIsGroups DEF IInv

LEMMA NextPreserves == IInv /\ [Next]_vars => IInv'
<1> SUFFICES ASSUME IInv, [Next]_vars PROVE IInv'
  OBVIOUS
<1> USE DEF IInv
<1>1. StateFits' /\ OnlyAcceptedTransitions'
  BY StatePreserved DEF TypeOK
<1>2. DataFits'
  BY DataPreserved
<1>3. Devices'
  BY DevicesPreserved
<1>4. TypeOK'
  <2>1. Groups'
    BY GroupsPreserved, TypeOKIsGroups
  <2>2. QED
    BY <2>1, TypeOKIsGroups, PTL
<1>5. QED
  BY <1>1, <1>2, <1>3, <1>4

-----------------------------------------------------------------------------
(* The inductive invariant holds in every reachable state.                 *)
THEOREM Invariance == Spec => []IInv
<1>1. QED
  BY InitEstablishes, NextPreserves, PTL DEF Spec

(* Every variable keeps its type: among others, the pipeline thread never  *)
(* uses a size, an encoder or a pending resize that is not there, never    *)
(* has more clients than URLs, and the queue never exceeds its limit.      *)
THEOREM TypeCorrect == Spec => []TypeOK
<1>1. IInv => TypeOK
  BY DEF IInv
<1>2. QED
  BY <1>1, Invariance, PTL

(* do_reconfigure(), teardown_all() and the cleanup of a failed start      *)
(* release the D3D11 device only when no capture thread and no zero-copy   *)
(* encoder uses it.                                                        *)
THEOREM DeviceSafe == Spec => []DeviceUsersHaveDevice
<1>1. IInv => DeviceUsersHaveDevice
  BY DEF IInv, Devices
<1>2. QED
  BY <1>1, Invariance, PTL

(* The table of state_machine.cpp holds every pair that the pipeline asks  *)
(* for but the last STOPPING of one that has ended, and the dispatch loop  *)
(* has a case for every state it meets.                                    *)
THEOREM Accepted == Spec => []TransitionsAccepted
<1>1. IInv => TransitionsAccepted
  BY DEF IInv, StateFits, OnlyAcceptedTransitions, TransitionsAccepted
<1>2. QED
  BY <1>1, Invariance, PTL

=============================================================================
