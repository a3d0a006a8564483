----------------------------- MODULE AvTimestamps -----------------------------
(***************************************************************************)
(* The time stamps that one ScreenPipeline puts on its packets: pts of     *)
(* video (compute_next_pts), pts of audio (do_streaming_loop) and the NTP  *)
(* base that RTCP gives to receivers (do_connect, do_reconnect), over      *)
(* connects that take time, connections that break, and a wall clock that  *)
(* is set while the steady clock runs on.                                  *)
(*                                                                         *)
(* A receiver shows a packet at base + pts in its time base.  Products     *)
(* with Fps, Rate and Second stand for fractions: a time in units of       *)
(* 1 / (Second * Fps) or 1 / (Second * Rate) seconds.                      *)
(***************************************************************************)
EXTENDS Integers, Sequences

CONSTANTS
  Second,      (* clock units in a second: 1000000                         *)
  Fps,         (* encoder.fps                                              *)
  Rate,        (* audio.sample_rate                                        *)
  PacketTime,  (* least time in which the samples of a packet are played   *)
  Burst,       (* most packets' worth of audio that the device's buffer,   *)
               (* the FIFO and the audio encoder hold                      *)
  Capacity,    (* AudioSubscriberQueue::kMaxQueueSize                      *)
  Start,       (* the wall clock when the pipeline starts                  *)
  Jumps,       (* by how much the wall clock may be set                    *)
  MaxTime      (* bound: how long the steady clock runs                    *)

ASSUME TimeAssumption ==
  /\ Second \in Nat \ {0} /\ Fps \in Nat \ {0} /\ Rate \in Nat \ {0}
  /\ Fps <= Second
  /\ PacketTime \in Nat \ {0} /\ Burst \in Nat \ {0} /\ Capacity \in Nat \ {0}
  /\ Second <= PacketTime * Rate
  /\ Start \in Nat /\ Jumps \subseteq Int /\ MaxTime \in Nat

VARIABLES
  steady,       (* steady_clock                                            *)
  wall,         (* system_now_us()                                         *)
  stepped,      (* history: the wall clock was set                         *)
  phase,        (* "idle", "connecting", "streaming" or "broken"           *)
  reconnected,  (* the connection was made by do_reconnect()               *)
  frames,       (* frame_count                                             *)
  first,        (* first_frame_time_us_                                    *)
  last,         (* last_pts_                                               *)
  stamp,        (* freeze_meta.timestamp_us of the last frame              *)
  sent,         (* when frame_sw was reset                                 *)
  base,         (* stream_start_us of the clients                          *)
  hasAudio,     (* the clients have an audio stream                        *)
  audioStart,   (* audio_stream_start_us_                                  *)
  lastAudio,    (* last_audio_pts_                                         *)
  backlog,      (* capture_timestamp_us of the packets in audio_queue_     *)
  pending,      (* time whose audio was played and is in no packet yet     *)
  audioStamp,   (* capture_timestamp_us of the last audio packet           *)
  stale,        (* history: audio packets older than the base              *)
  muxed         (* pts last written to each stream of the connection       *)

clockVars   == <<steady, wall, stepped>>
encoderVars == <<frames, first, last, stamp, sent>>
audioVars   == <<audioStart, lastAudio, audioStamp, stale>>
queueVars   == <<backlog, pending>>
linkVars    == <<phase, reconnected, base, hasAudio, muxed>>
vars == <<clockVars, encoderVars, audioVars, queueVars, linkVars>>

Nothing == [video |-> -1, audio |-> -1]

Init ==
  /\ steady = 0 /\ wall = Start /\ stepped = FALSE
  /\ phase = "idle" /\ reconnected = FALSE
  /\ frames = 0 /\ first = 0 /\ last = -1 /\ stamp = 0 /\ sent = 0
  /\ base = 0 /\ hasAudio = FALSE
  /\ audioStart = 0 /\ lastAudio = -1 /\ audioStamp = 0 /\ stale = 0
  /\ backlog = <<>> /\ pending \in 0 .. Burst * PacketTime
  /\ muxed = Nothing

-----------------------------------------------------------------------------
(* The clocks.                                                             *)

(* Audio is played meanwhile; what a full device cannot hold is lost.      *)
Tick ==
  /\ steady < MaxTime
  /\ steady' = steady + 1
  /\ wall' = wall + 1
  /\ pending' = IF pending < Burst * PacketTime THEN pending + 1 ELSE pending
  /\ UNCHANGED <<stepped, encoderVars, audioVars, backlog, linkVars>>

SetClock ==
  /\ ~stepped
  /\ \E d \in Jumps : wall' = wall + d
  /\ stepped' = TRUE
  /\ UNCHANGED <<steady, encoderVars, audioVars, queueVars, linkVars>>

-----------------------------------------------------------------------------
(* Rounding and growth of pts.                                             *)

(* d * rate / 1000000 of the code: int64_t division truncates toward 0.    *)
Scaled(d, rate) ==
  IF d >= 0 THEN (d * rate) \div Second ELSE -((-d * rate) \div Second)

(* Mutant: the clock is trusted.                                           *)
AsComputed(pts, previous) == pts

(* "Keep pts strictly increasing".                                         *)
Growing(pts, previous) == IF pts <= previous THEN previous + 1 ELSE pts

-----------------------------------------------------------------------------
(* Audio.                                                                  *)

(* Mutant: no limit.                                                       *)
All(q) == q

(* The newest packets, as many as the queue holds.                         *)
Newest(q) ==
  IF Len(q) <= Capacity THEN q ELSE SubSeq(q, Len(q) - Capacity + 1, Len(q))

(* A buffer is taken from the device, stamped with the time of that, and   *)
(* encoded; its packets, which all have its time, reach the subscriber's   *)
(* queue.  A thread that comes late takes all the buffers it finds, one    *)
(* after the other, so that nothing keeps their stamps apart: how many     *)
(* packets come is bounded by the audio that was played.                   *)
CaptureAudio ==
  /\ \E n \in 1 .. Burst :
       /\ n * PacketTime <= pending
       /\ pending' = pending - n * PacketTime
       /\ backlog' = Newest(backlog \o [i \in 1 .. n |-> wall])
  /\ UNCHANGED <<clockVars, encoderVars, audioVars, linkVars>>

(* Samples since the base; what is older than the base is moved to it.     *)
AudioPts(captured) ==
  LET rel == captured - audioStart
  IN  Growing(Scaled(IF rel < 0 THEN 0 ELSE rel, Rate), lastAudio)

(* One packet of the drain loop; clients without an audio stream get none. *)
SendAudio ==
  /\ phase = "streaming"
  /\ backlog # <<>>
  /\ backlog' = Tail(backlog)
  /\ audioStamp' = Head(backlog)
  /\ lastAudio' = AudioPts(Head(backlog))
  /\ stale' = IF Head(backlog) < audioStart THEN stale + 1 ELSE stale
  /\ muxed' = IF hasAudio THEN [muxed EXCEPT !.audio = lastAudio'] ELSE muxed
  /\ UNCHANGED <<clockVars, encoderVars, audioStart, pending, phase, reconnected,
                 base, hasAudio>>

-----------------------------------------------------------------------------
(* Video.                                                                  *)

(* Mutant: a frame is sent as soon as it arrives.                          *)
FrameDueAtOnce == TRUE

(* frame_interval_us have passed since frame_sw was reset.                 *)
FrameDue == steady - sent >= Second \div Fps

(* The frame is stamped with the time of sending and encoded: the first    *)
(* one of an encoder is its time 0.                                        *)
EncodeFrame ==
  /\ phase = "streaming"
  /\ FrameDue
  /\ sent' = steady
  /\ stamp' = wall
  /\ first' = IF frames = 0 THEN wall ELSE first
  /\ last' = Growing(Scaled(wall - first', Fps), last)
  /\ frames' = frames + 1

SendFrame ==
  /\ EncodeFrame
  /\ muxed' = [muxed EXCEPT !.video = last']
  /\ UNCHANGED <<clockVars, audioVars, queueVars, phase, reconnected, base,
                 hasAudio>>

(* The write fails: RECONNECTING.                                          *)
SendFrameFails ==
  /\ EncodeFrame
  /\ phase' = "broken"
  /\ UNCHANGED <<clockVars, audioVars, queueVars, reconnected, base, hasAudio,
                 muxed>>

-----------------------------------------------------------------------------
(* Connections.                                                            *)

(* Mutant: last_audio_pts_ is kept from the connection before.             *)
KeptAudioPts == lastAudio

(* last_audio_pts_ of a connection that has sent no audio.                 *)
NoAudioPts == -1

(* The part that do_connect() and do_reconnect() share: the base of the    *)
(* clients, and that of audio if the audio pipeline is running.            *)
BeginConnect(start) ==
  /\ base' = start
  /\ hasAudio' \in BOOLEAN
  /\ IF hasAudio'
     THEN /\ audioStart' = start
          /\ lastAudio' = NoAudioPts
          /\ stale' = 0
     ELSE UNCHANGED <<audioStart, lastAudio, stale>>
  /\ muxed' = Nothing
  /\ phase' = "connecting"
  /\ UNCHANGED <<clockVars, queueVars, audioStamp>>

(* do_connect() with a new encoder: the base is read before the connects.  *)
Connect ==
  /\ phase = "idle"
  /\ BeginConnect(wall)
  /\ reconnected' = FALSE
  /\ frames' = 0 /\ first' = 0 /\ last' = -1
  /\ UNCHANGED <<stamp, sent>>

(* Mutant: the base of a reconnect is the time of the reconnect.           *)
ReconnectBaseNow == wall

(* encoder_->first_frame_time_us()                                         *)
ReconnectBase == first

(* An attempt of do_reconnect(), with the encoder as it is.                *)
Reconnect ==
  /\ phase = "broken"
  /\ BeginConnect(ReconnectBase)
  /\ reconnected' = TRUE
  /\ UNCHANGED encoderVars

(* A URL fails: the first time, the encoder goes.                          *)
ConnectFails ==
  /\ phase = "connecting"
  /\ phase' = IF reconnected THEN "broken" ELSE "idle"
  /\ UNCHANGED <<clockVars, encoderVars, audioVars, queueVars, reconnected,
                 base, hasAudio, muxed>>

(* STREAMING: do_streaming_loop() begins with a new frame_sw.              *)
Connected ==
  /\ phase = "connecting"
  /\ phase' = "streaming"
  /\ sent' = steady
  /\ UNCHANGED <<clockVars, frames, first, last, stamp, audioVars, queueVars,
                 reconnected, base, hasAudio, muxed>>

(* A resize or a hard error: the encoder and the clients go.               *)
Reconfigure ==
  /\ phase = "streaming"
  /\ phase' = "idle"
  /\ UNCHANGED <<clockVars, encoderVars, audioVars, queueVars, reconnected,
                 base, hasAudio, muxed>>

-----------------------------------------------------------------------------
Next ==
  \/ Tick \/ SetClock
  \/ CaptureAudio \/ SendAudio
  \/ SendFrame \/ SendFrameFails
  \/ Connect \/ Reconnect \/ ConnectFails \/ Connected \/ Reconfigure

Spec == Init /\ [][Next]_vars

-----------------------------------------------------------------------------
(* Type invariant: every variable has its type.                            *)
TypeOK ==
  /\ steady \in Nat /\ wall \in Int /\ stepped \in BOOLEAN
  /\ phase \in {"idle", "connecting", "streaming", "broken"}
  /\ reconnected \in BOOLEAN
  /\ frames \in Nat /\ first \in Int /\ last \in Nat \cup {-1}
  /\ stamp \in Int /\ sent \in 0 .. steady
  /\ base \in Int /\ hasAudio \in BOOLEAN
  /\ audioStart \in Int /\ lastAudio \in Nat \cup {-1} /\ audioStamp \in Int
  /\ stale \in Nat
  /\ backlog \in Seq(Int) /\ Len(backlog) <= Capacity
  /\ pending \in 0 .. Burst * PacketTime
  /\ muxed \in [video : Nat \cup {-1}, audio : Nat \cup {-1}]

(* How far pts may run ahead per frame because frame_interval_us is        *)
(* rounded down: nothing if fps divides 1000000.                           *)
Drift == frames * (Second % Fps)

(* The time a receiver gives to the last frame is at most one frame        *)
(* interval before the time the frame was sent, and after it only by the   *)
(* drift, if the encoder's time 0 is shown at t.                           *)
VideoShownInTime(t) ==
  /\ (stamp - t) * Fps - Second < last * Second
  /\ last * Second <= (stamp - t) * Fps + Drift

(* The encoder's timeline is that of the wall clock: bumping equal pts     *)
(* never accumulates, whatever the pace of the frames, however often the   *)
(* connection breaks and the stopwatch is started anew.                    *)
VideoOnTime ==
  frames > 0 /\ ~stepped => VideoShownInTime(first)

(* A receiver hears audio at the time it was stamped with: not before it,  *)
(* and later only by one sample for each packet that was older than the    *)
(* base and for each packet but one of those that a late thread can find   *)
(* at once.  Bumps of packets with the same time never add up to more, as  *)
(* each packet took longer to play than the sample by which it is bumped.  *)
AudioOnTime ==
  phase # "idle" /\ muxed.audio # -1 /\ ~stepped =>
    LET rel == IF audioStamp < base THEN 0 ELSE audioStamp - base
    IN  /\ rel * Rate - Second < muxed.audio * Second
        /\ muxed.audio * Second <= rel * Rate + (stale + Burst - 1) * Second

(* After a reconnect the receiver's clock for video is right, and audio    *)
(* uses the same base, so that picture and sound are together, although    *)
(* the encoder kept its timeline.                                          *)
ReconnectedInSync ==
  reconnected /\ phase = "streaming" /\ ~stepped =>
    /\ VideoShownInTime(base)
    /\ hasAudio => audioStart = base

(* On one connection the pts of each stream grow strictly, also when the   *)
(* clock is set back: av_interleaved_write_frame accepts every packet.     *)
MuxerTimestampsGrow ==
  [][/\ SendFrame => muxed'.video > muxed.video
     /\ SendAudio /\ hasAudio => muxed'.audio > muxed.audio]_vars

-----------------------------------------------------------------------------
(* What a comment says, and the code does not do.                          *)

(* supervisor.cpp:230-231: "audio pts is computed relative to              *)
(* connect_wallclock_us to stay in sync with video".  On a first           *)
(* connection the base is read before the connects, but pts 0 of video is  *)
(* the first frame after them: the picture is shown too early by the time  *)
(* between, which may be longer than a frame.                              *)
VideoInSyncWithAudio ==
  phase = "streaming" /\ hasAudio /\ muxed.video # -1 /\ ~stepped =>
    VideoShownInTime(base)

=============================================================================
