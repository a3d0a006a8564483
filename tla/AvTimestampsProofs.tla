-------------------------- MODULE AvTimestampsProofs --------------------------
(***************************************************************************)
(* Proofs about the time stamps, for every frame rate, sample rate and     *)
(* clock resolution, every size of the audio queue and every step of the   *)
(* wall clock.                                                             *)
(*                                                                         *)
(* The heart is one step of the encoder (EncodeKeepsTime).  A pts that is  *)
(* bumped is one more than the last pts; frames are at least               *)
(* frame_interval_us apart on the steady clock, and so on the wall clock   *)
(* unless it was set; hence a bump never gets ahead of time by more than   *)
(* what the interval was rounded down by.  That a frame is sent after the  *)
(* last one was stamped survives breaks of the connection because a new    *)
(* stopwatch only starts later (Frames).  The last part is about audio.    *)
(***************************************************************************)
EXTENDS AvTimestamps, TLAPS

(* The clocks run together until the wall clock is set.                    *)
Clocks == ~stepped => wall = Start + steady

Frames ==
  /\ frames = 0 => last = -1
  /\ frames > 0 /\ ~stepped => first <= stamp /\ stamp <= Start + sent

(* What a connection that was made again relies on.                        *)
Links ==
  /\ phase = "broken" => frames > 0
  /\ reconnected /\ phase # "idle" =>
       /\ frames > 0
       /\ base = first
       /\ hasAudio => audioStart = base

(* Nothing was written that is newer than the last pts.                    *)
Written ==
  /\ muxed.video <= last
  /\ hasAudio => muxed.audio <= lastAudio

IInv ==
  /\ TypeOK
  /\ Clocks
  /\ Frames
  /\ VideoOnTime
  /\ Links
  /\ Written

-----------------------------------------------------------------------------
LEMMA ProductNat == \A a, b \in Nat : a * b \in Nat
OBVIOUS

LEMMA ProductGrows ==
  ASSUME NEW a \in Int, NEW b \in Int, NEW c \in Nat, a >= b
  PROVE  a * c >= b * c
OBVIOUS

LEMMA DivisionBounds ==
  ASSUME NEW n \in Nat \ {0}, NEW x \in Nat
  PROVE  /\ x \div n \in Nat
         /\ (x \div n) * n <= x
         /\ x < (x \div n) * n + n
OBVIOUS

LEMMA DivisionRest ==
  ASSUME NEW n \in Nat \ {0}, NEW x \in Nat
  PROVE  x = n * (x \div n) + (x % n) /\ x % n \in Nat
OBVIOUS

(* A scaled duration is rounded down.                                      *)
LEMMA ScaledBounds ==
  ASSUME NEW d \in Nat, NEW rate \in Nat
  PROVE  /\ Scaled(d, rate) \in Nat
         /\ Scaled(d, rate) * Second <= d * rate
         /\ d * rate < Scaled(d, rate) * Second + Second
<1>1. d * rate \in Nat /\ Second \in Nat \ {0}
  BY ProductNat, TimeAssumption
<1>2. Scaled(d, rate) = (d * rate) \div Second
  BY DEF Scaled
<1>3. QED
  BY <1>1, <1>2, DivisionBounds

LEMMA ScaledType ==
  ASSUME NEW d \in Int, NEW rate \in Nat
  PROVE  Scaled(d, rate) \in Int
<1>1. CASE d >= 0
  BY <1>1, ScaledBounds
<1>2. CASE ~(d >= 0)
  <2>1. -d \in Nat /\ Second \in Nat \ {0}
    BY <1>2, TimeAssumption
  <2>2. (-d) * rate \in Nat
    BY <2>1, ProductNat
  <2>3. ((-d) * rate) \div Second \in Nat
    BY <2>1, <2>2, DivisionBounds
  <2>4. QED
    BY <1>2, <2>3 DEF Scaled
<1>3. QED
  BY <1>1, <1>2

LEMMA GrowingGrows ==
  ASSUME NEW pts \in Int, NEW previous \in Nat \cup {-1}
  PROVE  /\ Growing(pts, previous) \in Nat
         /\ Growing(pts, previous) > previous
         /\ Growing(pts, previous) = pts \/ Growing(pts, previous) = previous + 1
         /\ Growing(pts, previous) >= pts
BY DEF Growing

-----------------------------------------------------------------------------
(* The arithmetic of a bump: p is the last time and q the present one, at  *)
(* least an interval i later, n frames after the first.                    *)
LEMMA BumpKeepsTime ==
  ASSUME NEW p \in Int, NEW q \in Int, NEW i \in Nat, q >= p + i,
         NEW l \in Int, NEW n \in Nat, NEW r \in Nat,
         Second = Fps * i + r,
         l * Second <= p * Fps + n * r
  PROVE  (l + 1) * Second <= q * Fps + (n + 1) * r
<1>1. Second \in Nat /\ Fps \in Nat
  BY TimeAssumption
<1>2. q * Fps >= p * Fps + Fps * i
  BY <1>1
<1>3. (l + 1) * Second = l * Second + Second /\ (n + 1) * r = n * r + r
  BY <1>1
<1>4. l * Second \in Int /\ p * Fps \in Int /\ q * Fps \in Int
      /\ n * r \in Int /\ Fps * i \in Int /\ (l + 1) * Second \in Int
      /\ (n + 1) * r \in Int
  BY <1>1
<1>5. QED
  BY <1>1, <1>2, <1>3, <1>4

(* One frame: its pts grows and is on time.                                *)
LEMMA EncodeKeepsTime ==
  ASSUME IInv, EncodeFrame
  PROVE  /\ last' \in Nat /\ last' > last
         /\ first' \in Int /\ stamp' = wall /\ sent' = steady
         /\ frames' = frames + 1
         /\ frames > 0 => first' = first
         /\ ~stepped => first' <= stamp' /\ stamp' <= Start + sent'
         /\ ~stepped =>
              /\ (stamp' - first') * Fps - Second < last' * Second
              /\ last' * Second <= (stamp' - first') * Fps + frames' * (Second % Fps)
<1> DEFINE d == wall - first'
           P == Scaled(d, Fps)
           r == Second % Fps
           i == Second \div Fps
<1>1. /\ steady - sent >= i /\ sent' = steady /\ stamp' = wall
      /\ first' = IF frames = 0 THEN wall ELSE first
      /\ last' = Growing(P, last) /\ frames' = frames + 1
  BY DEF EncodeFrame, FrameDue
<1>2. /\ steady \in Nat /\ wall \in Int /\ frames \in Nat /\ first \in Int
      /\ last \in Nat \cup {-1} /\ stamp \in Int /\ sent \in Int /\ sent <= steady
  BY DEF IInv, TypeOK
<1>3. Second \in Nat \ {0} /\ Fps \in Nat \ {0} /\ Start \in Nat
  BY TimeAssumption
<1>4. first' \in Int /\ d \in Int /\ P \in Int
  BY <1>1, <1>2, <1>3, ScaledType
<1>5. /\ last' \in Nat /\ last' > last /\ last' >= P
      /\ last' = P \/ last' = last + 1
  BY <1>1, <1>2, <1>4, GrowingGrows
<1>6. i \in Nat /\ r \in Nat /\ Second = Fps * i + r
  BY <1>3, DivisionBounds, DivisionRest
<1>7. ASSUME ~stepped PROVE first' <= stamp' /\ stamp' <= Start + sent' /\ d \in Nat
  <2>1. wall = Start + steady
    BY <1>7 DEF IInv, Clocks
  <2>2. frames > 0 => first <= stamp /\ stamp <= Start + sent
    BY <1>7 DEF IInv, Frames
  <2>3. first' <= wall
    BY <1>1, <1>2, <1>3, <2>1, <2>2
  <2>4. QED
    BY <1>1, <1>2, <1>3, <1>4, <2>1, <2>3
<1>8. ASSUME ~stepped
      PROVE  /\ (stamp' - first') * Fps - Second < last' * Second
             /\ last' * Second <= (stamp' - first') * Fps + frames' * r
  <2>1. d \in Nat /\ stamp' - first' = d
    BY <1>1, <1>7, <1>8
  <2> HIDE DEF d, P, r, i
  <2>2. P \in Nat /\ P * Second <= d * Fps /\ d * Fps < P * Second + Second
    BY <1>3, <2>1, ScaledBounds DEF P
  <2>3. d * Fps - Second < last' * Second
    <3>1. last' * Second >= P * Second
      <4>1. last' \in Int /\ P \in Int /\ Second \in Nat /\ last' >= P
        BY <1>3, <1>5, <2>2
      <4>2. QED
        BY <4>1, ProductGrows
    <3>2. d * Fps \in Nat /\ P * Second \in Nat /\ last' * Second \in Nat
      BY <1>3, <1>5, <2>1, <2>2, ProductNat
    <3>3. QED
      BY <1>3, <2>2, <3>1, <3>2
  <2>4. last' * Second <= d * Fps + frames' * r
    <3>1. frames' * r \in Nat /\ d * Fps \in Nat /\ P * Second \in Nat
      BY <1>1, <1>2, <1>3, <1>6, <2>1, <2>2, ProductNat
    <3>2. CASE last' = P
      BY <2>2, <3>1, <3>2
    <3>3. CASE last' = last + 1 /\ last = -1
      BY <1>3, <3>1, <3>3
    <3>4. CASE last' = last + 1 /\ last # -1
      <4>1. frames > 0
        BY <1>2, <3>4 DEF IInv, Frames
      <4>2. last * Second <= (stamp - first) * Fps + frames * r
        BY <1>8, <4>1 DEF IInv, VideoOnTime, VideoShownInTime, Drift, r
      <4>3. d >= (stamp - first) + i
        <5>1. wall = Start + steady /\ stamp <= Start + sent
          BY <1>8, <4>1 DEF IInv, Clocks, Frames
        <5>2. d = wall - first
          BY <1>1, <1>2, <4>1 DEF d
        <5>3. QED
          BY <1>1, <1>2, <1>3, <1>6, <5>1, <5>2
      <4>4. (last + 1) * Second <= d * Fps + (frames + 1) * r
        <5>1. stamp - first \in Int /\ last \in Int /\ d \in Int
          BY <1>2, <2>1
        <5>2. QED
          BY <1>2, <1>6, <4>2, <4>3, <5>1, BumpKeepsTime
      <4>5. QED
        BY <1>1, <3>4, <4>4
    <3>5. QED
      BY <1>5, <3>2, <3>3, <3>4
  <2>5. QED
    BY <2>1, <2>3, <2>4
<1>9. frames > 0 => first' = first
  BY <1>1, <1>2
<1>10. QED
  BY <1>1, <1>4, <1>5, <1>7, <1>8, <1>9

-----------------------------------------------------------------------------
LEMMA InitEstablishes == Init => IInv
<1> SUFFICES ASSUME Init PROVE IInv
  OBVIOUS
<1>1. /\ <<>> \in Seq(Int) /\ Len(<<>>) <= Capacity
      /\ Nothing \in [video : Nat \cup {-1}, audio : Nat \cup {-1}]
      /\ 0 \in 0 .. 0
  BY TimeAssumption DEF Nothing
<1>2. TypeOK
  <2>1. /\ steady \in Nat /\ wall \in Int /\ sent \in 0 .. steady
        /\ pending \in 0 .. Burst * PacketTime
        /\ last \in Nat \cup {-1} /\ lastAudio \in Nat \cup {-1}
    BY <1>1, TimeAssumption DEF Init
  <2>2. /\ frames \in Nat /\ first \in Int /\ stamp \in Int /\ base \in Int
        /\ audioStart \in Int /\ audioStamp \in Int /\ stale \in Nat
    BY DEF Init
  <2>3. /\ backlog \in Seq(Int) /\ Len(backlog) <= Capacity
        /\ muxed \in [video : Nat \cup {-1}, audio : Nat \cup {-1}]
    BY <1>1 DEF Init
  <2>4. /\ phase \in {"idle", "connecting", "streaming", "broken"}
        /\ stepped \in BOOLEAN /\ reconnected \in BOOLEAN /\ hasAudio \in BOOLEAN
    BY DEF Init
  <2>5. QED
    BY <2>1, <2>2, <2>3, <2>4 DEF TypeOK
<1>3. Clocks /\ Frames /\ Links /\ Written /\ VideoOnTime
  BY TimeAssumption
     DEF Init, Clocks, Frames, Links, Written, VideoOnTime, Nothing
<1>4. QED
  BY <1>2, <1>3 DEF IInv

(* Only the encoder changes what the picture's time depends on.            *)
LEMMA EncoderUnchanged ==
  ASSUME VideoOnTime, UNCHANGED <<frames, first, last, stamp>>, stepped => stepped'
  PROVE  VideoOnTime'
BY DEF VideoOnTime, VideoShownInTime, Drift

LEMMA FramePreserves ==
  ASSUME IInv, SendFrame \/ SendFrameFails
  PROVE  IInv'
<1> DEFINE kept == UNCHANGED <<steady, wall, stepped, audioStart, lastAudio,
                               audioStamp, stale, backlog, pending, reconnected, base,
                               hasAudio>>
<1>1. /\ EncodeFrame /\ kept
      /\ \/ phase' = phase /\ muxed' = [muxed EXCEPT !.video = last']
         \/ phase' = "broken" /\ muxed' = muxed
  BY DEF SendFrame, SendFrameFails, clockVars, audioVars, queueVars
<1>2. /\ last' \in Nat /\ last' > last
      /\ first' \in Int /\ stamp' = wall /\ sent' = steady
      /\ frames' = frames + 1
      /\ frames > 0 => first' = first
      /\ ~stepped => first' <= stamp' /\ stamp' <= Start + sent'
      /\ ~stepped =>
           /\ (stamp' - first') * Fps - Second < last' * Second
           /\ last' * Second <= (stamp' - first') * Fps + frames' * (Second % Fps)
  BY <1>1, EncodeKeepsTime
<1>3. /\ steady \in Nat /\ wall \in Int /\ frames \in Nat /\ last \in Nat \cup {-1}
      /\ muxed \in [video : Nat \cup {-1}, audio : Nat \cup {-1}]
      /\ muxed.video <= last
  BY DEF IInv, TypeOK, Written
<1>4. /\ muxed' \in [video : Nat \cup {-1}, audio : Nat \cup {-1}]
      /\ muxed'.video <= last' /\ muxed'.audio = muxed.audio
  BY <1>1, <1>2, <1>3
<1>5. TypeOK'
  <2>1. frames' \in Nat /\ sent' \in 0 .. steady /\ stamp' \in Int
    BY <1>2, <1>3
  <2>2. QED
    BY <1>1, <1>2, <1>4, <2>1 DEF IInv, TypeOK
<1>6. Clocks' /\ Frames'
  BY <1>1, <1>2, <1>3 DEF IInv, Clocks, Frames
<1>7. VideoOnTime'
  BY <1>1, <1>2 DEF VideoOnTime, VideoShownInTime, Drift
<1>8. Links'
  <2>1. frames' > 0 /\ phase = "streaming"
    BY <1>1, <1>2, <1>3 DEF EncodeFrame
  <2>2. QED
    BY <1>1, <1>2, <2>1 DEF IInv, Links
<1>9. Written'
  BY <1>1, <1>4 DEF IInv, Written
<1>10. QED
  BY <1>5, <1>6, <1>7, <1>8, <1>9 DEF IInv

LEMMA BeginPreserves ==
  ASSUME IInv, NEW start \in Int, BeginConnect(start)
  PROVE  /\ base' = start /\ hasAudio' \in BOOLEAN /\ phase' = "connecting"
         /\ audioStart' \in Int /\ lastAudio' \in Nat \cup {-1} /\ stale' \in Nat
         /\ hasAudio' => audioStart' = start
         /\ muxed' = [video |-> -1, audio |-> -1]
         /\ -1 <= lastAudio'
         /\ UNCHANGED <<steady, wall, stepped, backlog, pending, audioStamp>>
<1>1. audioStart \in Int /\ lastAudio \in Nat \cup {-1} /\ stale \in Nat
  BY DEF IInv, TypeOK
<1>2. QED
  BY <1>1 DEF BeginConnect, NoAudioPts, Nothing, clockVars, queueVars

LEMMA ConnectPreserves ==
  ASSUME IInv, Connect
  PROVE  IInv'
<1>1. /\ BeginConnect(wall) /\ reconnected' = FALSE
      /\ frames' = 0 /\ first' = 0 /\ last' = -1
      /\ UNCHANGED <<stamp, sent>>
  BY DEF Connect
<1>2. wall \in Int
  BY DEF IInv, TypeOK
<1>3. /\ base' = wall /\ hasAudio' \in BOOLEAN /\ phase' = "connecting"
      /\ audioStart' \in Int /\ lastAudio' \in Nat \cup {-1} /\ stale' \in Nat
      /\ muxed' = [video |-> -1, audio |-> -1] /\ -1 <= lastAudio'
      /\ UNCHANGED <<steady, wall, stepped, backlog, pending, audioStamp>>
  BY <1>1, <1>2, BeginPreserves
<1>4. TypeOK'
  <2>1. muxed' \in [video : Nat \cup {-1}, audio : Nat \cup {-1}]
    BY <1>3
  <2>2. last' \in Nat \cup {-1} /\ frames' \in Nat /\ first' \in Int
    BY <1>1
  <2>3. QED
    BY <1>1, <1>2, <1>3, <2>1, <2>2 DEF IInv, TypeOK
<1>5. Clocks' /\ Frames' /\ VideoOnTime'
  BY <1>1, <1>3 DEF IInv, Clocks, Frames, VideoOnTime
<1>6. Links' /\ Written'
  BY <1>1, <1>3 DEF Links, Written
<1>7. QED
  BY <1>4, <1>5, <1>6 DEF IInv

LEMMA ReconnectPreserves ==
  ASSUME IInv, Reconnect
  PROVE  IInv'
<1>1. /\ phase = "broken" /\ BeginConnect(first) /\ reconnected' = TRUE
      /\ UNCHANGED <<frames, first, last, stamp, sent>>
  BY DEF Reconnect, ReconnectBase, encoderVars
<1>2. first \in Int /\ last \in Nat \cup {-1}
  BY DEF IInv, TypeOK
<1>3. /\ base' = first /\ hasAudio' \in BOOLEAN /\ phase' = "connecting"
      /\ audioStart' \in Int /\ lastAudio' \in Nat \cup {-1} /\ stale' \in Nat
      /\ hasAudio' => audioStart' = first
      /\ muxed' = [video |-> -1, audio |-> -1] /\ -1 <= lastAudio'
      /\ UNCHANGED <<steady, wall, stepped, backlog, pending, audioStamp>>
  BY <1>1, <1>2, BeginPreserves
<1>4. TypeOK'
  <2>1. muxed' \in [video : Nat \cup {-1}, audio : Nat \cup {-1}]
    BY <1>3
  <2>2. QED
    BY <1>1, <1>2, <1>3, <2>1 DEF IInv, TypeOK
<1>5. Clocks' /\ Frames'
  BY <1>1, <1>3 DEF IInv, Clocks, Frames
<1>6. VideoOnTime'
  BY <1>1, <1>3, EncoderUnchanged DEF IInv
<1>7. Links' /\ Written'
  BY <1>1, <1>2, <1>3 DEF IInv, Links, Written
<1>8. QED
  BY <1>4, <1>5, <1>6, <1>7 DEF IInv

LEMMA NewestType ==
  ASSUME NEW q \in Seq(Int)
  PROVE  Newest(q) \in Seq(Int) /\ Len(Newest(q)) <= Capacity
<1>1. Capacity \in Nat \ {0} /\ Len(q) \in Nat
  BY TimeAssumption
<1>2. CASE Len(q) <= Capacity
  BY <1>2 DEF Newest
<1>3. CASE ~(Len(q) <= Capacity)
  <2>1. /\ Len(q) - Capacity + 1 \in 1 .. Len(q)
        /\ Len(q) - (Len(q) - Capacity + 1) + 1 = Capacity
    BY <1>1, <1>3
  <2>2. /\ SubSeq(q, Len(q) - Capacity + 1, Len(q)) \in Seq(Int)
        /\ Len(SubSeq(q, Len(q) - Capacity + 1, Len(q))) = Capacity
    BY <1>1, <2>1
  <2>3. QED
    BY <1>1, <1>3, <2>2 DEF Newest
<1>4. QED
  BY <1>2, <1>3

LEMMA SendAudioGrows ==
  ASSUME IInv, SendAudio
  PROVE  lastAudio' \in Nat /\ lastAudio' > lastAudio
<1> DEFINE rel == Head(backlog) - audioStart
           age == IF rel < 0 THEN 0 ELSE rel
           pts == Scaled(age, Rate)
<1>1. /\ backlog \in Seq(Int) /\ backlog # <<>> /\ audioStart \in Int
      /\ lastAudio \in Nat \cup {-1} /\ lastAudio' = Growing(pts, lastAudio)
  BY DEF IInv, TypeOK, SendAudio, AudioPts
<1>2. Head(backlog) \in Int
  BY <1>1
<1>3. age \in Nat /\ Rate \in Nat
  BY <1>1, <1>2, TimeAssumption
<1> HIDE DEF age
<1>4. pts \in Int
  BY <1>3, ScaledBounds
<1> HIDE DEF pts
<1>5. QED
  BY <1>1, <1>4, GrowingGrows

LEMMA AudioPreserves ==
  ASSUME IInv, CaptureAudio \/ SendAudio
  PROVE  IInv'
<1>1. CASE CaptureAudio
  <2>1. PICK n \in 1 .. Burst :
          /\ n * PacketTime <= pending
          /\ pending' = pending - n * PacketTime
          /\ backlog' = Newest(backlog \o [i \in 1 .. n |-> wall])
    BY <1>1 DEF CaptureAudio
  <2>2. backlog \in Seq(Int) /\ wall \in Int /\ steady \in Nat
    BY DEF IInv, TypeOK
  <2>3. [i \in 1 .. n |-> wall] \in Seq(Int)
    BY <2>2, TimeAssumption
  <2>4. backlog' \in Seq(Int) /\ Len(backlog') <= Capacity
    <3>1. backlog \o [i \in 1 .. n |-> wall] \in Seq(Int)
      BY <2>2, <2>3
    <3>2. QED
      BY <2>1, <3>1, NewestType
  <2>5. /\ pending' \in 0 .. Burst * PacketTime
        /\ UNCHANGED <<clockVars, encoderVars, audioVars, linkVars>>
    <3>1. n * PacketTime \in Nat /\ Burst * PacketTime \in Nat
      BY TimeAssumption, ProductNat
    <3>2. pending \in 0 .. Burst * PacketTime
      BY DEF IInv, TypeOK
    <3>3. pending' \in 0 .. Burst * PacketTime
      BY <2>1, <3>1, <3>2
    <3>4. QED
      BY <1>1, <3>3 DEF CaptureAudio
  <2>6. TypeOK'
    BY <2>2, <2>4, <2>5
       DEF IInv, TypeOK, clockVars, encoderVars, audioVars, linkVars
  <2>7. (Clocks /\ Frames /\ VideoOnTime /\ Links /\ Written)'
    BY <2>5 DEF IInv, Clocks, Frames, VideoOnTime, VideoShownInTime, Drift, Links,
       Written, clockVars, encoderVars, audioVars, linkVars
  <2>8. QED
    BY <2>6, <2>7 DEF IInv
<1>2. CASE SendAudio
  <2>1. /\ backlog # <<>> /\ backlog' = Tail(backlog) /\ audioStamp' = Head(backlog)
        /\ lastAudio' = AudioPts(Head(backlog))
        /\ stale' = IF Head(backlog) < audioStart THEN stale + 1 ELSE stale
        /\ muxed' = IF hasAudio THEN [muxed EXCEPT !.audio = lastAudio'] ELSE muxed
        /\ UNCHANGED <<clockVars, encoderVars, audioStart, pending, phase, reconnected,
                       base, hasAudio>>
    BY <1>2 DEF SendAudio
  <2>2. /\ backlog \in Seq(Int) /\ Len(backlog) <= Capacity /\ audioStart \in Int
        /\ lastAudio \in Nat \cup {-1} /\ stale \in Nat
        /\ muxed \in [video : Nat \cup {-1}, audio : Nat \cup {-1}]
    BY DEF IInv, TypeOK
  <2>3. /\ Head(backlog) \in Int /\ Tail(backlog) \in Seq(Int)
        /\ Len(Tail(backlog)) = Len(backlog) - 1 /\ Len(backlog) \in Nat
    BY <2>1, <2>2
  <2>4. lastAudio' \in Nat /\ lastAudio' > lastAudio
    BY <1>2, SendAudioGrows
  <2>5. /\ muxed' \in [video : Nat \cup {-1}, audio : Nat \cup {-1}]
        /\ muxed'.video = muxed.video
        /\ hasAudio => muxed'.audio = lastAudio'
    BY <2>1, <2>2, <2>4
  <2>6. TypeOK'
    <3>1. Len(backlog') <= Capacity
      <4>1. Len(Tail(backlog)) <= Capacity
        BY <2>2, <2>3, TimeAssumption
      <4>2. QED
        BY <2>1, <4>1
    <3>3. stale' \in Nat
      BY <2>1, <2>2
    <3>2. QED
      BY <2>1, <2>2, <2>3, <2>4, <2>5, <3>1, <3>3
         DEF IInv, TypeOK, clockVars, encoderVars
  <2>7. (Clocks /\ Frames /\ VideoOnTime /\ Links)'
    BY <2>1 DEF IInv, Clocks, Frames, VideoOnTime, VideoShownInTime, Drift, Links,
       clockVars, encoderVars
  <2>8. Written'
    BY <2>1, <2>4, <2>5 DEF IInv, Written, encoderVars
  <2>9. QED
    BY <2>6, <2>7, <2>8 DEF IInv
<1>3. QED
  BY <1>1, <1>2

LEMMA OtherPreserves ==
  ASSUME IInv, Tick \/ SetClock \/ ConnectFails \/ Connected \/ Reconfigure
  PROVE  IInv'
<1>0. /\ steady \in Nat /\ wall \in Int /\ sent \in 0 .. steady
      /\ pending \in 0 .. Burst * PacketTime /\ Start \in Nat /\ frames \in Nat
      /\ stamp \in Int /\ VideoOnTime
  BY TimeAssumption DEF IInv, TypeOK
<1>1. CASE Tick
  <2>1. /\ steady' = steady + 1 /\ wall' = wall + 1
        /\ pending' = IF pending < Burst * PacketTime THEN pending + 1 ELSE pending
        /\ UNCHANGED <<stepped, encoderVars, audioVars, backlog, linkVars>>
    BY <1>1 DEF Tick
  <2>2. TypeOK'
    <3>1. /\ steady' \in Nat /\ wall' \in Int /\ sent \in 0 .. steady'
      BY <1>0, <2>1
    <3>2. pending' \in 0 .. Burst * PacketTime
      <4>1. Burst * PacketTime \in Nat
        BY TimeAssumption, ProductNat
      <4>2. QED
        BY <1>0, <2>1, <4>1
    <3>3. QED
      BY <2>1, <3>1, <3>2 DEF IInv, TypeOK, encoderVars, audioVars, linkVars
  <2>3. Clocks'
    BY <1>0, <2>1 DEF IInv, Clocks
  <2>4. VideoOnTime'
    BY <1>0, <2>1, EncoderUnchanged DEF encoderVars
  <2>5. (Frames /\ Links /\ Written)'
    BY <2>1 DEF IInv, Frames, Links, Written, encoderVars, audioVars, linkVars
  <2>6. QED
    BY <2>2, <2>3, <2>4, <2>5 DEF IInv
<1>2. CASE SetClock
  <2>1. /\ \E d \in Jumps : wall' = wall + d
        /\ stepped' = TRUE
        /\ UNCHANGED <<steady, encoderVars, audioVars, queueVars, linkVars>>
    BY <1>2 DEF SetClock
  <2>2. wall' \in Int
    BY <1>0, <2>1, TimeAssumption
  <2>3. TypeOK'
    BY <2>1, <2>2 DEF IInv, TypeOK, encoderVars, audioVars, queueVars, linkVars
  <2>4. VideoOnTime'
    BY <1>0, <2>1, EncoderUnchanged DEF encoderVars
  <2>5. (Clocks /\ Frames /\ Links /\ Written)'
    BY <2>1 DEF IInv, Clocks, Frames, Links, Written, encoderVars, audioVars, linkVars
  <2>6. QED
    BY <2>3, <2>4, <2>5 DEF IInv
<1>3. CASE Connected
  <2>1. /\ phase = "connecting" /\ phase' = "streaming" /\ sent' = steady
        /\ UNCHANGED <<clockVars, frames, first, last, stamp, audioVars, queueVars,
                       reconnected, base, hasAudio, muxed>>
    BY <1>3 DEF Connected
  <2>2. TypeOK'
    <3>1. sent' \in 0 .. steady
      BY <1>0, <2>1
    <3>2. QED
      BY <2>1, <3>1 DEF IInv, TypeOK, clockVars, audioVars, queueVars
  <2>3. Frames'
    <3>1. ASSUME frames > 0, ~stepped PROVE stamp <= Start + steady
      <4>1. stamp <= Start + sent
        BY <3>1 DEF IInv, Frames
      <4>2. QED
        BY <1>0, <4>1
    <3>2. QED
      BY <2>1, <3>1 DEF IInv, Frames, clockVars
  <2>4. VideoOnTime'
    BY <1>0, <2>1, EncoderUnchanged DEF clockVars
  <2>5. (Clocks /\ Links /\ Written)'
    BY <2>1 DEF IInv, Clocks, Links, Written, clockVars, audioVars
  <2>6. QED
    BY <2>2, <2>3, <2>4, <2>5 DEF IInv
<1>4. CASE ConnectFails \/ Reconfigure
  <2>1. /\ \/ phase = "connecting"
              /\ phase' = IF reconnected THEN "broken" ELSE "idle"
           \/ phase' = "idle"
        /\ UNCHANGED <<clockVars, encoderVars, audioVars, queueVars, reconnected,
                       base, hasAudio, muxed>>
    BY <1>4 DEF ConnectFails, Reconfigure
  <2>2. TypeOK'
    BY <2>1 DEF IInv, TypeOK, clockVars, encoderVars, audioVars, queueVars
  <2>3. VideoOnTime'
    BY <1>0, <2>1, EncoderUnchanged DEF clockVars, encoderVars
  <2>4. Links'
    BY <2>1 DEF IInv, Links, encoderVars, audioVars
  <2>5. (Clocks /\ Frames /\ Written)'
    BY <2>1 DEF IInv, Clocks, Frames, Written, clockVars, encoderVars, audioVars
  <2>6. QED
    BY <2>2, <2>3, <2>4, <2>5 DEF IInv
<1>5. QED
  BY <1>1, <1>2, <1>3, <1>4

LEMMA StutterPreserves ==
  ASSUME IInv, UNCHANGED vars
  PROVE  IInv'
<1> USE DEF vars, clockVars, encoderVars, audioVars, queueVars, linkVars
<1>1. TypeOK'
  BY DEF IInv, TypeOK
<1>2. VideoOnTime'
  BY EncoderUnchanged DEF IInv
<1>3. (Clocks /\ Frames /\ Links /\ Written)'
  BY DEF IInv, Clocks, Frames, Links, Written
<1>4. QED
  BY <1>1, <1>2, <1>3 DEF IInv

LEMMA NextPreserves == IInv /\ [Next]_vars => IInv'
BY FramePreserves, ConnectPreserves, ReconnectPreserves, AudioPreserves,
   OtherPreserves, StutterPreserves DEF Next

(* The inductive invariant holds in every reachable state.                 *)
THEOREM Invariance == Spec => []IInv
BY InitEstablishes, NextPreserves, PTL DEF Spec

(* Every variable keeps its type; the queue of audio keeps its limit.      *)
THEOREM TypeCorrect == Spec => []TypeOK
<1>1. IInv => TypeOK
  BY DEF IInv
<1>2. QED
  BY <1>1, Invariance, PTL

(* compute_next_pts() keeps the encoder on the clock's time: equal pts are *)
(* moved apart, and never ahead of time by more than the rounding of the   *)
(* frame interval.                                                         *)
THEOREM VideoKeepsTime == Spec => []VideoOnTime
<1>1. IInv => VideoOnTime
  BY DEF IInv
<1>2. QED
  BY <1>1, Invariance, PTL

(* A connection that was made again shows picture and sound together.      *)
THEOREM SyncAfterReconnect == Spec => []ReconnectedInSync
<1>1. IInv => ReconnectedInSync
  <2> SUFFICES ASSUME IInv, reconnected, phase = "streaming", ~stepped
               PROVE  VideoShownInTime(base) /\ (hasAudio => audioStart = base)
    BY DEF ReconnectedInSync
  <2>1. frames > 0 /\ base = first /\ (hasAudio => audioStart = base)
    BY DEF IInv, Links
  <2>2. VideoShownInTime(first)
    BY <2>1 DEF IInv, VideoOnTime
  <2>3. QED
    BY <2>1, <2>2
<1>2. QED
  BY <1>1, Invariance, PTL

(* What is written to a stream of a connection has a greater pts than what *)
(* was written before, whatever the clock does.                            *)
THEOREM WrittenInOrder == Spec => MuxerTimestampsGrow
<1>1. IInv /\ [Next]_vars =>
        [/\ SendFrame => muxed'.video > muxed.video
         /\ SendAudio /\ hasAudio => muxed'.audio > muxed.audio]_vars
  <2> SUFFICES ASSUME IInv
               PROVE  /\ SendFrame => muxed'.video > muxed.video
                      /\ SendAudio /\ hasAudio => muxed'.audio > muxed.audio
    OBVIOUS
  <2>0. /\ muxed \in [video : Nat \cup {-1}, audio : Nat \cup {-1}]
        /\ muxed.video <= last /\ (hasAudio => muxed.audio <= lastAudio)
        /\ last \in Nat \cup {-1} /\ lastAudio \in Nat \cup {-1}
    BY DEF IInv, TypeOK, Written
  <2>1. ASSUME SendFrame PROVE muxed'.video > muxed.video
    <3>1. muxed' = [muxed EXCEPT !.video = last'] /\ last' > last /\ last' \in Nat
      BY <2>1, EncodeKeepsTime DEF SendFrame
    <3>2. muxed'.video = last'
      BY <2>0, <3>1
    <3>3. QED
      BY <2>0, <3>1, <3>2
  <2>2. ASSUME SendAudio, hasAudio PROVE muxed'.audio > muxed.audio
    <3>1. muxed' = [muxed EXCEPT !.audio = lastAudio']
      BY <2>2 DEF SendAudio
    <3>2. lastAudio' > lastAudio /\ lastAudio' \in Nat
      BY <2>2, SendAudioGrows
    <3>3. muxed'.audio = lastAudio'
      BY <2>0, <3>1
    <3>4. QED
      BY <2>0, <2>2, <3>2, <3>3
  <2>3. QED
    BY <2>1, <2>2
<1>2. QED
  BY <1>1, Invariance, PTL DEF Spec, MuxerTimestampsGrow

-----------------------------------------------------------------------------
(* Audio is on time.  A packet is bumped if its stamp is not a sample      *)
(* later than that of the packet before it, as with those that a late      *)
(* capture thread finds at once.  But a packet takes longer to play than   *)
(* the sample by which it is bumped, so that in the long run no more of    *)
(* them come than time passes: at most Burst packets come in excess of the *)
(* time between the stamps of the first and the last (AudioQueue), and the *)
(* packets still to come cannot be bumped further than that (AudioSound).  *)

(* The time stamps of the last packet and of the ones to come.             *)
StampAt(q, i) == IF i = 0 THEN audioStamp ELSE q[i]

(* They come in order, and none is in the future.                          *)
InOrder(q) ==
  \A i, j \in 0 .. Len(q) : i <= j => StampAt(q, i) <= StampAt(q, j)

NotAhead(q) == \A i \in 0 .. Len(q) : StampAt(q, i) <= wall

(* The packets from the i-th to the j-th: their audio was played between   *)
(* the stamps of the two, but for what was held when the i-th came.        *)
Paced(q) ==
  \A i, j \in 1 .. Len(q) : i <= j =>
    (j - i + 1) * PacketTime
      <= (StampAt(q, j) - StampAt(q, i)) + Burst * PacketTime

(* The packets from the i-th on, and the audio that is in none yet.        *)
PacedToNow(q) ==
  \A i \in 1 .. Len(q) :
    (Len(q) - i + 1) * PacketTime + pending
      <= (wall - StampAt(q, i)) + Burst * PacketTime

AudioQueue ==
  ~stepped => /\ InOrder(backlog) /\ NotAhead(backlog)
              /\ Paced(backlog) /\ PacedToNow(backlog)

(* How late a packet with time stamp t may be.                             *)
Allowed(t) == (t - audioStart) * Rate + (stale + Burst) * Second

(* The pts that a packet j places later gets by bumps alone is not too     *)
(* late either; nor would be those of the packets yet to be made.          *)
Room(q) ==
  /\ \A j \in 0 .. Len(q) :
       (lastAudio + 1 + j) * Second <= Allowed(StampAt(q, j))
  /\ ((lastAudio + 1 + Len(q)) * PacketTime + pending) * Second
       <= Allowed(wall) * PacketTime

AudioSound ==
  ~stepped /\ lastAudio # -1 =>
    IF audioStamp < audioStart THEN lastAudio < stale
    ELSE /\ (audioStamp - audioStart) * Rate - Second < lastAudio * Second
         /\ Room(backlog)

(* The last packet is the last one written.                                *)
AudioLink ==
  phase # "idle" =>
    IF hasAudio
    THEN audioStart = base /\ (muxed.audio # -1 => muxed.audio = lastAudio)
    ELSE muxed.audio = -1

AudioInv == AudioQueue /\ AudioSound /\ AudioLink

LEMMA AudioInit == Init => AudioInv
<1> SUFFICES ASSUME Init PROVE AudioInv
  OBVIOUS
<1>1. backlog = <<>> /\ audioStamp = 0 /\ wall = Start /\ lastAudio = -1
      /\ phase = "idle" /\ Start \in Nat
  BY TimeAssumption DEF Init
<1>2. Len(backlog) = 0
  BY <1>1
<1>3. AudioQueue
  BY <1>1, <1>2
     DEF AudioQueue, InOrder, NotAhead, Paced, PacedToNow, StampAt
<1>4. QED
  BY <1>1, <1>3 DEF AudioInv, AudioSound, AudioLink

LEMMA AudioConstants ==
  /\ PacketTime \in Nat /\ PacketTime >= 1 /\ Burst \in Nat /\ Burst >= 1
  /\ Second \in Nat /\ Second >= 1 /\ Rate \in Nat /\ Rate >= 1
  /\ Burst * PacketTime \in Nat /\ Second <= PacketTime * Rate
BY TimeAssumption, ProductNat

LEMMA AudioTypes ==
  ASSUME IInv
  PROVE  /\ wall \in Int /\ pending \in Nat /\ pending <= Burst * PacketTime
         /\ audioStamp \in Int /\ audioStart \in Int /\ stale \in Nat
         /\ lastAudio \in Nat \cup {-1} /\ backlog \in Seq(Int)
         /\ Len(backlog) \in Nat
         /\ \A i \in 0 .. Len(backlog) : StampAt(backlog, i) \in Int
BY AudioConstants DEF IInv, TypeOK, StampAt

LEMMA ProductCancels ==
  ASSUME NEW a \in Int, NEW b \in Int, NEW c \in Nat, c >= 1, a * c <= b * c
  PROVE  a <= b
<1>1. SUFFICES ASSUME a >= b + 1 PROVE FALSE
  OBVIOUS
<1>2. a * c >= (b + 1) * c
  BY <1>1, ProductGrows
<1>3. (b + 1) * c = b * c + c /\ a * c \in Int /\ b * c \in Int
  OBVIOUS
<1>4. QED
  BY <1>2, <1>3

(* The queue loses its oldest packets only.                                *)
LEMMA NewestDrops ==
  ASSUME NEW q \in Seq(Int)
  PROVE  \E d \in 0 .. Len(q) :
           /\ Len(Newest(q)) = Len(q) - d
           /\ \A i \in 1 .. Len(q) - d : Newest(q)[i] = q[i + d]
<1>1. Capacity \in Nat \ {0} /\ Len(q) \in Nat
  BY TimeAssumption
<1>2. CASE Len(q) <= Capacity
  <2>1. Newest(q) = q
    BY <1>2 DEF Newest
  <2>2. QED
    BY <1>1, <2>1
<1>3. CASE ~(Len(q) <= Capacity)
  <2> DEFINE d == Len(q) - Capacity
  <2>1. d \in 0 .. Len(q) /\ d + 1 \in 1 .. Len(q)
    BY <1>1, <1>3
  <2>2. Newest(q) = SubSeq(q, d + 1, Len(q))
    BY <1>3 DEF Newest
  <2>3. /\ Len(SubSeq(q, d + 1, Len(q))) = Len(q) - d
        /\ \A i \in 1 .. Len(q) - d : SubSeq(q, d + 1, Len(q))[i] = q[i + d]
    BY <1>1, <2>1
  <2>4. QED
    BY <2>1, <2>2, <2>3
<1>4. QED
  BY <1>2, <1>3

(* The stamps after a capture: the ones before, and then the present time. *)
LEMMA CaptureAppends ==
  ASSUME IInv, CaptureAudio
  PROVE  \E n \in 1 .. Burst, d \in Nat :
           /\ n * PacketTime <= pending /\ pending' = pending - n * PacketTime
           /\ d <= Len(backlog) + n
           /\ Len(backlog') = Len(backlog) + n - d
           /\ \A j \in 1 .. Len(backlog') :
                backlog'[j] = IF j + d <= Len(backlog) THEN backlog[j + d] ELSE wall
<1>1. PICK n \in 1 .. Burst :
        /\ n * PacketTime <= pending
        /\ pending' = pending - n * PacketTime
        /\ backlog' = Newest(backlog \o [i \in 1 .. n |-> wall])
  BY DEF CaptureAudio
<1> DEFINE b == [i \in 1 .. n |-> wall]
           q == backlog \o b
<1>2. backlog \in Seq(Int) /\ wall \in Int /\ n \in Nat
  BY TimeAssumption DEF IInv, TypeOK
<1>3. b \in Seq(Int) /\ Len(b) = n
  BY <1>2
<1>4. /\ q \in Seq(Int) /\ Len(q) = Len(backlog) + n /\ Len(backlog) \in Nat
      /\ \A k \in 1 .. Len(backlog) + n :
           q[k] = IF k <= Len(backlog) THEN backlog[k] ELSE wall
  <2>1. q \in Seq(Int) /\ Len(q) = Len(backlog) + n /\ Len(backlog) \in Nat
    BY <1>2, <1>3
  <2>2. ASSUME NEW k \in 1 .. Len(backlog) + n
        PROVE  q[k] = IF k <= Len(backlog) THEN backlog[k] ELSE wall
    <3>1. CASE k <= Len(backlog)
      BY <1>2, <1>3, <2>1, <3>1
    <3>2. CASE ~(k <= Len(backlog))
      <4>1. k - Len(backlog) \in 1 .. n
        BY <1>2, <2>1, <3>2
      <4>2. b[k - Len(backlog)] = wall
        BY <4>1
      <4>3. q[k] = b[k - Len(backlog)]
        BY <1>2, <1>3, <2>1, <3>2
      <4>4. QED
        BY <3>2, <4>2, <4>3
    <3>3. QED
      BY <3>1, <3>2
  <2>3. QED
    BY <2>1, <2>2
<1> HIDE DEF q
<1>5. PICK d \in 0 .. Len(q) :
        /\ Len(Newest(q)) = Len(q) - d
        /\ \A i \in 1 .. Len(q) - d : Newest(q)[i] = q[i + d]
  BY <1>4, NewestDrops
<1>6. backlog' = Newest(q)
  BY <1>1 DEF q
<1>7. d \in Nat /\ d <= Len(backlog) + n /\ Len(backlog') = Len(backlog) + n - d
  BY <1>2, <1>4, <1>5, <1>6
<1>8. ASSUME NEW j \in 1 .. Len(backlog')
      PROVE  backlog'[j] = IF j + d <= Len(backlog) THEN backlog[j + d] ELSE wall
  <2>1. j \in 1 .. Len(q) - d /\ j + d \in 1 .. Len(backlog) + n
    BY <1>2, <1>4, <1>7, <1>8
  <2>2. backlog'[j] = q[j + d]
    BY <1>5, <1>6, <2>1
  <2>3. QED
    BY <1>4, <2>1, <2>2
<1>9. QED
  BY <1>1, <1>7, <1>8

(* What the packets of a capture add is what their audio takes away.       *)
LEMMA CaptureTakes ==
  ASSUME NEW k \in Int, NEW m \in Int, NEW n \in Nat, NEW t \in Int,
         m <= k + n, n * PacketTime <= pending, pending \in Nat,
         k * PacketTime + pending <= t
  PROVE  /\ m * PacketTime <= t
         /\ m * PacketTime + (pending - n * PacketTime) <= t
<1>1. PacketTime \in Nat
  BY AudioConstants
<1>2. (k + n) * PacketTime >= m * PacketTime
  BY <1>1, ProductGrows
<1>3. (k + n) * PacketTime = k * PacketTime + n * PacketTime
  BY <1>1
<1>4. /\ k * PacketTime \in Int /\ n * PacketTime \in Int
      /\ m * PacketTime \in Int
  BY <1>1
<1>5. QED
  BY <1>2, <1>3, <1>4

LEMMA CaptureKeepsTime ==
  ASSUME IInv, AudioQueue, AudioSound, CaptureAudio
  PROVE  AudioQueue' /\ AudioSound'
<1>1. UNCHANGED <<stepped, wall, audioStart, lastAudio, audioStamp, stale>>
  BY DEF CaptureAudio, clockVars, audioVars
<1>2. SUFFICES ASSUME ~stepped PROVE AudioQueue' /\ AudioSound'
  BY <1>1 DEF AudioQueue, AudioSound
<1>3. PICK n \in 1 .. Burst, d \in Nat :
        /\ n * PacketTime <= pending /\ pending' = pending - n * PacketTime
        /\ d <= Len(backlog) + n
        /\ Len(backlog') = Len(backlog) + n - d
        /\ \A j \in 1 .. Len(backlog') :
             backlog'[j] = IF j + d <= Len(backlog) THEN backlog[j + d] ELSE wall
  BY CaptureAppends
<1> DEFINE L == Len(backlog)
           old(i) == StampAt(backlog, i)
           new(j) == StampAt(backlog, j)'
           from(j) == IF j = 0 THEN 0 ELSE j + d
<1>4. /\ wall \in Int /\ pending \in Nat /\ pending <= Burst * PacketTime
      /\ L \in Nat /\ \A i \in 0 .. L : old(i) \in Int
  BY AudioTypes
<1>5. n \in Nat /\ n >= 1 /\ Len(backlog') \in Nat /\ Len(backlog') = L + n - d
  BY <1>3, <1>4, AudioConstants
<1>6. \A j \in 0 .. Len(backlog') :
        /\ from(j) \in 0 .. L + n
        /\ j <= from(j)
        /\ new(j) = IF from(j) <= L THEN old(from(j)) ELSE wall
  <2>1. ASSUME NEW j \in 0 .. Len(backlog'), j = 0
        PROVE  new(j) = old(0)
    BY <1>1, <2>1 DEF StampAt
  <2>2. ASSUME NEW j \in 1 .. Len(backlog')
        PROVE  new(j) = IF j + d <= L THEN old(j + d) ELSE wall
    <3>1. new(j) = backlog'[j] /\ j + d # 0
      BY <1>3 DEF StampAt
    <3>2. old(j + d) = backlog[j + d]
      BY <3>1 DEF StampAt
    <3>3. QED
      BY <1>3, <3>1, <3>2
  <2> HIDE DEF old, new
  <2>3. QED
    BY <1>3, <1>4, <1>5, <2>1, <2>2
<1>7. /\ \A i, j \in 0 .. L : i <= j => old(i) <= old(j)
      /\ \A i \in 0 .. L : old(i) <= wall
      /\ \A i, j \in 1 .. L : i <= j =>
           (j - i + 1) * PacketTime <= (old(j) - old(i)) + Burst * PacketTime
      /\ \A i \in 1 .. L :
           (L - i + 1) * PacketTime + pending
             <= (wall - old(i)) + Burst * PacketTime
  BY <1>2 DEF AudioQueue, InOrder, NotAhead, Paced, PacedToNow
<1>8. PacketTime \in Nat /\ Burst * PacketTime \in Nat
  BY AudioConstants
<1>9. ASSUME NEW i \in 0 .. Len(backlog'), NEW j \in 0 .. Len(backlog'), i <= j
      PROVE  new(i) <= new(j) /\ new(i) <= wall
  <2> HIDE DEF old, new
  <2>1. from(i) <= from(j)
    BY <1>3, <1>5, <1>9
  <2> HIDE DEF from
  <2>2. QED
    BY <1>4, <1>5, <1>6, <1>7, <2>1
<1>10. ASSUME NEW i \in 1 .. Len(backlog'), NEW j \in 1 .. Len(backlog'), i <= j
       PROVE  (j - i + 1) * PacketTime <= (new(j) - new(i)) + Burst * PacketTime
  <2> HIDE DEF L, old, new
  <2>1. /\ new(i) = IF i + d <= L THEN old(i + d) ELSE wall
        /\ new(j) = IF j + d <= L THEN old(j + d) ELSE wall
        /\ i + d \in 1 .. L + n /\ j + d \in 1 .. L + n
    BY <1>3, <1>4, <1>5, <1>6
  <2>2. CASE j + d <= L
    <3>1. /\ i + d \in 1 .. L /\ j + d \in 1 .. L /\ i + d <= j + d
          /\ (j + d) - (i + d) + 1 = j - i + 1
      BY <1>3, <1>4, <1>10, <2>1, <2>2
    <3>2. ((j + d) - (i + d) + 1) * PacketTime
            <= (old(j + d) - old(i + d)) + Burst * PacketTime
      BY <1>7, <3>1
    <3>3. QED
      BY <2>1, <3>1, <3>2
  <2>3. CASE i + d <= L /\ ~(j + d <= L)
    <3>1. i + d \in 1 .. L /\ old(i + d) \in Int
      BY <1>4, <2>1, <2>3
    <3>2. (L - (i + d) + 1) * PacketTime + pending
            <= (wall - old(i + d)) + Burst * PacketTime
      BY <1>7, <3>1
    <3> DEFINE k == L - (i + d) + 1
               t == (wall - old(i + d)) + Burst * PacketTime
    <3>3a. /\ L \in Nat /\ n \in Nat /\ d \in Nat /\ i \in Int /\ j \in Int
          /\ j + d <= L + n
      BY <1>4, <1>5, <2>1
    <3>3b. t \in Int
      <4>1. wall \in Int /\ old(i + d) \in Int /\ Burst * PacketTime \in Int
        BY <1>4, <1>8, <3>1
      <4> HIDE DEF t
      <4>2. QED
        BY <4>1 DEF t
    <3> HIDE DEF t
    <3>3. k \in Int /\ t \in Int /\ j - i + 1 \in Int /\ j - i + 1 <= k + n
      BY <3>3a, <3>3b
    <3> HIDE DEF k
    <3>4. k * PacketTime + pending <= t
      BY <3>2 DEF k, t
    <3>5. (j - i + 1) * PacketTime <= t
      BY <1>3, <1>4, <1>5, <3>3, <3>4, CaptureTakes
    <3>6. QED
      BY <2>1, <2>3, <3>5 DEF t
  <2>4. CASE ~(i + d <= L)
    <3>1. new(i) = wall /\ new(j) = wall /\ j - i + 1 \in Int /\ j - i + 1 <= 0 + n
      BY <1>3, <1>4, <1>5, <1>10, <2>1, <2>4
    <3> DEFINE k == j - i + 1
               t == Burst * PacketTime
    <3>2. 0 * PacketTime + pending <= t
      BY <1>4, <1>8
    <3>3. k \in Int /\ k <= 0 + n /\ t \in Int /\ 0 \in Int
      BY <1>8, <3>1
    <3> HIDE DEF k, t
    <3>4. k * PacketTime <= t
      BY <1>3, <1>4, <1>5, <3>2, <3>3, CaptureTakes
    <3>5. new(j) - new(i) = 0
      BY <1>4, <3>1
    <3>6. k * PacketTime <= (new(j) - new(i)) + t
      BY <3>3, <3>4, <3>5
    <3>7. QED
      BY <3>6 DEF k, t
  <2>5. QED
    BY <2>2, <2>3, <2>4
<1>11. ASSUME NEW i \in 1 .. Len(backlog')
       PROVE  (Len(backlog') - i + 1) * PacketTime + pending'
                <= (wall - new(i)) + Burst * PacketTime
  <2> DEFINE m == Len(backlog') - i + 1
             p == pending - n * PacketTime
  <2> HIDE DEF L, old, new
  <2>1. /\ new(i) = IF i + d <= L THEN old(i + d) ELSE wall
        /\ i + d \in 1 .. L + n
    BY <1>3, <1>4, <1>5, <1>6
  <2>2. m \in Int /\ m = L + n - d - i + 1
    BY <1>4, <1>5
  <2>3. pending' = p
    BY <1>3
  <2> HIDE DEF m
  <2>4. CASE i + d <= L
    <3>1. i + d \in 1 .. L /\ old(i + d) \in Int
      BY <1>4, <2>1, <2>4
    <3>2. (L - (i + d) + 1) * PacketTime + pending
            <= (wall - old(i + d)) + Burst * PacketTime
      BY <1>7, <3>1
    <3> DEFINE k == L - (i + d) + 1
               t == (wall - old(i + d)) + Burst * PacketTime
    <3>3a. L \in Nat /\ n \in Nat /\ d \in Nat /\ i \in Int
      BY <1>4, <1>5
    <3>3b. t \in Int
      <4>1. wall \in Int /\ old(i + d) \in Int /\ Burst * PacketTime \in Int
        BY <1>4, <1>8, <3>1
      <4> HIDE DEF t
      <4>2. QED
        BY <4>1 DEF t
    <3> HIDE DEF t
    <3>3. k \in Int /\ t \in Int /\ m <= k + n
      BY <2>2, <3>3a, <3>3b
    <3> HIDE DEF k
    <3>4. k * PacketTime + pending <= t
      BY <3>2 DEF k, t
    <3>5. m * PacketTime + p <= t
      BY <1>3, <1>4, <1>5, <2>2, <3>3, <3>4, CaptureTakes
    <3>6. QED
      BY <2>1, <2>3, <2>4, <3>5 DEF t, m
  <2>5. CASE ~(i + d <= L)
    <3>1. new(i) = wall /\ m <= 0 + n
      BY <1>3, <1>4, <1>5, <2>1, <2>2, <2>5
    <3> DEFINE t == Burst * PacketTime
    <3>2. 0 * PacketTime + pending <= t
      BY <1>4, <1>8
    <3>3. t \in Int /\ wall - new(i) = 0 /\ 0 \in Int
      BY <1>4, <1>8, <3>1
    <3> HIDE DEF t
    <3>4. m * PacketTime + p <= t
      BY <1>3, <1>4, <1>5, <2>2, <3>1, <3>2, <3>3, CaptureTakes
    <3> HIDE DEF p
    <3>5. m * PacketTime + p <= (wall - new(i)) + t
      BY <3>3, <3>4
    <3>6. QED
      BY <2>3, <3>5 DEF t, m
  <2>6. QED
    BY <2>4, <2>5
<1>12. AudioQueue'
  <2>1. InOrder(backlog)'
    BY <1>9 DEF InOrder
  <2>2. NotAhead(backlog)'
    BY <1>1, <1>9, <1>5 DEF NotAhead
  <2>3. Paced(backlog)'
    BY <1>10 DEF Paced
  <2>4. PacedToNow(backlog)'
    BY <1>1, <1>11 DEF PacedToNow
  <2>5. QED
    BY <2>1, <2>2, <2>3, <2>4 DEF AudioQueue
<1>13. AudioSound'
  <2>1. SUFFICES ASSUME lastAudio # -1, ~(audioStamp < audioStart)
                 PROVE  Room(backlog)'
    BY <1>1, <1>2 DEF AudioSound
  <2>2. /\ \A j \in 0 .. L : (lastAudio + 1 + j) * Second <= Allowed(old(j))
        /\ ((lastAudio + 1 + L) * PacketTime + pending) * Second
             <= Allowed(wall) * PacketTime
    BY <1>2, <2>1 DEF AudioSound, Room
  <2>3. /\ lastAudio + 1 \in Nat /\ Second \in Nat /\ PacketTime \in Nat
        /\ PacketTime >= 1 /\ Allowed(wall) \in Int
        /\ \A i \in 0 .. L : Allowed(old(i)) \in Int
    <3>1. /\ Rate \in Nat /\ Second \in Nat /\ PacketTime \in Nat
          /\ PacketTime >= 1 /\ Burst \in Nat
          /\ lastAudio \in Nat \cup {-1} /\ stale \in Nat /\ audioStart \in Int
      BY AudioConstants, AudioTypes
    <3>2. \A t \in Int : Allowed(t) \in Int
      BY <3>1 DEF Allowed
    <3> HIDE DEF L, old
    <3>3. QED
      BY <1>4, <3>1, <3>2
  <2> DEFINE A(m, p) == (lastAudio + 1 + m) * PacketTime + p
  <2>5. ASSUME NEW m \in Int, m <= L + n
        PROVE  /\ A(m, 0) <= A(L, pending)
               /\ A(m, pending - n * PacketTime) <= A(L, pending)
    <3> DEFINE k == lastAudio + 1 + L
               t == k * PacketTime + pending
    <3> HIDE DEF L
    <3>1. k \in Int /\ t \in Int /\ lastAudio + 1 + m \in Int
          /\ lastAudio + 1 + m <= k + n /\ (lastAudio + 1 + m) * PacketTime \in Int
      <4>1. /\ lastAudio + 1 \in Int /\ PacketTime \in Int /\ pending \in Int
            /\ L \in Int /\ n \in Int /\ m <= L + n
        BY <1>4, <1>5, <2>3, <2>5
      <4> DEFINE a == lastAudio + 1
      <4> HIDE DEF a
      <4>2. \A x \in Int : x * PacketTime \in Int
        BY <4>1
      <4>3. /\ a + L \in Int /\ a + m \in Int /\ a + m <= (a + L) + n
            /\ (a + L) * PacketTime + pending \in Int /\ (a + m) * PacketTime \in Int
        BY <4>1, <4>2 DEF a
      <4>4. QED
        BY <4>3 DEF a
    <3> HIDE DEF k
    <3>2. k * PacketTime + pending <= t
      BY <3>1
    <3> HIDE DEF t
    <3>3. /\ (lastAudio + 1 + m) * PacketTime <= t
          /\ (lastAudio + 1 + m) * PacketTime + (pending - n * PacketTime) <= t
      BY <1>3, <1>4, <1>5, <3>1, <3>2, CaptureTakes
    <3>4. QED
      BY <3>1, <3>3 DEF k, t
  <2> HIDE DEF A
  <2>6. ASSUME NEW m \in Int, NEW p \in Int, A(m, p) <= A(L, pending),
               A(m, p) \in Int
        PROVE  A(m, p) * Second <= Allowed(wall) * PacketTime
    <3>1. A(L, pending) \in Int
      BY <1>4, <2>3 DEF A
    <3>2. A(L, pending) * Second >= A(m, p) * Second
      BY <2>3, <2>6, <3>1, ProductGrows
    <3>3. /\ A(L, pending) * Second \in Int /\ A(m, p) * Second \in Int
          /\ Allowed(wall) * PacketTime \in Int
      BY <2>3, <2>6, <3>1
    <3>4. A(L, pending) * Second <= Allowed(wall) * PacketTime
      BY <2>2 DEF A
    <3>5. QED
      BY <3>2, <3>3, <3>4
  <2>7. ASSUME NEW j \in 0 .. Len(backlog')
        PROVE  (lastAudio + 1 + j) * Second <= Allowed(new(j))
    <3>1. /\ from(j) \in 0 .. L + n /\ j <= from(j) /\ j \in Int
          /\ new(j) = IF from(j) <= L THEN old(from(j)) ELSE wall
      BY <1>6
    <3> HIDE DEF L, old, new, from
    <3>2. CASE from(j) <= L
      <4>1. from(j) \in 0 .. L /\ from(j) \in Int
        BY <1>4, <1>5, <3>1, <3>2
      <4>2. (lastAudio + 1 + from(j)) * Second <= Allowed(old(from(j)))
        BY <2>2, <4>1
      <4>3. (lastAudio + 1 + from(j)) * Second >= (lastAudio + 1 + j) * Second
        <5>1. /\ lastAudio + 1 + from(j) \in Int /\ lastAudio + 1 + j \in Int
              /\ lastAudio + 1 + from(j) >= lastAudio + 1 + j
          BY <2>3, <3>1, <4>1
        <5>2. QED
          BY <2>3, <5>1, ProductGrows
      <4>4. /\ (lastAudio + 1 + from(j)) * Second \in Int
            /\ (lastAudio + 1 + j) * Second \in Int
            /\ Allowed(old(from(j))) \in Int
        BY <2>3, <3>1, <4>1
      <4>5. QED
        BY <3>1, <3>2, <4>2, <4>3, <4>4
    <3>3. CASE ~(from(j) <= L)
      <4> DEFINE l == lastAudio + 1 + j
      <4>1. j <= L + n /\ l \in Int
        BY <1>4, <1>5, <2>3, <3>1
      <4>2. A(j, 0) = l * PacketTime /\ A(j, 0) \in Int
        BY <2>3, <3>1, <4>1 DEF A
      <4>3. A(j, 0) <= A(L, pending)
        BY <2>5, <3>1, <4>1
      <4>4. A(j, 0) * Second <= Allowed(wall) * PacketTime
        BY <2>6, <3>1, <4>2, <4>3
      <4> HIDE DEF l
      <4>5. (l * Second) * PacketTime <= Allowed(wall) * PacketTime
        <5>1. (l * PacketTime) * Second = (l * Second) * PacketTime
          BY <2>3, <4>1
        <5>2. QED
          BY <4>2, <4>4, <5>1
      <4>6. l * Second \in Int
        BY <2>3, <4>1
      <4>7. l * Second <= Allowed(wall)
        BY <2>3, <4>5, <4>6, ProductCancels
      <4>8. QED
        BY <3>1, <3>3, <4>7 DEF l
    <3>4. QED
      BY <3>2, <3>3
  <2>8. A(Len(backlog'), pending') * Second <= Allowed(wall) * PacketTime
    <3>1. /\ Len(backlog') \in Int /\ Len(backlog') <= L + n
          /\ pending' = pending - n * PacketTime /\ pending' \in Int
      <4>1. n * PacketTime \in Int
        BY <1>5, <2>3
      <4> HIDE DEF L
      <4>2. QED
        BY <1>3, <1>4, <1>5, <4>1
    <3>2. A(Len(backlog'), pending') <= A(L, pending)
      <4> HIDE DEF L
      <4>1. QED
        BY <2>5, <3>1
    <3>3. A(Len(backlog'), pending') \in Int
      BY <2>3, <3>1 DEF A
    <3> HIDE DEF L
    <3>4. QED
      BY <2>6, <3>1, <3>2, <3>3
  <2>9. \A j \in 0 .. Len(backlog') :
          (lastAudio + 1 + j) * Second
            <= (new(j) - audioStart) * Rate + (stale + Burst) * Second
    BY <2>7 DEF Allowed
  <2>10. ((lastAudio + 1 + Len(backlog')) * PacketTime + pending') * Second
           <= ((wall - audioStart) * Rate + (stale + Burst) * Second) * PacketTime
    BY <2>8 DEF A, Allowed
  <2>11. QED
    BY <1>1, <2>9, <2>10 DEF Room, Allowed
<1>14. QED
  BY <1>12, <1>13

(* The arithmetic of a packet that starts anew: its pts is l, its time b   *)
(* since the base, and k packets with the audio h are to come with it and  *)
(* until x later.                                                          *)
LEMMA FreshHasRoom ==
  ASSUME NEW l \in Nat, NEW b \in Nat, NEW s \in Nat, NEW k \in Nat,
         NEW h \in Nat, NEW x \in Nat,
         l * Second <= b * Rate + s * Second,
         k * PacketTime + h <= x + Burst * PacketTime
  PROVE  ((l + k) * PacketTime + h) * Second
           <= ((b + x) * Rate + (s + Burst) * Second) * PacketTime
<1>1. /\ PacketTime \in Nat /\ Burst \in Nat /\ Second \in Nat /\ Rate \in Nat
      /\ Second <= PacketTime * Rate
  BY AudioConstants
<1> DEFINE u == l * Second
           v == b * Rate + s * Second
           w == k * PacketTime + h
           y == x + Burst * PacketTime
           z == PacketTime * Rate
<1>2. u \in Int /\ v \in Int /\ w \in Int /\ y \in Int /\ z \in Int
  BY <1>1
<1>3. ((l + k) * PacketTime + h) * Second = u * PacketTime + w * Second
  BY <1>1
<1>4. ((b + x) * Rate + (s + Burst) * Second) * PacketTime
        = v * PacketTime + x * z + (y - x) * Second
  BY <1>1
<1>5. (y - x) * Second = y * Second - x * Second
  BY <1>1
<1> HIDE DEF u, v, w, y, z
<1>6. v * PacketTime >= u * PacketTime
  BY <1>1, <1>2, ProductGrows DEF u, v
<1>7. y * Second >= w * Second
  BY <1>1, <1>2, ProductGrows DEF w, y
<1>8. z * x >= Second * x
  BY <1>1, <1>2, ProductGrows DEF z
<1>9. /\ u * PacketTime \in Int /\ v * PacketTime \in Int
      /\ w * Second \in Int /\ y * Second \in Int
      /\ x * Second \in Int /\ x * z \in Int
      /\ x * Second = Second * x /\ x * z = z * x
  BY <1>1, <1>2
<1>10. QED
  BY <1>3, <1>4, <1>5, <1>6, <1>7, <1>8, <1>9

LEMMA SendAudioTakes ==
  ASSUME IInv, SendAudio
  PROVE  /\ Len(backlog) \in Nat \ {0} /\ Len(backlog') = Len(backlog) - 1
         /\ audioStamp' = StampAt(backlog, 1)
         /\ \A j \in 0 .. Len(backlog') :
              /\ j + 1 \in 1 .. Len(backlog)
              /\ StampAt(backlog, j)' = StampAt(backlog, j + 1)
              /\ StampAt(backlog, j + 1) \in Int
<1>1. /\ backlog # <<>> /\ backlog' = Tail(backlog) /\ audioStamp' = Head(backlog)
      /\ backlog \in Seq(Int)
  BY DEF SendAudio, IInv, TypeOK
<1>2. /\ Len(backlog) \in Nat \ {0} /\ Head(backlog) = backlog[1]
      /\ Len(Tail(backlog)) = Len(backlog) - 1
      /\ \A j \in 1 .. Len(Tail(backlog)) : Tail(backlog)[j] = backlog[j + 1]
      /\ \A j \in 1 .. Len(backlog) : backlog[j] \in Int
  BY <1>1
<1>3. ASSUME NEW j \in 0 .. Len(backlog')
      PROVE  /\ j + 1 \in 1 .. Len(backlog)
             /\ StampAt(backlog, j)' = StampAt(backlog, j + 1)
             /\ StampAt(backlog, j + 1) \in Int
  <2>1. j \in Nat /\ j + 1 \in 1 .. Len(backlog) /\ j + 1 # 0
    BY <1>1, <1>2
  <2>2. StampAt(backlog, j + 1) = backlog[j + 1]
    BY <2>1 DEF StampAt
  <2>3. StampAt(backlog, j)' = backlog[j + 1]
    <3>1. CASE j = 0
      BY <1>1, <1>2, <3>1 DEF StampAt
    <3>2. CASE j # 0
      <4>1. j \in 1 .. Len(Tail(backlog))
        BY <1>1, <1>2, <3>2
      <4>2. StampAt(backlog, j)' = backlog'[j]
        BY <3>2 DEF StampAt
      <4>3. QED
        BY <1>1, <1>2, <4>1, <4>2
    <3>3. QED
      BY <3>1, <3>2
  <2>4. QED
    BY <1>2, <2>1, <2>2, <2>3
<1>4. QED
  BY <1>1, <1>2, <1>3 DEF StampAt

LEMMA SendAudioKeepsTime ==
  ASSUME IInv, AudioQueue, AudioSound, SendAudio
  PROVE  AudioQueue' /\ AudioSound'
<1> DEFINE L == Len(backlog)
           old(i) == StampAt(backlog, i)
           new(j) == StampAt(backlog, j)'
           b == audioStamp' - audioStart
           age == IF b < 0 THEN 0 ELSE b
           P == Scaled(age, Rate)
<1>1. /\ UNCHANGED <<stepped, wall, pending, audioStart>>
      /\ lastAudio' = Growing(P, lastAudio)
      /\ stale' = IF audioStamp' < audioStart THEN stale + 1 ELSE stale
  BY DEF SendAudio, AudioPts, clockVars
<1>2. SUFFICES ASSUME ~stepped PROVE AudioQueue' /\ AudioSound'
  BY <1>1 DEF AudioQueue, AudioSound
<1>3. /\ L \in Nat \ {0} /\ Len(backlog') = L - 1
      /\ audioStamp' = old(1)
      /\ \A j \in 0 .. Len(backlog') :
           /\ j + 1 \in 1 .. L
           /\ new(j) = old(j + 1)
           /\ old(j + 1) \in Int
  BY SendAudioTakes
<1>4. /\ wall \in Int /\ pending \in Nat /\ audioStamp \in Int
      /\ audioStart \in Int /\ stale \in Nat /\ lastAudio \in Nat \cup {-1}
      /\ \A i \in 0 .. L : old(i) \in Int
  BY AudioTypes
<1>5. /\ PacketTime \in Nat /\ PacketTime >= 1 /\ Burst \in Nat
      /\ Burst * PacketTime \in Nat
      /\ Second \in Nat /\ Second >= 1 /\ Rate \in Nat
  BY AudioConstants
<1>6. /\ \A i, j \in 0 .. L : i <= j => old(i) <= old(j)
      /\ \A i \in 0 .. L : old(i) <= wall
      /\ \A i, j \in 1 .. L : i <= j =>
           (j - i + 1) * PacketTime <= (old(j) - old(i)) + Burst * PacketTime
      /\ \A i \in 1 .. L :
           (L - i + 1) * PacketTime + pending
             <= (wall - old(i)) + Burst * PacketTime
  BY <1>2 DEF AudioQueue, InOrder, NotAhead, Paced, PacedToNow
<1>7. AudioQueue'
  <2> HIDE DEF L, old, new
  <2>1. ASSUME NEW i \in 0 .. Len(backlog'), NEW j \in 0 .. Len(backlog'), i <= j
        PROVE  new(i) <= new(j) /\ new(i) <= wall
    <3>1. /\ i + 1 \in 0 .. L /\ j + 1 \in 0 .. L /\ i + 1 <= j + 1
          /\ new(i) = old(i + 1) /\ new(j) = old(j + 1)
      BY <1>3, <2>1
    <3>2. QED
      BY <1>6, <3>1
  <2>2. ASSUME NEW i \in 1 .. Len(backlog'), NEW j \in 1 .. Len(backlog'), i <= j
        PROVE  (j - i + 1) * PacketTime <= (new(j) - new(i)) + Burst * PacketTime
    <3>1. /\ i + 1 \in 1 .. L /\ j + 1 \in 1 .. L /\ i + 1 <= j + 1
          /\ new(i) = old(i + 1) /\ new(j) = old(j + 1)
          /\ (j + 1) - (i + 1) + 1 = j - i + 1
      BY <1>3, <2>2
    <3>2. ((j + 1) - (i + 1) + 1) * PacketTime
            <= (old(j + 1) - old(i + 1)) + Burst * PacketTime
      BY <1>6, <3>1
    <3>3. QED
      BY <3>1, <3>2
  <2>3. ASSUME NEW i \in 1 .. Len(backlog')
        PROVE  (Len(backlog') - i + 1) * PacketTime + pending
                 <= (wall - new(i)) + Burst * PacketTime
    <3>1. /\ i + 1 \in 1 .. L /\ new(i) = old(i + 1)
          /\ L - (i + 1) + 1 = Len(backlog') - i + 1
      BY <1>3, <2>3
    <3>2. (L - (i + 1) + 1) * PacketTime + pending
            <= (wall - old(i + 1)) + Burst * PacketTime
      BY <1>6, <3>1
    <3>3. QED
      BY <3>1, <3>2
  <2>4. InOrder(backlog)' /\ NotAhead(backlog)'
    BY <1>1, <2>1 DEF InOrder, NotAhead, new
  <2>5. Paced(backlog)' /\ PacedToNow(backlog)'
    BY <1>1, <2>2, <2>3 DEF Paced, PacedToNow, new
  <2>6. QED
    BY <2>4, <2>5 DEF AudioQueue
<1>8. audioStamp' \in Int /\ b \in Int /\ (b < 0 <=> audioStamp' < audioStart)
  <2>1. audioStamp' \in Int
    <3> HIDE DEF L, old, new
    <3>1. 1 \in 0 .. L
      BY <1>3
    <3>2. QED
      BY <1>3, <1>4, <3>1
  <2>2. audioStart \in Int
    BY <1>4
  <2>3. \A x, y \in Int : x - y \in Int /\ (x - y < 0 <=> x < y)
    OBVIOUS
  <2>4. QED
    BY <2>1, <2>2, <2>3
<1>9. audioStamp <= audioStamp'
  <2>1. old(0) = audioStamp
    BY DEF StampAt
  <2> HIDE DEF L, old, new
  <2>2. 0 \in 0 .. L /\ 1 \in 0 .. L /\ 0 <= 1
    BY <1>3
  <2>3. QED
    BY <1>3, <1>6, <2>1, <2>2
<1>10. age \in Nat /\ (b >= 0 => age = b) /\ (b < 0 => age = 0)
  BY <1>8
<1> HIDE DEF age
<1>11. P \in Nat /\ P * Second <= age * Rate /\ age * Rate < P * Second + Second
  BY <1>5, <1>10, ScaledBounds
<1>12. age = 0 => P = 0
  <2>1. ASSUME age = 0, P >= 1 PROVE FALSE
    <3> HIDE DEF P
    <3>1. P * Second >= 1 * Second /\ age * Rate = 0
      BY <1>5, <1>11, <2>1, ProductGrows
    <3>2. QED
      BY <1>5, <1>11, <3>1
  <2>2. QED
    BY <1>11, <2>1
<1> HIDE DEF P
<1>13. /\ lastAudio' \in Nat
       /\ \/ lastAudio' = P
          \/ lastAudio' = lastAudio + 1 /\ lastAudio # -1
       /\ lastAudio' >= P
  BY <1>1, <1>4, <1>11 DEF Growing
<1>14. ASSUME audioStamp < audioStart, lastAudio # -1 PROVE lastAudio < stale
  BY <1>2, <1>14 DEF AudioSound
<1>15. ASSUME audioStamp' < audioStart PROVE lastAudio' < stale'
  <2> HIDE DEF b
  <2>1. P = 0 /\ stale' = stale + 1
    BY <1>1, <1>8, <1>10, <1>12, <1>15
  <2>2. lastAudio # -1 => lastAudio < stale
    BY <1>4, <1>8, <1>9, <1>14, <1>15
  <2>3. QED
    BY <1>4, <1>13, <2>1, <2>2
<1>16. ASSUME ~(audioStamp' < audioStart)
       PROVE  b * Rate - Second < lastAudio' * Second
  <2> HIDE DEF b
  <2>1. b \in Nat /\ age = b
    BY <1>8, <1>10, <1>16
  <2>2. lastAudio' * Second >= P * Second
    <3>1. lastAudio' \in Int /\ P \in Int /\ Second \in Nat /\ lastAudio' >= P
      BY <1>5, <1>11, <1>13
    <3>2. QED
      BY <3>1, ProductGrows
  <2>3. b * Rate \in Nat /\ P * Second \in Nat /\ lastAudio' * Second \in Nat
    BY <1>5, <1>11, <1>13, <2>1, ProductNat
  <2>4. QED
    BY <1>5, <1>11, <2>1, <2>2, <2>3
<1>17. ASSUME ~(audioStamp' < audioStart)
       PROVE  /\ \A j \in 0 .. L - 1 :
                   (lastAudio' + 1 + j) * Second <= Allowed(old(j + 1))
              /\ ((lastAudio' + L) * PacketTime + pending) * Second
                   <= Allowed(wall) * PacketTime
  <2>1. CASE lastAudio' = lastAudio + 1 /\ lastAudio # -1
             /\ ~(audioStamp < audioStart)
    <3>1. Room(backlog)
      BY <1>2, <2>1 DEF AudioSound
    <3>2. ASSUME NEW j \in 0 .. L - 1
          PROVE  (lastAudio' + 1 + j) * Second <= Allowed(old(j + 1))
      <4>1. j + 1 \in 0 .. L /\ lastAudio + 1 + (j + 1) = lastAudio' + 1 + j
        <5> HIDE DEF L
        <5>1. QED
          BY <1>3, <1>4, <2>1
      <4>2. (lastAudio + 1 + (j + 1)) * Second <= Allowed(old(j + 1))
        BY <3>1, <4>1 DEF Room
      <4>3. QED
        BY <4>1, <4>2
    <3>3. ((lastAudio + 1 + L) * PacketTime + pending) * Second
            <= Allowed(wall) * PacketTime
      BY <3>1 DEF Room
    <3>4. QED
      BY <2>1, <3>2, <3>3
  <2>2. CASE lastAudio' = P \/ lastAudio' <= stale
    <3> DEFINE l == lastAudio'
    <3>1. b \in Nat /\ l \in Nat /\ stale \in Nat /\ old(1) - audioStart = b
          /\ old(1) \in Int
      <4> HIDE DEF b, old
      <4>1. audioStamp' - audioStart = b /\ audioStamp' = old(1)
        BY <1>3 DEF b
      <4>2. QED
        BY <1>4, <1>8, <1>13, <1>17, <4>1
    <3>2. l * Second <= b * Rate + stale * Second
      <4> HIDE DEF b
      <4>1. stale * Second \in Nat /\ b * Rate \in Nat /\ l * Second \in Nat
        BY <1>5, <3>1, ProductNat
      <4>2. CASE l = P
        BY <1>8, <1>10, <1>11, <1>17, <4>1, <4>2
      <4>3. CASE l <= stale
        <5>1. stale * Second >= l * Second
          <6>1. stale \in Int /\ l \in Int /\ stale >= l
            BY <3>1, <4>3
          <6> HIDE DEF l
          <6>2. QED
            BY <1>5, <6>1, ProductGrows
        <5>2. QED
          BY <4>1, <5>1
      <4>4. QED
        BY <2>2, <4>2, <4>3
    <3> HIDE DEF b, l, L, old
    <3>3. ASSUME NEW t \in Int, old(1) <= t, NEW k \in Nat, NEW h \in Nat,
                 k * PacketTime + h <= (t - old(1)) + Burst * PacketTime
          PROVE  ((l + k) * PacketTime + h) * Second <= Allowed(t) * PacketTime
      <4> DEFINE x == t - old(1)
      <4>1. x \in Nat /\ b + x = t - audioStart
        BY <1>4, <3>1, <3>3
      <4>2. k * PacketTime + h <= x + Burst * PacketTime
        BY <3>3
      <4> HIDE DEF x
      <4>3. ((l + k) * PacketTime + h) * Second
              <= ((b + x) * Rate + (stale + Burst) * Second) * PacketTime
        BY <3>1, <3>2, <4>1, <4>2, FreshHasRoom
      <4>4. QED
        BY <4>1, <4>3 DEF Allowed
    <3>4. ASSUME NEW j \in 0 .. L - 1
          PROVE  (l + 1 + j) * Second <= Allowed(old(j + 1))
      <4> DEFINE t == old(j + 1)
                 k == j + 1
      <4>1. /\ 1 \in 1 .. L /\ j + 1 \in 1 .. L /\ 1 <= j + 1
            /\ 1 \in 0 .. L /\ j + 1 \in 0 .. L
            /\ (j + 1) - 1 + 1 = k /\ k \in Nat
        BY <1>3
      <4>2. t \in Int /\ old(1) <= t
        BY <1>4, <1>6, <4>1
      <4>3. ((j + 1) - 1 + 1) * PacketTime <= (t - old(1)) + Burst * PacketTime
        BY <1>6, <4>1
      <4> HIDE DEF t, k
      <4>4. k * PacketTime + 0 <= (t - old(1)) + Burst * PacketTime
        <5>1. k * PacketTime \in Int
          BY <1>5, <4>1
        <5>2. QED
          BY <4>1, <4>3, <5>1
      <4>5. ((l + k) * PacketTime + 0) * Second <= Allowed(t) * PacketTime
        BY <3>3, <4>1, <4>2, <4>4
      <4>6. ((l + k) * PacketTime + 0) * Second = ((l + k) * Second) * PacketTime
        BY <1>5, <3>1, <4>1
      <4>7. (l + k) * Second \in Int /\ Allowed(t) \in Int
        <5>1. (l + k) * Second \in Int
          BY <1>5, <3>1, <4>1
        <5>2. Allowed(t) \in Int
          BY <1>4, <1>5, <4>2 DEF Allowed
        <5>3. QED
          BY <5>1, <5>2
      <4>8. (l + k) * Second <= Allowed(t)
        BY <1>5, <4>5, <4>6, <4>7, ProductCancels
      <4>9. l + k = l + 1 + j
        BY <3>1, <4>1 DEF k
      <4>10. QED
        BY <4>8, <4>9 DEF t
    <3>5. ((l + L) * PacketTime + pending) * Second <= Allowed(wall) * PacketTime
      <4>1. 1 \in 1 .. L /\ 1 \in 0 .. L /\ L - 1 + 1 = L /\ L \in Nat
        BY <1>3
      <4>2. old(1) <= wall
        BY <1>6, <4>1
      <4>3. L * PacketTime + pending <= (wall - old(1)) + Burst * PacketTime
        BY <1>6, <4>1
      <4>4. QED
        BY <1>4, <3>3, <4>1, <4>2, <4>3
    <3>6. QED
      BY <3>4, <3>5 DEF l
  <2>3. QED
    <3>1. lastAudio # -1 /\ audioStamp < audioStart /\ lastAudio' = lastAudio + 1
            => lastAudio' <= stale
      BY <1>4, <1>14
    <3>2. QED
      BY <1>13, <2>1, <2>2, <3>1
<1>18. ASSUME ~(audioStamp' < audioStart) PROVE Room(backlog)'
  <2> HIDE DEF L, old, new
  <2>1. stale' = stale /\ L - 1 \in Nat /\ Len(backlog') = L - 1
    BY <1>1, <1>3, <1>18
  <2>2. \A t : Allowed(t) = (t - audioStart) * Rate + (stale + Burst) * Second
    BY DEF Allowed
  <2>3. \A j \in 0 .. Len(backlog') :
          (lastAudio' + 1 + j) * Second
            <= (new(j) - audioStart) * Rate + (stale + Burst) * Second
    BY <1>3, <1>17, <1>18, <2>1, <2>2
  <2>4. lastAudio' + 1 + Len(backlog') = lastAudio' + L
    BY <1>3, <1>13, <2>1
  <2>5. ((lastAudio' + 1 + Len(backlog')) * PacketTime + pending) * Second
          <= ((wall - audioStart) * Rate + (stale + Burst) * Second) * PacketTime
    BY <1>17, <1>18, <2>2, <2>4
  <2>6. QED
    BY <1>1, <2>1, <2>3, <2>5 DEF Room, Allowed, new
<1>19. AudioSound'
  BY <1>1, <1>15, <1>16, <1>18 DEF AudioSound
<1>20. QED
  BY <1>7, <1>19

(* While time passes, no more audio is played than that.                   *)
LEMMA TickKeepsTime ==
  ASSUME IInv, AudioQueue, AudioSound, Tick
  PROVE  AudioQueue' /\ AudioSound'
<1>1. /\ UNCHANGED <<stepped, backlog, audioStart, lastAudio, audioStamp, stale>>
      /\ wall' = wall + 1
      /\ pending' = IF pending < Burst * PacketTime THEN pending + 1 ELSE pending
  BY DEF Tick, audioVars
<1>2. SUFFICES ASSUME ~stepped PROVE AudioQueue' /\ AudioSound'
  BY <1>1 DEF AudioQueue, AudioSound
<1> DEFINE L == Len(backlog)
           old(i) == StampAt(backlog, i)
<1>3. /\ wall \in Int /\ pending \in Nat /\ audioStart \in Int /\ stale \in Nat
      /\ lastAudio \in Nat \cup {-1} /\ L \in Nat
      /\ \A i \in 0 .. L : old(i) \in Int
  BY AudioTypes
<1>4. /\ PacketTime \in Nat /\ Burst \in Nat /\ Burst * PacketTime \in Nat
      /\ Second \in Nat /\ Rate \in Nat /\ Second <= PacketTime * Rate
  BY AudioConstants
<1>5. pending' \in Int /\ pending' <= pending + 1
  BY <1>1, <1>3
<1>6. \A i \in 0 .. L : StampAt(backlog, i)' = old(i)
  BY <1>1 DEF StampAt
<1>7. AudioQueue'
  <2>1. /\ \A i \in 0 .. L : old(i) <= wall
        /\ \A i \in 1 .. L :
             (L - i + 1) * PacketTime + pending
               <= (wall - old(i)) + Burst * PacketTime
    BY <1>2 DEF AudioQueue, NotAhead, PacedToNow
  <2>2. InOrder(backlog)' /\ Paced(backlog)'
    BY <1>1, <1>2 DEF AudioQueue, InOrder, Paced, StampAt
  <2> HIDE DEF L, old
  <2>3. ASSUME NEW i \in 0 .. L PROVE old(i) <= wall'
    BY <1>1, <1>3, <2>1
  <2>4. ASSUME NEW i \in 1 .. L
        PROVE  (L - i + 1) * PacketTime + pending'
                 <= (wall' - old(i)) + Burst * PacketTime
    <3> DEFINE m == (L - i + 1) * PacketTime
    <3>1. m \in Int /\ old(i) \in Int /\ wall' - old(i) = (wall - old(i)) + 1
      <4>1. L - i + 1 \in Int /\ old(i) \in Int
        BY <1>3
      <4>2. m \in Int
        BY <1>4, <4>1
      <4> HIDE DEF m
      <4>3. QED
        BY <1>1, <1>3, <4>1, <4>2
    <3>2. m + pending <= (wall - old(i)) + Burst * PacketTime
      BY <2>1
    <3> HIDE DEF m
    <3>3. m + pending' <= (wall' - old(i)) + Burst * PacketTime
      BY <1>3, <1>4, <1>5, <3>1, <3>2
    <3>4. QED
      BY <3>3 DEF m
  <2>5. NotAhead(backlog)' /\ PacedToNow(backlog)'
    BY <1>1, <1>6, <2>3, <2>4 DEF NotAhead, PacedToNow, L
  <2>6. QED
    BY <2>2, <2>5 DEF AudioQueue
<1>8. ASSUME lastAudio # -1, ~(audioStamp < audioStart) PROVE Room(backlog)'
  <2> DEFINE a == (lastAudio + 1 + L) * PacketTime
             c == (stale + Burst) * Second
  <2>1. /\ \A j \in 0 .. L :
             (lastAudio + 1 + j) * Second <= (old(j) - audioStart) * Rate + c
        /\ (a + pending) * Second <= ((wall - audioStart) * Rate + c) * PacketTime
    BY <1>2, <1>8 DEF AudioSound, Room, Allowed
  <2>2. a \in Int /\ c \in Int
    <3> HIDE DEF L
    <3>1. lastAudio + 1 + L \in Int /\ stale + Burst \in Int
      BY <1>3, <1>4
    <3>2. QED
      BY <1>4, <3>1
  <2> HIDE DEF a, c, L, old
  <2>3. (a + pending + 1) * Second >= (a + pending') * Second
    <3>1. a + pending + 1 \in Int /\ a + pending' \in Int
          /\ a + pending + 1 >= a + pending'
      <4>1. a \in Int /\ pending \in Int
        BY <1>3, <2>2
      <4>2. \A x, y, z \in Int : y <= z + 1 =>
              x + z + 1 \in Int /\ x + y \in Int /\ x + z + 1 >= x + y
        OBVIOUS
      <4>3. QED
        BY <1>5, <4>1, <4>2
    <3>2. QED
      BY <1>4, <3>1, ProductGrows
  <2>4. (a + pending + 1) * Second = (a + pending) * Second + Second
    BY <1>3, <1>4, <2>2
  <2>5. ((wall' - audioStart) * Rate + c) * PacketTime
          = ((wall - audioStart) * Rate + c) * PacketTime + PacketTime * Rate
    BY <1>1, <1>3, <1>4, <2>2
  <2>6. /\ (a + pending) * Second \in Int /\ (a + pending') * Second \in Int
        /\ ((wall - audioStart) * Rate + c) * PacketTime \in Int
        /\ PacketTime * Rate \in Int
    BY <1>3, <1>4, <1>5, <2>2
  <2>7. (a + pending') * Second <= ((wall' - audioStart) * Rate + c) * PacketTime
    BY <1>4, <2>1, <2>3, <2>4, <2>5, <2>6
  <2>8. ASSUME NEW j \in 0 .. L
        PROVE  /\ (lastAudio + 1 + j) * Second <= (old(j) - audioStart) * Rate + c
               /\ StampAt(backlog, j)' = old(j)
    BY <1>6, <2>1
  <2>9. QED
    BY <1>1, <2>7, <2>8 DEF Room, Allowed, a, c, L
<1>9. AudioSound'
  BY <1>1, <1>2, <1>8 DEF AudioSound
<1>10. QED
  BY <1>7, <1>9

(* What leaves the queue, the clock and the last packet alone keeps both;  *)
(* a connect with audio starts the time of audio anew.                     *)
LEMMA ElsewhereKeepsTime ==
  ASSUME AudioQueue, AudioSound,
         UNCHANGED <<wall, stepped, backlog, pending, audioStamp>>,
         \/ lastAudio' = -1
         \/ UNCHANGED <<audioStart, lastAudio, stale>>
  PROVE  AudioQueue' /\ AudioSound'
<1>1. AudioQueue'
  BY DEF AudioQueue, InOrder, NotAhead, Paced, PacedToNow, StampAt
<1>2. AudioSound'
  BY DEF AudioSound, Room, Allowed, StampAt
<1>3. QED
  BY <1>1, <1>2

LEMMA AudioNext ==
  ASSUME IInv, AudioInv, [Next]_vars
  PROVE  AudioInv'
<1>1. muxed \in [video : Nat \cup {-1}, audio : Nat \cup {-1}]
  BY DEF IInv, TypeOK
<1>2. CASE CaptureAudio
  BY <1>2, CaptureKeepsTime
     DEF AudioInv, AudioLink, CaptureAudio, audioVars, linkVars
<1>3. CASE SendAudio
  <2>1. AudioQueue' /\ AudioSound'
    BY <1>3, SendAudioKeepsTime DEF AudioInv
  <2>2. /\ muxed' = IF hasAudio THEN [muxed EXCEPT !.audio = lastAudio'] ELSE muxed
        /\ UNCHANGED <<audioStart, phase, base, hasAudio>>
    BY <1>3 DEF SendAudio
  <2>3. AudioLink'
    BY <1>1, <2>2 DEF AudioInv, AudioLink
  <2>4. QED
    BY <2>1, <2>3 DEF AudioInv
<1>4. CASE SendFrame \/ SendFrameFails
  <2>1. /\ UNCHANGED <<wall, stepped, audioStart, lastAudio, audioStamp, stale,
                       backlog, pending, base, hasAudio>>
        /\ phase = "streaming" /\ phase' # "idle"
        /\ muxed' = muxed \/ muxed' = [muxed EXCEPT !.video = last']
    BY <1>4 DEF SendFrame, SendFrameFails, EncodeFrame, clockVars, audioVars, queueVars
  <2>2. muxed'.audio = muxed.audio
    BY <1>1, <2>1
  <2>3. AudioQueue' /\ AudioSound'
    BY <2>1, ElsewhereKeepsTime DEF AudioInv
  <2>4. AudioLink'
    BY <2>1, <2>2 DEF AudioInv, AudioLink
  <2>5. QED
    BY <2>3, <2>4 DEF AudioInv
<1>5. ASSUME NEW start, BeginConnect(start) PROVE AudioInv'
  <2>1. /\ UNCHANGED <<wall, stepped, backlog, pending, audioStamp>>
        /\ base' = start /\ muxed' = Nothing
        /\ IF hasAudio' THEN audioStart' = start /\ lastAudio' = -1
           ELSE UNCHANGED <<audioStart, lastAudio, stale>>
    BY <1>5 DEF BeginConnect, NoAudioPts, clockVars, queueVars
  <2>2. AudioQueue' /\ AudioSound'
    BY <2>1, ElsewhereKeepsTime DEF AudioInv
  <2>3. AudioLink'
    BY <2>1 DEF AudioLink, Nothing
  <2>4. QED
    BY <2>2, <2>3 DEF AudioInv
<1>6. CASE Connect \/ Reconnect
  BY <1>5, <1>6 DEF Connect, Reconnect
<1>7. ASSUME UNCHANGED <<audioStart, lastAudio, base, hasAudio, muxed>>,
             phase' # "idle" => phase # "idle"
      PROVE  AudioLink'
  BY <1>7 DEF AudioInv, AudioLink
<1>8. CASE Tick
  <2>1. AudioQueue' /\ AudioSound'
    BY <1>8, TickKeepsTime DEF AudioInv
  <2>2. AudioLink'
    BY <1>7, <1>8 DEF Tick, audioVars, linkVars
  <2>3. QED
    BY <2>1, <2>2 DEF AudioInv
<1>9. CASE SetClock
  <2>1. AudioQueue' /\ AudioSound'
    BY <1>9 DEF SetClock, AudioQueue, AudioSound
  <2>2. AudioLink'
    BY <1>7, <1>9 DEF SetClock, audioVars, linkVars
  <2>3. QED
    BY <2>1, <2>2 DEF AudioInv
<1>10. CASE ConnectFails \/ Connected \/ Reconfigure \/ UNCHANGED vars
  <2>1. /\ UNCHANGED <<wall, stepped, audioStart, lastAudio, audioStamp, stale,
                       backlog, pending, base, hasAudio, muxed>>
        /\ phase' # "idle" => phase # "idle"
    BY <1>10 DEF ConnectFails, Connected, Reconfigure, vars, clockVars,
       encoderVars, audioVars, queueVars, linkVars
  <2>2. AudioQueue' /\ AudioSound'
    BY <2>1, ElsewhereKeepsTime DEF AudioInv
  <2>3. AudioLink'
    BY <1>7, <2>1
  <2>4. QED
    BY <2>2, <2>3 DEF AudioInv
<1>11. QED
  BY <1>2, <1>3, <1>4, <1>6, <1>8, <1>9, <1>10 DEF Next

(* The stamps of the audio queue stay in order and paced by what was       *)
(* played, and no pts runs ahead of what its packets may.                  *)
THEOREM AudioInvariance == Spec => []AudioInv
<1>1. Init => AudioInv
  BY AudioInit
<1>2. IInv /\ AudioInv /\ [Next]_vars => AudioInv'
  BY AudioNext
<1>3. QED
  BY <1>1, <1>2, Invariance, PTL DEF Spec

(* For every sample rate, packet length, device buffer and queue: a packet *)
(* of audio is heard not before the time it was stamped with, and later    *)
(* only by what the packets older than the base and those that were found  *)
(* at once account for, however late and however often the capture thread  *)
(* runs.                                                                   *)
THEOREM AudioKeepsTime == Spec => []AudioOnTime
<1>1. IInv /\ AudioInv => AudioOnTime
  <2> SUFFICES ASSUME IInv, AudioInv, phase # "idle", muxed.audio # -1, ~stepped
               PROVE  LET rel == IF audioStamp < base THEN 0 ELSE audioStamp - base
                      IN  /\ rel * Rate - Second < muxed.audio * Second
                          /\ muxed.audio * Second
                               <= rel * Rate + (stale + Burst - 1) * Second
    BY DEF AudioOnTime
  <2>1. /\ audioStart = base /\ muxed.audio = lastAudio /\ lastAudio # -1
    BY DEF AudioInv, AudioLink
  <2>2. /\ audioStamp \in Int /\ base \in Int /\ lastAudio \in Nat /\ stale \in Nat
        /\ Len(backlog) \in Nat /\ Second \in Nat \ {0} /\ Rate \in Nat
        /\ Burst \in Nat \ {0}
    BY <2>1, TimeAssumption DEF IInv, TypeOK
  <2>3. CASE audioStamp < base
    <3>1. lastAudio < stale
      BY <2>1, <2>3 DEF AudioInv, AudioSound
    <3>2. (stale + Burst - 1) * Second >= lastAudio * Second
      BY <2>2, <3>1, ProductGrows
    <3>3. 0 * Rate = 0 /\ lastAudio * Second \in Nat
          /\ (stale + Burst - 1) * Second \in Int
      BY <2>2, ProductNat
    <3>4. QED
      BY <2>1, <2>2, <2>3, <3>2, <3>3
  <2>4. CASE ~(audioStamp < base)
    <3> DEFINE rel == audioStamp - base
    <3>1. /\ rel * Rate - Second < lastAudio * Second
          /\ (lastAudio + 1 + 0) * Second <= rel * Rate + (stale + Burst) * Second
      <4>1. 0 \in 0 .. Len(backlog) /\ StampAt(backlog, 0) = audioStamp
        BY <2>2 DEF StampAt
      <4>2. QED
        BY <2>1, <2>4, <4>1 DEF AudioInv, AudioSound, Room, Allowed
    <3>2. rel \in Int
      BY <2>2
    <3>3. lastAudio * Second <= rel * Rate + (stale + Burst - 1) * Second
      <4> HIDE DEF rel
      <4>1. (lastAudio + 1 + 0) * Second = lastAudio * Second + Second
        BY <2>2
      <4>2. (stale + Burst) * Second = (stale + Burst - 1) * Second + Second
        BY <2>2
      <4>3. /\ lastAudio * Second \in Int /\ rel * Rate \in Int
            /\ (stale + Burst - 1) * Second \in Int
        BY <2>2, <3>2
      <4>4. QED
        BY <2>2, <3>1, <4>1, <4>2, <4>3
    <3>4. QED
      BY <2>1, <2>4, <3>1, <3>3
  <2>5. QED
    BY <2>3, <2>4
<1>2. QED
  BY <1>1, Invariance, AudioInvariance, PTL

=============================================================================
