------------------------- MODULE AudioPipelineProofs -------------------------
(***************************************************************************)
(* Proofs of the safety properties of AudioPipeline, and that it           *)
(* implements AudioBroadcast, for every set of subscribers, every limit of *)
(* the queues and every number of packets in a batch.                      *)
(*                                                                         *)
(* The argument has two independent parts.  Lifecycle says which threads   *)
(* and resources exist at each step of start() and stop(); it is           *)
(* inductive by itself.  The stream is described from its source to its    *)
(* readers: captured buffers are numbered and queued in order (Captures);  *)
(* the packets that are being pushed are the last that were published      *)
(* (Batch); those who are in the list of subscribers are owed exactly what *)
(* has not been pushed to them (Members, Owed); and a queue is the end of  *)
(* what its owner was given (Queues).                                      *)
(***************************************************************************)
EXTENDS AudioPipeline, Integers, TLAPS

Lifecycle ==
  /\ device <=> life \in {"encoderInit", "undo", "live", "join", "release"}
  /\ encoder <=> life \in {"live", "join"}
  /\ worker # "off" => life \in {"live", "join"}
  /\ running => life = "live" /\ worker # "off"
  /\ capturer # "off" => device
  /\ life \in {"encoderInit", "live"} =>
       (capturer # "off" \/ hardError) /\ (capRunning \/ hardError)

(* The queue of the capture holds the last buffers, all newer than buf.    *)
Captures ==
  /\ \A i \in DOMAIN buffers : buffers[i] + Len(buffers) = captured + i
  /\ buf + Len(buffers) <= captured

(* What is pushed are the packets published last, made of buf.             *)
Batch ==
  worker = "push" =>
    /\ Len(packets) <= published
    /\ pushed < Len(packets)
    /\ serving # <<>>
    /\ \A i \in 1 .. Len(packets) :
         /\ packets[i].no + Len(packets) = published + i
         /\ packets[i].capture = buf

Distinct(q) == \A i, j \in DOMAIN q : q[i] = q[j] => i = j

Members ==
  /\ \A s \in Subscribers :
       phase[s] = "in" <=> \E i \in DOMAIN subscribers : subscribers[i] = s
  /\ Distinct(subscribers)
  /\ Distinct(serving)
  /\ \A i \in DOMAIN serving : worker = "push" => phase[serving[i]] = "in"

ToServe(s) == worker = "push" /\ \E i \in DOMAIN serving : serving[i] = s

(* Everyone has every packet, but for the batch that is being pushed.      *)
Owed ==
  \A s \in Subscribers :
    phase[s] = "in" =>
      reach[s] = IF ~ToServe(s) THEN published
                 ELSE IF s = serving[1] THEN published - Len(packets) + pushed
                 ELSE published - Len(packets)

(* q is the end of c numbered packets, in the order of capture, none made  *)
(* of a buffer newer than b.                                               *)
EndOf(q, c, b) ==
  /\ Len(q) <= c
  /\ \A i \in 1 .. Len(q) : q[i].no + Len(q) = c + i
  /\ \A i \in 1 .. Len(q) : q[i].capture <= b
  /\ \A i, j \in 1 .. Len(q) : i < j => q[i].capture <= q[j].capture

(* t was taken before what is in q.                                        *)
Before(t, q, c, b) ==
  t # None =>
    /\ t.no + Len(q) <= c
    /\ t.capture <= b
    /\ \A i \in 1 .. Len(q) : t.capture <= q[i].capture

(* A queue is the end of what its owner was given, and follows what its    *)
(* owner took last.                                                        *)
QueueOf(s) ==
  /\ EndOf(queue[s], reach[s], buf)
  /\ Before(taken[s], queue[s], reach[s], buf)
  /\ phase[s] = "new" => queue[s] = <<>> /\ taken[s] = None

Queues == \A s \in Subscribers : QueueOf(s)

IInv ==
  /\ TypeOK
  /\ Lifecycle
  /\ Captures
  /\ Batch
  /\ Members
  /\ Owed
  /\ Queues

-----------------------------------------------------------------------------
LEMMA PacketFields ==
  ASSUME NEW p \in Packet
  PROVE  p.no \in Nat /\ p.capture \in Nat /\ p # None
BY AudioAssumption DEF Packet

(* Appending to a queue with a limit: the new element is last, those       *)
(* before it are the newest of the old ones.                               *)
LEMMA BoundedAppend ==
  ASSUME NEW S, NEW q \in Seq(S), NEW p \in S, NEW limit \in Nat \ {0},
         Len(q) <= limit,
         NEW r, r = Append(IF Len(q) < limit THEN q ELSE Tail(q), p)
  PROVE  /\ r \in Seq(S) /\ Len(r) \in Nat \ {0} /\ Len(r) <= limit
         /\ r[Len(r)] = p
         /\ Len(q) < limit =>
              Len(r) = Len(q) + 1 /\ \A i \in 1 .. Len(q) : r[i] = q[i]
         /\ ~(Len(q) < limit) =>
              /\ Len(r) = Len(q)
              /\ \A i \in 1 .. Len(q) - 1 :
                   i + 1 \in 1 .. Len(q) /\ r[i] = q[i + 1]
<1>1. CASE Len(q) < limit
  BY <1>1
<1>2. CASE ~(Len(q) < limit)
  <2>1. q # <<>> /\ Len(q) = limit
    BY <1>2
  <2>2. /\ Tail(q) \in Seq(S) /\ Len(Tail(q)) = Len(q) - 1
        /\ \A i \in 1 .. Len(q) - 1 :
             Tail(q)[i] = q[i + 1] /\ i + 1 \in 1 .. Len(q)
    BY <2>1
  <2>3. r = Append(Tail(q), p)
    BY <1>2
  <2>4. Len(r) = Len(q) /\ r \in Seq(S) /\ r[Len(r)] = p
        /\ \A i \in 1 .. Len(q) - 1 : r[i] = Tail(q)[i]
    BY <2>1, <2>2, <2>3
  <2>5. QED
    BY <1>2, <2>1, <2>2, <2>4
<1>3. QED
  BY <1>1, <1>2

LEMMA TailFacts ==
  ASSUME NEW S, NEW q \in Seq(S), q # <<>>
  PROVE  /\ Head(q) = q[1] /\ Head(q) \in S /\ 1 \in DOMAIN q
         /\ Tail(q) \in Seq(S) /\ Len(Tail(q)) \in Nat /\ Len(q) \in Nat \ {0}
         /\ Len(Tail(q)) = Len(q) - 1
         /\ \A i \in DOMAIN Tail(q) : i + 1 \in DOMAIN q /\ Tail(q)[i] = q[i + 1]
OBVIOUS

-----------------------------------------------------------------------------
LEMMA InitEstablishes == Init => IInv
<1> SUFFICES ASSUME Init PROVE IInv
  OBVIOUS
<1> DEFINE Empty(q) == Len(q) = 0 /\ DOMAIN q = {}
<1>1. /\ <<>> \in Seq(Packet) /\ <<>> \in Seq(Nat) /\ <<>> \in Seq(Subscribers)
      /\ Empty(<<>>)
      /\ \A s \in Subscribers :
           /\ queue[s] = <<>> /\ reach[s] = 0 /\ taken[s] = None
           /\ phase[s] = "new"
  BY DEF Init
<1>5. TypeOK
  <2>1. /\ queue \in [Subscribers -> Seq(Packet)]
        /\ taken \in [Subscribers -> Packet \cup {None}]
        /\ reach \in [Subscribers -> Nat]
        /\ phase \in [Subscribers -> {"new", "in", "out"}]
    BY <1>1 DEF Init
  <2>2. \A s \in Subscribers : Len(queue[s]) <= Capacity
    <3>1. Len(<<>>) = 0 /\ 0 <= Capacity
      BY AudioAssumption
    <3>2. QED
      BY <1>1, <3>1
  <2>3. Len(buffers) <= CaptureLimit /\ captured \in 0 .. MaxBuffers
    BY <1>1, AudioAssumption DEF Init
  <2>4. QED
    BY <1>1, <2>1, <2>2, <2>3 DEF Init, TypeOK
<1>2. Lifecycle /\ Captures /\ Batch
  BY DEF Init, Lifecycle, Captures, Batch
<1>3. Members /\ Owed
  BY DEF Init, Members, Owed, Distinct
<1>4. Queues
  <2> SUFFICES ASSUME NEW s \in Subscribers PROVE QueueOf(s)
    BY DEF Queues
  <2>1. Len(queue[s]) = 0 /\ 1 .. Len(queue[s]) = {} /\ reach[s] = 0
    BY <1>1
  <2>2. QED
    BY <1>1, <2>1 DEF QueueOf, EndOf, Before
<1>6. QED
  BY <1>2, <1>3, <1>4, <1>5 DEF IInv

(* The first part: threads and resources.                                  *)
LEMMA LifecyclePreserved ==
  ASSUME TypeOK, Lifecycle, [Next]_vars
  PROVE  Lifecycle'
<1> USE DEF Lifecycle
<1>1. CASE Owner
  BY <1>1 DEF Owner, OpenCapture, OpenCaptureFails, OpenEncoder,
     OpenEncoderFails, Undo, Stop, ResetEncoder, Release, ReleaseDevice,
     AskCaptureToStop, WorkerJoined, captureVars, deviceVars, ownerVars
<1>2. CASE Capturer
  BY <1>2 DEF Capturer, CaptureEnds, CaptureFails, CaptureBreaks,
     CaptureWakes, CaptureBuffer, CaptureNothing, ownerVars, deviceVars
<1>3. CASE Worker
  BY <1>3 DEF Worker, WorkerEnds, WorkerSeesError, WorkerGoesOn, DeviceLost,
     WaitPop, WaitPopTimesOut, EncodeNothing, Encode, Push, ownerVars,
     captureVars, deviceVars
<1>4. CASE Screens \/ UNCHANGED vars
  BY <1>4 DEF Screens, Subscribe, TryPop, Unsubscribe, vars, ownerVars,
     captureVars, deviceVars
<1>5. QED
  BY <1>1, <1>2, <1>3, <1>4 DEF Next


-----------------------------------------------------------------------------
(* The second part, one lemma for each step that touches the stream.       *)

streamVars == <<worker, batchVars, screenVars>>

(* The invariant of the stream depends on nothing else.                    *)
LEMMA StreamUnchanged ==
  ASSUME Batch /\ Members /\ Owed /\ Queues, UNCHANGED streamVars
  PROVE  (Batch /\ Members /\ Owed /\ Queues)'
<1> USE DEF streamVars, batchVars, screenVars
<1>1. Batch' /\ Members' /\ Owed'
  BY DEF Batch, Members, Owed, Distinct, ToServe
<1>2. Queues'
  BY DEF Queues, QueueOf, EndOf, Before
<1>3. QED
  BY <1>1, <1>2

(* Moves of the pipeline thread between places where it pushes nothing.    *)
LEMMA WorkerMoves ==
  ASSUME IInv, worker # "push", worker' # "push",
         UNCHANGED <<captured, buffers, batchVars, screenVars>>
  PROVE  (Captures /\ Batch /\ Members /\ Owed /\ Queues)'
<1> USE DEF IInv, batchVars, screenVars
<1>1. Captures' /\ Batch'
  BY DEF Captures, Batch
<1>2. Members' /\ Owed'
  BY DEF Members, Owed, Distinct, ToServe
<1>3. Queues'
  BY DEF Queues, QueueOf, EndOf, Before
<1>4. QED
  BY <1>1, <1>2, <1>3

(* The parts that concern the subscribers, while buffers come and go.      *)
LEMMA ScreensUnchanged ==
  ASSUME IInv, worker # "push", worker' # "push",
         buf \in Nat, buf' \in Nat, buf <= buf',
         UNCHANGED <<packets, serving, pushed, published, screenVars>>
  PROVE  (Batch /\ Members /\ Owed /\ Queues)'
<1> USE DEF IInv, screenVars
<1>1. Batch' /\ Members' /\ Owed'
  BY DEF Batch, Members, Owed, Distinct, ToServe
<1>2. Queues'
  <2> SUFFICES ASSUME NEW s \in Subscribers PROVE QueueOf(s)'
    BY DEF Queues
  <2>1. QueueOf(s)
    BY DEF Queues
  <2>2. queue[s] \in Seq(Packet) /\ taken[s] \in Packet \cup {None}
    BY DEF TypeOK
  <2>3. \A i \in 1 .. Len(queue[s]) : queue[s][i].capture \in Nat
    BY <2>2, PacketFields
  <2>4. taken[s] # None => taken[s].capture \in Nat
    BY <2>2, PacketFields
  <2>5. QED
    BY <2>1, <2>3, <2>4 DEF QueueOf, EndOf, Before
<1>3. QED
  BY <1>1, <1>2

LEMMA BuffersKept ==
  ASSUME IInv
  PROVE  /\ buffers \in Seq(Nat) /\ Len(buffers) \in Nat
         /\ captured \in Nat /\ buf \in Nat /\ published \in Nat
BY AudioAssumption DEF IInv, TypeOK

LEMMA CaptureBufferPreserves ==
  ASSUME IInv, CaptureBuffer
  PROVE  TypeOK' /\ (Captures /\ Batch /\ Members /\ Owed /\ Queues)'
<1>0. /\ buffers \in Seq(Nat) /\ Len(buffers) \in Nat
      /\ captured \in Nat /\ buf \in Nat
  BY BuffersKept
<1>1. /\ captured' = captured + 1 /\ captured < MaxBuffers
      /\ buffers' = QueueBuffer(captured + 1)
      /\ UNCHANGED <<ownerVars, deviceVars, worker, batchVars, screenVars>>
      /\ capturer' \in {"get", "wait"}
  BY DEF CaptureBuffer
<1>2. /\ buffers' \in Seq(Nat) /\ Len(buffers') \in Nat \ {0}
      /\ Len(buffers') <= CaptureLimit
      /\ buffers'[Len(buffers')] = captured + 1
      /\ Len(buffers) < CaptureLimit =>
           /\ Len(buffers') = Len(buffers) + 1
           /\ \A i \in 1 .. Len(buffers) : buffers'[i] = buffers[i]
      /\ ~(Len(buffers) < CaptureLimit) =>
           /\ Len(buffers') = Len(buffers)
           /\ \A i \in 1 .. Len(buffers) - 1 :
                i + 1 \in 1 .. Len(buffers) /\ buffers'[i] = buffers[i + 1]
  <2>1. Len(buffers) <= CaptureLimit /\ captured + 1 \in Nat
    BY <1>0 DEF IInv, TypeOK
  <2>2. buffers' = Append(IF Len(buffers) < CaptureLimit THEN buffers
                                                        ELSE Tail(buffers),
                          captured + 1)
    BY <1>1 DEF QueueBuffer
  <2>3. CaptureLimit \in Nat \ {0}
    BY AudioAssumption
  <2>4. QED
    BY <1>0, <2>1, <2>2, <2>3, BoundedAppend
<1>3. TypeOK'
  <2>1. captured' \in 0 .. MaxBuffers
    BY <1>1, AudioAssumption, <1>0
  <2>2. QED
    BY <1>1, <1>2, <2>1 DEF IInv, TypeOK, ownerVars, deviceVars, batchVars, screenVars
<1>4. Captures'
  <2> DEFINE n == Len(buffers)
             m == Len(buffers')
  <2>0. n \in Nat /\ m \in Nat /\ captured \in Nat /\ captured' = captured + 1
    BY <1>0, <1>1, <1>2
  <2>1. ASSUME NEW i \in 1 .. m PROVE buffers'[i] + m = captured' + i
    <3>1. CASE i = m
      BY <3>1, <2>0, <1>2
    <3>2. CASE i # m /\ n < CaptureLimit
      <4>1. m = n + 1 /\ i \in 1 .. n /\ i \in Nat
        BY <3>2, <2>0, <1>2
      <4>2. buffers[i] + n = captured + i /\ buffers[i] \in Nat
        BY <4>1, <1>0 DEF IInv, Captures
      <4>3. buffers'[i] = buffers[i]
        BY <3>2, <4>1, <1>2
      <4>4. QED
        BY <4>1, <4>2, <4>3, <2>0
    <3>3. CASE i # m /\ ~(n < CaptureLimit)
      <4>1. m = n /\ i \in 1 .. n - 1 /\ i \in Nat /\ i + 1 \in 1 .. n
        BY <3>3, <2>0, <1>2
      <4>5. i + 1 \in DOMAIN buffers
        BY <4>1, <1>0
      <4>2. buffers[i + 1] + n = captured + (i + 1) /\ buffers[i + 1] \in Nat
        BY <4>5, <1>0 DEF IInv, Captures
      <4>3. buffers'[i] = buffers[i + 1]
        BY <3>3, <4>1, <1>2
      <4>4. QED
        BY <4>1, <4>2, <4>3, <2>0
    <3>4. QED
      BY <3>1, <3>2, <3>3
  <2>2. buf' = buf /\ buf \in Nat /\ buf + n <= captured
    BY <1>0, <1>1 DEF IInv, Captures, batchVars
  <2>3. DOMAIN buffers' = 1 .. m /\ m <= n + 1
    BY <1>2, <2>0
  <2>4. QED
    BY <2>0, <2>1, <2>2, <2>3 DEF Captures
<1>5. (Batch /\ Members /\ Owed /\ Queues)'
  BY <1>1, StreamUnchanged DEF streamVars, IInv, batchVars, screenVars
<1>6. QED
  BY <1>3, <1>4, <1>5

LEMMA WaitPopPreserves ==
  ASSUME IInv, WaitPop
  PROVE  TypeOK' /\ (Captures /\ Batch /\ Members /\ Owed /\ Queues)'
<1>0. /\ buffers \in Seq(Nat) /\ Len(buffers) \in Nat
      /\ captured \in Nat /\ buf \in Nat
  BY BuffersKept
<1>1. /\ worker = "pop" /\ worker' = "encode" /\ buffers # <<>>
      /\ buf' = Head(buffers) /\ buffers' = Tail(buffers)
      /\ UNCHANGED <<ownerVars, deviceVars, capturer, captured, packets, serving,
                     pushed, published, screenVars>>
  BY DEF WaitPop
<1>2. /\ Head(buffers) = buffers[1] /\ Head(buffers) \in Nat
      /\ 1 \in DOMAIN buffers
      /\ buffers' \in Seq(Nat) /\ Len(buffers) \in Nat \ {0}
      /\ Len(buffers') = Len(buffers) - 1 /\ Len(buffers') \in Nat
      /\ \A i \in DOMAIN buffers' :
           i + 1 \in DOMAIN buffers /\ buffers'[i] = buffers[i + 1]
  BY <1>1, <1>0, TailFacts
<1>3. buf' + Len(buffers') = captured /\ buf <= buf' /\ buf' \in Nat
  <2>1. buffers[1] + Len(buffers) = captured + 1 /\ buf + Len(buffers) <= captured
    BY <1>2 DEF IInv, Captures
  <2>2. buf' = buffers[1] /\ buffers[1] \in Nat
    BY <1>1, <1>2
  <2>3. Len(buffers') = Len(buffers) - 1 /\ Len(buffers) \in Nat
    BY <1>2
  <2>4. captured \in Nat /\ buf \in Nat
    BY <1>0
  <2>5. QED
    BY <2>1, <2>2, <2>3, <2>4
<1>4. Captures'
  <2>1. ASSUME NEW i \in 1 .. Len(buffers')
        PROVE  buffers'[i] + Len(buffers') = captured + i
    <3>1. i + 1 \in DOMAIN buffers /\ buffers'[i] = buffers[i + 1]
      BY <1>2
    <3>2. /\ buffers[i + 1] + Len(buffers) = captured + (i + 1)
          /\ buffers[i + 1] \in Nat
      BY <3>1, <1>0 DEF IInv, Captures
    <3>3. Len(buffers') = Len(buffers) - 1 /\ Len(buffers) \in Nat /\ captured \in Nat
      BY <1>0, <1>2
    <3>4. QED
      BY <3>1, <3>2, <3>3
  <2>4. DOMAIN buffers' = 1 .. Len(buffers')
    BY <1>2
  <2>2. buf' + Len(buffers') <= captured' /\ captured' = captured
    BY <1>0, <1>1, <1>3
  <2>3. QED
    BY <2>1, <2>2, <2>4 DEF Captures
<1>5. TypeOK'
  BY <1>1, <1>2, <1>3, AudioAssumption
     DEF IInv, TypeOK, ownerVars, deviceVars, screenVars
<1>6. (Batch /\ Members /\ Owed /\ Queues)'
  BY <1>1, <1>3, <1>0, ScreensUnchanged
<1>7. QED
  BY <1>4, <1>5, <1>6

LEMMA EncodePreserves ==
  ASSUME IInv, Encode
  PROVE  TypeOK' /\ (Captures /\ Batch /\ Members /\ Owed /\ Queues)'
<1>0. /\ published \in Nat /\ buf \in Nat /\ worker = "encode"
      /\ subscribers \in Seq(Subscribers)
      /\ reach \in [Subscribers -> Nat]
  BY BuffersKept DEF IInv, TypeOK, Encode
<1>1. PICK n \in 1 .. MaxBatch :
        /\ packets' = [i \in 1 .. n |-> [no |-> published + i, capture |-> buf]]
        /\ published' = published + n
  BY DEF Encode
<1>2. /\ serving' = subscribers /\ pushed' = 0
      /\ worker' = IF subscribers = <<>> THEN "loop" ELSE "push"
      /\ UNCHANGED <<ownerVars, captureVars, buf, screenVars>>
  BY DEF Encode
<1>3. n \in Nat /\ n > 0 /\ published' \in Nat
  BY <1>0, <1>1, AudioAssumption
<1>4. /\ packets' \in Seq(Packet) /\ Len(packets') = n
      /\ \A i \in 1 .. n :
           packets'[i].no = published + i /\ packets'[i].capture = buf
  <2>1. \A i \in 1 .. n : [no |-> published + i, capture |-> buf] \in Packet
    BY <1>0, <1>3 DEF Packet
  <2>2. QED
    BY <1>1, <1>3, <2>1
<1>5. TypeOK'
  BY <1>0, <1>2, <1>3, <1>4
     DEF IInv, TypeOK, ownerVars, captureVars, deviceVars, screenVars
<1>6. Captures' /\ Queues'
  BY <1>2 DEF IInv, Captures, Queues, QueueOf, EndOf,
            Before, captureVars, screenVars
<1>7. Batch'
  <2>1. \A i \in 1 .. n : packets'[i].no + n = published' + i
    BY <1>0, <1>1, <1>3, <1>4
  <2>2. QED
    BY <1>0, <1>1, <1>2, <1>3, <1>4, <2>1 DEF Batch
<1>8. Members'
  <2>1. \A i \in DOMAIN subscribers : phase[subscribers[i]] = "in"
    BY <1>0 DEF IInv, Members
  <2>2. QED
    BY <1>2, <2>1 DEF IInv, Members, Distinct, screenVars
<1>9. Owed'
  <2> SUFFICES ASSUME NEW s \in Subscribers, phase[s] = "in"
               PROVE  ToServe(s)' /\ reach[s] = published' - n
    BY <1>2, <1>3, <1>4 DEF Owed, screenVars
  <2>1. reach[s] = published
    BY <1>0 DEF IInv, Owed, ToServe
  <2>2. PICK i \in DOMAIN subscribers : subscribers[i] = s
    BY DEF IInv, Members
  <2>3. subscribers # <<>>
    BY <1>0, <2>2
  <2>4. QED
    BY <1>0, <1>1, <1>2, <1>3, <2>1, <2>2, <2>3 DEF ToServe
<1>10. QED
  BY <1>5, <1>6, <1>7, <1>8, <1>9

LEMMA EndOfPushed ==
  ASSUME NEW q \in Seq(Packet), NEW c \in Nat, NEW b \in Nat,
         NEW p \in Packet, p.no = c + 1, p.capture = b,
         Len(q) <= Capacity, EndOf(q, c, b)
  PROVE  EndOf(Pushed(q, p), c + 1, b)
<1> DEFINE r == Pushed(q, p)
<1>1. /\ r \in Seq(Packet) /\ Len(r) \in Nat \ {0}
      /\ r[Len(r)] = p
      /\ Len(q) < Capacity =>
           Len(r) = Len(q) + 1 /\ \A i \in 1 .. Len(q) : r[i] = q[i]
      /\ ~(Len(q) < Capacity) =>
           /\ Len(r) = Len(q)
           /\ \A i \in 1 .. Len(q) - 1 : i + 1 \in 1 .. Len(q) /\ r[i] = q[i + 1]
  BY BoundedAppend, AudioAssumption DEF Pushed
<1> HIDE DEF r
<1>2. Len(q) \in Nat /\ Len(q) <= c /\ Len(r) \in Nat
  BY <1>1 DEF EndOf
<1>3. \A i \in 1 .. Len(q) :
        /\ q[i].no \in Nat /\ q[i].capture \in Nat
        /\ q[i].no + Len(q) = c + i /\ q[i].capture <= b
  BY PacketFields DEF EndOf
<1>4. Len(r) <= c + 1
  BY <1>1, <1>2
(* Where each packet of the new queue comes from.                          *)
<1>5. ASSUME NEW i \in 1 .. Len(r), i # Len(r)
      PROVE  \E k \in 1 .. Len(q) :
               r[i] = q[k] /\ k = IF Len(q) < Capacity THEN i ELSE i + 1
  BY <1>1, <1>2, <1>5
<1>6. ASSUME NEW i \in 1 .. Len(r)
      PROVE  r[i].no + Len(r) = (c + 1) + i /\ r[i].capture <= b
  <2>0. i \in Nat
    OBVIOUS
  <2>1. CASE i = Len(r)
    <3>1. r[i] = p
      BY <1>1, <2>1
    <3>2. QED
      BY <2>1, <3>1, <1>2
  <2>2. CASE i # Len(r)
    <3>1. PICK k \in 1 .. Len(q) :
            r[i] = q[k] /\ k = IF Len(q) < Capacity THEN i ELSE i + 1
      BY <1>5, <2>2
    <3>2. /\ q[k].no \in Nat /\ q[k].no + Len(q) = c + k
          /\ q[k].capture <= b
      BY <1>3
    <3>3. r[i].no = q[k].no /\ r[i].capture = q[k].capture /\ k \in Nat
      BY <3>1
    <3>4. CASE Len(q) < Capacity
      <4>1. Len(r) = Len(q) + 1 /\ k = i
        BY <1>1, <3>1, <3>4
      <4>2. QED
        BY <1>2, <2>0, <3>2, <3>3, <4>1
    <3>5. CASE ~(Len(q) < Capacity)
      <4>1. Len(r) = Len(q) /\ k = i + 1
        BY <1>1, <3>1, <3>5
      <4>2. QED
        BY <1>2, <2>0, <3>2, <3>3, <4>1
    <3>6. QED
      BY <3>4, <3>5
  <2>3. QED
    BY <2>1, <2>2
<1>7. ASSUME NEW i \in 1 .. Len(r), NEW j \in 1 .. Len(r), i < j
      PROVE  r[i].capture <= r[j].capture
  <2>1. i # Len(r)
    BY <1>2, <1>7
  <2>2. CASE j = Len(r)
    <3>1. r[j].capture = b
      BY <1>1, <2>2
    <3>2. QED
      BY <1>6, <3>1
  <2>3. CASE j # Len(r)
    <3>1. PICK k \in 1 .. Len(q) :
            r[i] = q[k] /\ k = IF Len(q) < Capacity THEN i ELSE i + 1
      BY <1>5, <2>1
    <3>2. PICK l \in 1 .. Len(q) :
            r[j] = q[l] /\ l = IF Len(q) < Capacity THEN j ELSE j + 1
      BY <1>5, <2>3
    <3>3. k < l
      BY <1>2, <1>7, <3>1, <3>2
    <3>4. QED
      BY <3>1, <3>2, <3>3 DEF EndOf
  <2>4. QED
    BY <2>2, <2>3
<1>8. EndOf(r, c + 1, b)
  BY <1>4, <1>6, <1>7 DEF EndOf
<1>9. QED
  BY <1>8 DEF r

LEMMA BeforePushed ==
  ASSUME NEW q \in Seq(Packet), NEW c \in Nat, NEW b \in Nat,
         NEW p \in Packet, p.capture = b, NEW t \in Packet \cup {None},
         Len(q) <= Capacity, Before(t, q, c, b)
  PROVE  Before(t, Pushed(q, p), c + 1, b)
<1> DEFINE r == Pushed(q, p)
<1>1. /\ Len(r) \in Nat \ {0} /\ r[Len(r)] = p
      /\ Len(q) < Capacity =>
           Len(r) = Len(q) + 1 /\ \A i \in 1 .. Len(q) : r[i] = q[i]
      /\ ~(Len(q) < Capacity) =>
           /\ Len(r) = Len(q)
           /\ \A i \in 1 .. Len(q) - 1 : i + 1 \in 1 .. Len(q) /\ r[i] = q[i + 1]
  BY BoundedAppend, AudioAssumption DEF Pushed
<1> HIDE DEF r
<1>2. Len(q) \in Nat
  OBVIOUS
<1>3. ASSUME t # None
      PROVE  /\ t.no + Len(r) <= c + 1
             /\ t.capture <= b
             /\ \A i \in 1 .. Len(r) : t.capture <= r[i].capture
  <2>1. /\ t.no \in Nat /\ t.no + Len(q) <= c /\ t.capture <= b
        /\ \A i \in 1 .. Len(q) : t.capture <= q[i].capture
    BY <1>3, PacketFields DEF Before
  <2>2. Len(r) <= Len(q) + 1
    BY <1>1, <1>2
  <2>3. t.no + Len(r) <= c + 1
    BY <1>1, <1>2, <2>1, <2>2
  <2>4. ASSUME NEW i \in 1 .. Len(r) PROVE t.capture <= r[i].capture
    <3>1. CASE i = Len(r)
      BY <1>1, <2>1, <3>1
    <3>2. CASE i # Len(r)
      <4>1. \E k \in 1 .. Len(q) : r[i] = q[k]
        BY <1>1, <1>2, <3>2
      <4>2. QED
        BY <2>1, <4>1
    <3>3. QED
      BY <3>1, <3>2
  <2>5. QED
    BY <2>1, <2>3, <2>4
<1>4. QED
  BY <1>3 DEF Before, r

(* The queue that gets a packet: the next one, made of the newest buffer.  *)
LEMMA PushKeepsQueue ==
  ASSUME IInv, NEW s \in Subscribers, NEW p \in Packet,
         p.no = reach[s] + 1, p.capture = buf, phase[s] = "in",
         queue' = [queue EXCEPT ![s] = Pushed(@, p)],
         reach' = [reach EXCEPT ![s] = p.no],
         UNCHANGED <<buf, phase, taken>>
  PROVE  /\ queue' \in [Subscribers -> Seq(Packet)]
         /\ \A t \in Subscribers : Len(queue'[t]) <= Capacity
         /\ Queues'
<1>1. /\ queue \in [Subscribers -> Seq(Packet)] /\ queue[s] \in Seq(Packet)
      /\ reach \in [Subscribers -> Nat] /\ reach[s] \in Nat
      /\ \A t \in Subscribers : Len(queue[t]) <= Capacity
      /\ taken[s] \in Packet \cup {None}
      /\ buf \in Nat /\ Capacity \in Nat \ {0}
      /\ QueueOf(s)
  BY AudioAssumption DEF IInv, TypeOK, Queues
<1> DEFINE r == Pushed(queue[s], p)
<1>2. r \in Seq(Packet) /\ Len(r) <= Capacity
  BY <1>1, BoundedAppend DEF Pushed
<1>3. EndOf(r, reach[s] + 1, buf) /\ Before(taken[s], r, reach[s] + 1, buf)
  BY <1>1, EndOfPushed, BeforePushed DEF QueueOf
<1> HIDE DEF r
<1>4. /\ queue'[s] = r /\ reach'[s] = reach[s] + 1
      /\ \A t \in Subscribers \ {s} : queue'[t] = queue[t] /\ reach'[t] = reach[t]
      /\ queue' \in [Subscribers -> Seq(Packet)]
      /\ UNCHANGED <<buf, phase, taken>>
  BY <1>1, <1>2 DEF r
<1>5. \A t \in Subscribers : Len(queue'[t]) <= Capacity
  BY <1>1, <1>2, <1>4
<1>6. ASSUME NEW t \in Subscribers PROVE QueueOf(t)'
  <2>1. CASE t = s
    BY <1>3, <1>4, <2>1 DEF QueueOf, EndOf, Before
  <2>2. CASE t # s
    <3>1. /\ queue'[t] = queue[t] /\ reach'[t] = reach[t]
          /\ buf' = buf /\ phase' = phase /\ taken' = taken
      BY <1>4, <2>2
    <3>2. QueueOf(t)
      BY DEF IInv, Queues
    <3>3. QED
      BY <3>1, <3>2 DEF QueueOf, EndOf, Before
  <2>3. QED
    BY <2>1, <2>2
<1>7. QED
  BY <1>4, <1>5, <1>6 DEF Queues

(* The packet that is pushed is the next one for the subscriber.           *)
LEMMA PushNext ==
  ASSUME IInv, Push
  PROVE  /\ worker = "push" /\ published \in Nat /\ pushed \in Nat
         /\ Len(packets) \in Nat /\ packets \in Seq(Packet)
         /\ serving \in Seq(Subscribers) /\ serving # <<>>
         /\ reach \in [Subscribers -> Nat] /\ queue \in [Subscribers -> Seq(Packet)]
         /\ Len(packets) <= published /\ pushed < Len(packets)
         /\ serving[1] = Head(serving) /\ serving[1] \in Subscribers
         /\ ToServe(serving[1]) /\ phase[serving[1]] = "in"
         /\ reach[serving[1]] = published - Len(packets) + pushed
         /\ packets[pushed + 1] \in Packet
         /\ packets[pushed + 1].no = reach[serving[1]] + 1
         /\ packets[pushed + 1].capture = buf
<1> DEFINE s == serving[1]
           p == packets[pushed + 1]
<1>0. /\ worker = "push" /\ published \in Nat /\ pushed \in Nat
      /\ Len(packets) \in Nat /\ packets \in Seq(Packet)
      /\ serving \in Seq(Subscribers) /\ serving # <<>>
      /\ reach \in [Subscribers -> Nat] /\ queue \in [Subscribers -> Seq(Packet)]
      /\ buf \in Nat /\ Len(packets) <= published /\ pushed < Len(packets)
  BY BuffersKept DEF IInv, TypeOK, Push, Batch
<1>1. /\ s = Head(serving) /\ s \in Subscribers /\ 1 \in DOMAIN serving
      /\ Tail(serving) \in Seq(Subscribers) /\ Len(serving) \in Nat \ {0}
      /\ Len(Tail(serving)) = Len(serving) - 1
      /\ \A i \in DOMAIN Tail(serving) :
           i + 1 \in DOMAIN serving /\ Tail(serving)[i] = serving[i + 1]
  BY <1>0, TailFacts
<1>3. ToServe(s) /\ phase[s] = "in"
  BY <1>0, <1>1 DEF ToServe, IInv, Members
<1>4. reach[s] = published - Len(packets) + pushed
  BY <1>1, <1>3 DEF IInv, Owed
<1>5. p \in Packet /\ p.no = reach[s] + 1 /\ p.capture = buf
  <2>1. pushed + 1 \in 1 .. Len(packets)
    BY <1>0
  <2>2. p \in Packet /\ p.no + Len(packets) = published + (pushed + 1) /\ p.capture = buf
    BY <1>0, <2>1 DEF IInv, Batch
  <2> HIDE DEF p
  <2>3. p.no \in Nat
    BY <2>2, PacketFields
  <2>4. published \in Nat /\ pushed \in Nat /\ Len(packets) \in Nat
    BY <1>0
  <2>5. p.no = reach[s] + 1
    BY <1>4, <2>2, <2>3, <2>4
  <2>6. QED
    BY <2>2, <2>5
<1>6. QED
  BY <1>0, <1>1, <1>3, <1>4, <1>5

LEMMA PushPreserves ==
  ASSUME IInv, Push
  PROVE  TypeOK' /\ (Captures /\ Batch /\ Members /\ Owed /\ Queues)'
<1> DEFINE s == serving[1]
           p == packets[pushed + 1]
           more == pushed + 1 < Len(packets)
<1>0. /\ worker = "push" /\ published \in Nat /\ pushed \in Nat
      /\ Len(packets) \in Nat /\ packets \in Seq(Packet)
      /\ serving \in Seq(Subscribers) /\ serving # <<>>
      /\ reach \in [Subscribers -> Nat]
      /\ Len(packets) <= published /\ pushed < Len(packets)
  BY PushNext
<1>1. /\ s = Head(serving) /\ s \in Subscribers /\ 1 \in DOMAIN serving
      /\ Tail(serving) \in Seq(Subscribers) /\ Len(serving) \in Nat \ {0}
      /\ Len(Tail(serving)) = Len(serving) - 1
      /\ \A i \in DOMAIN Tail(serving) :
           i + 1 \in DOMAIN serving /\ Tail(serving)[i] = serving[i + 1]
  BY <1>0, TailFacts
<1>2. /\ queue' = [queue EXCEPT ![s] = Pushed(@, p)]
      /\ reach' = [reach EXCEPT ![s] = p.no]
      /\ UNCHANGED <<ownerVars, captureVars, buf, packets, published, phase,
                     subscribers, taken>>
      /\ more => pushed' = pushed + 1 /\ UNCHANGED <<serving, worker>>
      /\ ~more => /\ pushed' = 0 /\ serving' = Tail(serving)
                  /\ worker' = IF Len(serving) = 1 THEN "loop" ELSE "push"
  BY <1>1 DEF Push
<1>3. ToServe(s) /\ phase[s] = "in"
  BY PushNext
<1>4. reach[s] = published - Len(packets) + pushed
  BY PushNext
<1>5. p \in Packet /\ p.no = reach[s] + 1 /\ p.capture = buf
  BY PushNext
<1> HIDE DEF p
<1>6. /\ queue' \in [Subscribers -> Seq(Packet)]
      /\ \A t \in Subscribers : Len(queue'[t]) <= Capacity
      /\ Queues'
  BY <1>1, <1>2, <1>3, <1>5, PushKeepsQueue
<1>7. TypeOK'
  <2>1. reach' \in [Subscribers -> Nat]
    BY <1>0, <1>1, <1>2, <1>5, PacketFields
  <2>2. pushed' \in Nat /\ serving' \in Seq(Subscribers)
        /\ worker' \in {"loop", "push"}
    <3>1. CASE more
      <4>1. pushed' = pushed + 1 /\ serving' = serving /\ worker' = worker
        BY <1>2, <3>1
      <4>2. QED
        BY <1>0, <4>1
    <3>2. CASE ~more
      <4>1. /\ pushed' = 0 /\ serving' = Tail(serving)
            /\ worker' = IF Len(serving) = 1 THEN "loop" ELSE "push"
        BY <1>2, <3>2
      <4>2. QED
        BY <1>1, <4>1
    <3>3. QED
      BY <3>1, <3>2
  <2>3. QED
    BY <1>2, <1>6, <2>1, <2>2 DEF IInv, TypeOK, ownerVars, captureVars, deviceVars
<1>8. Captures'
  BY <1>2 DEF IInv, Captures, captureVars
<1>9. Batch'
  <2>1. worker' = "push" => serving' # <<>> /\ pushed' < Len(packets)
    BY <1>0, <1>1, <1>2
  <2>2. \A i \in 1 .. Len(packets) :
          packets[i].no + Len(packets) = published + i /\ packets[i].capture = buf
    BY <1>0 DEF IInv, Batch
  <2>3. QED
    BY <1>0, <1>2, <2>1, <2>2 DEF Batch
<1>10. Distinct(serving) /\ \A i \in DOMAIN serving : phase[serving[i]] = "in"
  BY <1>0 DEF IInv, Members
<1>11. /\ Distinct(Tail(serving))
       /\ \A i \in DOMAIN Tail(serving) : Tail(serving)[i] # s
  BY <1>1, <1>10 DEF Distinct
<1>12. Members'
  <2>1. /\ Distinct(serving')
        /\ \A i \in DOMAIN serving' : phase[serving'[i]] = "in"
    <3>1. \A i \in DOMAIN Tail(serving) : phase[Tail(serving)[i]] = "in"
      BY <1>1, <1>10
    <3>2. serving' = serving \/ serving' = Tail(serving)
      BY <1>2
    <3>3. QED
      BY <1>10, <1>11, <3>1, <3>2
  <2>2. QED
    BY <1>2, <2>1 DEF IInv, Members, Distinct
<1>13. Owed'
  <2> SUFFICES ASSUME NEW t \in Subscribers, phase[t] = "in"
               PROVE  reach'[t] = IF ~ToServe(t)' THEN published
                                  ELSE IF t = serving'[1]
                                       THEN published - Len(packets) + pushed'
                                       ELSE published - Len(packets)
    BY <1>2 DEF Owed
  <2>1. reach[t] = IF ~ToServe(t) THEN published
                   ELSE IF t = s THEN published - Len(packets) + pushed
                   ELSE published - Len(packets)
    BY DEF IInv, Owed
  <2>2. reach'[s] = published - Len(packets) + pushed + 1
    BY <1>0, <1>1, <1>2, <1>4, <1>5
  <2>3. t # s => reach'[t] = reach[t]
    BY <1>0, <1>2
  <2>4. CASE more
    <3>1. serving' = serving /\ worker' = worker /\ pushed' = pushed + 1
      BY <1>2, <2>4
    <3>2. ToServe(t)' = ToServe(t)
      BY <3>1 DEF ToServe
    <3>3. QED
      BY <1>0, <1>3, <2>1, <2>2, <2>3, <3>1, <3>2
  <2>5. CASE ~more
    <3>1. serving' = Tail(serving) /\ pushed' = 0
          /\ worker' = IF Len(serving) = 1 THEN "loop" ELSE "push"
      BY <1>2, <2>5
    <3>2. pushed + 1 = Len(packets)
      BY <1>0, <2>5
    <3>3. CASE t = s
      <4>1. ~ToServe(t)'
        BY <1>11, <3>1, <3>3 DEF ToServe
      <4>2. QED
        BY <1>0, <2>2, <3>2, <3>3, <4>1
    <3>4. CASE t # s
      <4>1. ToServe(t)' => ToServe(t)
        BY <1>0, <1>1, <3>1 DEF ToServe
      <4>2. ToServe(t) => ToServe(t)'
        <5>1. SUFFICES ASSUME NEW i \in DOMAIN serving, serving[i] = t
                       PROVE  ToServe(t)'
          BY DEF ToServe
        <5>2. /\ i \in 1 .. Len(serving) /\ i # 1
          BY <1>0, <3>4, <5>1
        <5>3. i - 1 \in DOMAIN Tail(serving) /\ (i - 1) + 1 = i
          BY <1>0, <1>1, <5>2
        <5>4. Tail(serving)[i - 1] = t
          BY <1>1, <5>1, <5>3
        <5>5. Len(serving) # 1
          BY <5>2
        <5>6. QED
          BY <3>1, <5>3, <5>4, <5>5 DEF ToServe
      <4>3. QED
        BY <1>0, <2>1, <2>3, <3>1, <3>4, <4>1, <4>2
    <3>5. QED
      BY <3>3, <3>4
  <2>6. QED
    BY <2>4, <2>5
<1>14. QED
  BY <1>6, <1>7, <1>8, <1>9, <1>12, <1>13

LEMMA SubscribePreserves ==
  ASSUME IInv, NEW s \in Subscribers, Subscribe(s)
  PROVE  TypeOK' /\ (Captures /\ Batch /\ Members /\ Owed /\ Queues)'
<1>1. /\ worker # "push" /\ phase[s] = "new"
      /\ phase' = [phase EXCEPT ![s] = "in"]
      /\ subscribers' = Append(subscribers, s)
      /\ reach' = [reach EXCEPT ![s] = published]
      /\ UNCHANGED <<ownerVars, captureVars, worker, batchVars, queue, taken>>
  BY DEF Subscribe, MayJoin, MutexFree
<1>2. /\ phase \in [Subscribers -> {"new", "in", "out"}]
      /\ reach \in [Subscribers -> Nat] /\ published \in Nat
      /\ subscribers \in Seq(Subscribers)
  BY DEF IInv, TypeOK
<1>3. TypeOK'
  <2>1. subscribers' \in Seq(Subscribers) /\ reach' \in [Subscribers -> Nat]
        /\ phase' \in [Subscribers -> {"new", "in", "out"}]
    BY <1>1, <1>2
  <2>2. QED
    BY <1>1, <2>1 DEF IInv, TypeOK, ownerVars, captureVars, deviceVars, batchVars
<1>4. Captures' /\ Batch'
  BY <1>1 DEF IInv, Captures, Batch, captureVars, batchVars
<1>5. Members'
  <2>1. \A i \in DOMAIN subscribers : subscribers[i] # s
    BY <1>1 DEF IInv, Members
  <2>2. /\ DOMAIN subscribers' = 1 .. Len(subscribers) + 1
        /\ DOMAIN subscribers = 1 .. Len(subscribers) /\ Len(subscribers) \in Nat
        /\ subscribers'[Len(subscribers) + 1] = s
        /\ \A i \in DOMAIN subscribers : subscribers'[i] = subscribers[i]
    BY <1>1, <1>2
  <2>3. \A i \in DOMAIN subscribers' :
          i \in DOMAIN subscribers \/ i = Len(subscribers) + 1
    BY <2>2
  <2>4. Distinct(subscribers')
    BY <2>1, <2>2, <2>3 DEF IInv, Members, Distinct
  <2>5. ASSUME NEW t \in Subscribers
        PROVE  phase'[t] = "in" <=> \E i \in DOMAIN subscribers' : subscribers'[i] = t
    <3>1. CASE t = s
      <4>1. phase'[s] = "in"
        BY <1>1, <1>2
      <4>2. Len(subscribers) + 1 \in DOMAIN subscribers'
        BY <2>2
      <4>3. QED
        BY <2>2, <3>1, <4>1, <4>2
    <3>2. CASE t # s
      <4>1. phase'[t] = phase[t]
        BY <1>1, <1>2, <3>2
      <4>2. phase[t] = "in" <=> \E i \in DOMAIN subscribers : subscribers[i] = t
        BY DEF IInv, Members
      <4>3. ASSUME NEW i \in DOMAIN subscribers, subscribers[i] = t
            PROVE  i \in DOMAIN subscribers' /\ subscribers'[i] = t
        BY <2>2, <4>3
      <4>4. ASSUME NEW i \in DOMAIN subscribers', subscribers'[i] = t
            PROVE  i \in DOMAIN subscribers /\ subscribers[i] = t
        BY <2>2, <2>3, <3>2, <4>4
      <4>5. (\E i \in DOMAIN subscribers : subscribers[i] = t)
              <=> \E i \in DOMAIN subscribers' : subscribers'[i] = t
        BY <4>3, <4>4, Zenon
      <4>6. QED
        BY <4>1, <4>2, <4>5, Zenon
    <3>3. QED
      BY <3>1, <3>2
  <2>6. Distinct(serving') /\ worker' # "push"
    BY <1>1 DEF IInv, Members, Distinct, batchVars
  <2>7. QED
    BY <2>4, <2>5, <2>6 DEF Members
<1>6. Owed'
  <2> SUFFICES ASSUME NEW t \in Subscribers, phase'[t] = "in"
               PROVE  reach'[t] = published
    BY <1>1 DEF Owed, ToServe, batchVars
  <2>1. CASE t = s
    BY <1>1, <1>2, <2>1
  <2>2. CASE t # s
    BY <1>1, <1>2, <2>2 DEF IInv, Owed, ToServe
  <2>3. QED
    BY <2>1, <2>2
<1>7. Queues'
  <2> SUFFICES ASSUME NEW t \in Subscribers PROVE QueueOf(t)'
    BY DEF Queues
  <2>0. QueueOf(t) /\ queue' = queue /\ taken' = taken /\ buf' = buf
    BY <1>1 DEF IInv, Queues, batchVars
  <2>1. CASE t = s
    <3>1. queue[s] = <<>> /\ taken[s] = None
      BY <1>1, <2>0, <2>1 DEF QueueOf
    <3>2. Len(queue[s]) = 0 /\ reach'[s] \in Nat /\ phase'[s] = "in"
      BY <1>1, <1>2, <3>1
    <3>3. EndOf(queue[s], reach'[s], buf)
      BY <3>2 DEF EndOf
    <3>4. QED
      BY <2>0, <2>1, <3>1, <3>2, <3>3 DEF QueueOf, EndOf, Before
  <2>2. CASE t # s
    <3>1. reach'[t] = reach[t] /\ phase'[t] = phase[t]
      BY <1>1, <1>2, <2>2
    <3>2. QED
      BY <2>0, <3>1 DEF QueueOf, EndOf, Before
  <2>3. QED
    BY <2>1, <2>2
<1>8. QED
  BY <1>3, <1>4, <1>5, <1>6, <1>7

(* A packet taken from a queue leaves the end of what was given.           *)
LEMMA EndOfTail ==
  ASSUME NEW q \in Seq(Packet), q # <<>>, NEW c \in Nat, NEW b \in Nat,
         EndOf(q, c, b)
  PROVE  EndOf(Tail(q), c, b) /\ Before(q[1], Tail(q), c, b)
<1> DEFINE r == Tail(q)
<1>1. /\ q[1] \in Packet
      /\ r \in Seq(Packet) /\ Len(q) \in Nat \ {0} /\ Len(r) \in Nat
      /\ Len(r) = Len(q) - 1
      /\ \A i \in 1 .. Len(r) : i + 1 \in 1 .. Len(q) /\ r[i] = q[i + 1]
  BY TailFacts
<1> HIDE DEF r
<1>2. \A i \in 1 .. Len(q) :
        q[i].no \in Nat /\ q[i].capture \in Nat /\ q[i].no + Len(q) = c + i
        /\ q[i].capture <= b
  BY PacketFields DEF EndOf
<1>3. EndOf(r, c, b)
  <2>1. ASSUME NEW i \in 1 .. Len(r)
        PROVE  r[i].no + Len(r) = c + i /\ r[i].capture <= b
    <3>1. PICK k \in 1 .. Len(q) : k = i + 1 /\ r[i] = q[k]
      BY <1>1
    <3>2. q[k].no \in Nat /\ q[k].no + Len(q) = c + k /\ q[k].capture <= b
      BY <1>2
    <3>3. r[i].no = q[k].no /\ r[i].capture = q[k].capture /\ i \in Nat
      BY <3>1
    <3>4. Len(q) \in Nat /\ Len(r) \in Nat /\ Len(q) = Len(r) + 1
      BY <1>1
    <3>5. q[k].no + Len(q) = c + (i + 1)
      BY <3>1, <3>2
    <3>6. r[i].no \in Nat /\ r[i].no + Len(q) = c + (i + 1) /\ r[i].capture <= b
      BY <3>2, <3>3, <3>5
    <3>7. r[i].no + Len(r) = c + i
      BY <3>3, <3>4, <3>6, SMTT(30)
    <3>8. QED
      BY <3>6, <3>7
  <2>2. ASSUME NEW i \in 1 .. Len(r), NEW j \in 1 .. Len(r), i < j
        PROVE  r[i].capture <= r[j].capture
    <3>1. PICK k \in 1 .. Len(q) : k = i + 1 /\ r[i] = q[k]
      BY <1>1
    <3>2. PICK l \in 1 .. Len(q) : l = j + 1 /\ r[j] = q[l]
      BY <1>1
    <3>3. k < l
      BY <2>2, <3>1, <3>2
    <3>4. QED
      BY <3>1, <3>2, <3>3 DEF EndOf
  <2>3. Len(r) <= c
    BY <1>1 DEF EndOf
  <2>4. QED
    BY <2>1, <2>2, <2>3 DEF EndOf
<1>4. Before(q[1], r, c, b)
  <2>1. 1 \in 1 .. Len(q)
    BY <1>1
  <2>2. q[1].no \in Nat /\ q[1].no + Len(q) = c + 1 /\ q[1].capture <= b
    BY <1>2, <2>1
  <2>3. q[1].no + Len(r) <= c
    BY <1>1, <2>2
  <2>4. ASSUME NEW i \in 1 .. Len(r) PROVE q[1].capture <= r[i].capture
    <3>1. PICK k \in 1 .. Len(q) : k = i + 1 /\ r[i] = q[k]
      BY <1>1
    <3>2. 1 < k
      BY <3>1
    <3>3. QED
      BY <2>1, <3>1, <3>2 DEF EndOf
  <2>5. QED
    BY <2>2, <2>3, <2>4 DEF Before
<1>5. QED
  BY <1>3, <1>4 DEF r

LEMMA TryPopPreserves ==
  ASSUME IInv, NEW s \in Subscribers, TryPop(s)
  PROVE  TypeOK' /\ (Captures /\ Batch /\ Members /\ Owed /\ Queues)'
<1>1. /\ queue[s] # <<>> /\ phase[s] = "in"
      /\ taken' = [taken EXCEPT ![s] = Head(queue[s])]
      /\ queue' = [queue EXCEPT ![s] = Tail(@)]
      /\ UNCHANGED <<ownerVars, captureVars, worker, batchVars, phase, subscribers,
                     reach>>
  BY DEF TryPop
<1>2. /\ queue \in [Subscribers -> Seq(Packet)] /\ queue[s] \in Seq(Packet)
      /\ taken \in [Subscribers -> Packet \cup {None}]
      /\ reach[s] \in Nat /\ buf \in Nat
      /\ \A t \in Subscribers : Len(queue[t]) <= Capacity
      /\ Capacity \in Nat /\ QueueOf(s)
  BY AudioAssumption DEF IInv, TypeOK, Queues
<1> DEFINE q == queue[s]
           r == Tail(queue[s])
<1>3. /\ Head(q) = q[1] /\ q[1] \in Packet
      /\ r \in Seq(Packet) /\ Len(q) \in Nat \ {0} /\ Len(r) \in Nat
      /\ Len(r) = Len(q) - 1
      /\ \A i \in 1 .. Len(r) : i + 1 \in 1 .. Len(q) /\ r[i] = q[i + 1]
  BY <1>1, <1>2, TailFacts
<1>4. /\ queue'[s] = r /\ taken'[s] = q[1]
      /\ \A t \in Subscribers \ {s} : queue'[t] = queue[t] /\ taken'[t] = taken[t]
      /\ queue' \in [Subscribers -> Seq(Packet)]
      /\ taken' \in [Subscribers -> Packet \cup {None}]
  BY <1>1, <1>2, <1>3
<1>5. TypeOK'
  <2>1. \A t \in Subscribers : Len(queue'[t]) <= Capacity
    BY <1>2, <1>3, <1>4, SMTT(30)
  <2>2. QED
    BY <1>1, <1>4, <2>1 DEF IInv, TypeOK, ownerVars, captureVars, deviceVars, batchVars
<1>6. (Captures /\ Batch /\ Members /\ Owed)'
  <2>1. Captures' /\ Batch'
    BY <1>1 DEF IInv, Captures, Batch, captureVars, batchVars
  <2>2. Members' /\ Owed'
    BY <1>1 DEF IInv, Members, Owed, Distinct, ToServe, batchVars
  <2>3. QED
    BY <2>1, <2>2
<1>7. EndOf(r, reach[s], buf) /\ Before(q[1], r, reach[s], buf)
  BY <1>1, <1>2, EndOfTail DEF QueueOf
<1> HIDE DEF r
<1>8. Queues'
  <2> SUFFICES ASSUME NEW t \in Subscribers PROVE QueueOf(t)'
    BY DEF Queues
  <2>0. QueueOf(t) /\ reach' = reach /\ phase' = phase /\ buf' = buf
    BY <1>1 DEF IInv, Queues, batchVars
  <2>1. CASE t = s
    <3>1. phase'[s] # "new" /\ reach'[s] = reach[s]
      BY <1>1, <2>0
    <3>2. QED
      BY <1>4, <1>7, <2>0, <2>1, <3>1 DEF QueueOf, EndOf, Before
  <2>2. CASE t # s
    BY <1>4, <2>0, <2>2 DEF QueueOf, EndOf, Before
  <2>3. QED
    BY <2>1, <2>2
<1>9. QED
  BY <1>5, <1>6, <1>8

LEMMA WithoutFacts ==
  ASSUME NEW S, NEW q \in Seq(S), NEW i \in DOMAIN q
  PROVE  /\ Without(q, i) \in Seq(S)
         /\ \A j \in DOMAIN Without(q, i) :
              \E k \in DOMAIN q :
                k # i /\ Without(q, i)[j] = q[k] /\ k = IF j < i THEN j ELSE j + 1
         /\ \A k \in DOMAIN q :
              k # i => \E j \in DOMAIN Without(q, i) : Without(q, i)[j] = q[k]
<1> DEFINE n == Len(q) - 1
           r == [j \in 1 .. n |-> q[IF j < i THEN j ELSE j + 1]]
<1>1. n \in Nat /\ DOMAIN q = 1 .. n + 1 /\ i \in 1 .. n + 1 /\ i \in Nat
  OBVIOUS
<1> HIDE DEF n
<1>2. ASSUME NEW j \in 1 .. n
      PROVE  \E k \in 1 .. n + 1 :
               k # i /\ r[j] = q[k] /\ k = IF j < i THEN j ELSE j + 1
  BY <1>1
<1>3. r \in Seq(S) /\ DOMAIN r = 1 .. n
  <2>1. \A j \in 1 .. n : (IF j < i THEN j ELSE j + 1) \in DOMAIN q
    BY <1>1
  <2>2. QED
    BY <1>1, <2>1
<1>4. ASSUME NEW k \in 1 .. n + 1, k # i
      PROVE  \E j \in 1 .. n : r[j] = q[k]
  <2>1. CASE k < i
    <3>1. k \in 1 .. n /\ r[k] = q[k]
      BY <1>1, <2>1
    <3>2. QED
      BY <3>1
  <2>2. CASE ~(k < i)
    <3>1. k - 1 \in 1 .. n /\ ~(k - 1 < i) /\ (k - 1) + 1 = k
      BY <1>1, <1>4, <2>2
    <3>2. r[k - 1] = q[k]
      BY <3>1
    <3>3. QED
      BY <3>1, <3>2
  <2>3. QED
    BY <2>1, <2>2
<1>5. Without(q, i) = r
  BY DEF Without, n
<1> HIDE DEF r
<1>6. QED
  BY <1>1, <1>2, <1>3, <1>4, <1>5

LEMMA UnsubscribePreserves ==
  ASSUME IInv, NEW s \in Subscribers, Unsubscribe(s)
  PROVE  TypeOK' /\ (Captures /\ Batch /\ Members /\ Owed /\ Queues)'
<1>1. /\ worker # "push" /\ phase[s] = "in"
      /\ phase' = [phase EXCEPT ![s] = "out"]
      /\ UNCHANGED <<ownerVars, captureVars, worker, batchVars, queue, reach, taken>>
  BY DEF Unsubscribe, MutexFree
<1>2. PICK i \in DOMAIN subscribers :
        subscribers[i] = s /\ subscribers' = Without(subscribers, i)
  BY DEF Unsubscribe
<1>3. /\ phase \in [Subscribers -> {"new", "in", "out"}]
      /\ subscribers \in Seq(Subscribers) /\ Distinct(subscribers)
  BY DEF IInv, TypeOK, Members
<1>4. /\ subscribers' \in Seq(Subscribers)
      /\ \A j \in DOMAIN subscribers' :
           \E k \in DOMAIN subscribers :
             /\ k # i /\ subscribers'[j] = subscribers[k]
             /\ k = IF j < i THEN j ELSE j + 1
      /\ \A k \in DOMAIN subscribers :
           k # i => \E j \in DOMAIN subscribers' : subscribers'[j] = subscribers[k]
  BY <1>2, <1>3, WithoutFacts
<1>5. TypeOK'
  <2>1. phase' \in [Subscribers -> {"new", "in", "out"}]
    BY <1>1, <1>3
  <2>2. QED
    BY <1>1, <1>4, <2>1 DEF IInv, TypeOK, ownerVars, captureVars, deviceVars, batchVars
<1>6. Captures' /\ Batch'
  BY <1>1 DEF IInv, Captures, Batch, captureVars, batchVars
<1>7. Members'
  <2>1. Distinct(subscribers')
    <3> SUFFICES ASSUME NEW j \in DOMAIN subscribers', NEW l \in DOMAIN subscribers',
                        subscribers'[j] = subscribers'[l]
                 PROVE  j = l
      BY DEF Distinct
    <3>1. PICK k \in DOMAIN subscribers :
            subscribers'[j] = subscribers[k] /\ k = IF j < i THEN j ELSE j + 1
      BY <1>4
    <3>2. PICK m \in DOMAIN subscribers :
            subscribers'[l] = subscribers[m] /\ m = IF l < i THEN l ELSE l + 1
      BY <1>4
    <3>3. k = m
      BY <1>3, <3>1, <3>2 DEF Distinct
    <3>4. subscribers' \in Seq(Subscribers)
      BY <1>4
    <3>5. i \in Nat /\ j \in Nat /\ l \in Nat
      BY <1>3, <3>4
    <3>6. QED
      BY <3>1, <3>2, <3>3, <3>5
  <2>2. ASSUME NEW t \in Subscribers
        PROVE  phase'[t] = "in" <=> \E j \in DOMAIN subscribers' : subscribers'[j] = t
    <3>1. phase[t] = "in" <=> \E k \in DOMAIN subscribers : subscribers[k] = t
      BY DEF IInv, Members
    <3>2. CASE t = s
      <4>1. phase'[t] # "in"
        BY <1>1, <1>3, <3>2
      <4>2. ASSUME NEW j \in DOMAIN subscribers' PROVE subscribers'[j] # t
        BY <1>2, <1>3, <1>4, <3>2 DEF Distinct
      <4>3. QED
        BY <4>1, <4>2
    <3>3. CASE t # s
      <4>1. phase'[t] = phase[t]
        BY <1>1, <1>3, <3>3
      <4>2. ASSUME NEW k \in DOMAIN subscribers, subscribers[k] = t
            PROVE  \E j \in DOMAIN subscribers' : subscribers'[j] = t
        BY <1>2, <1>4, <3>3, <4>2
      <4>3. ASSUME NEW j \in DOMAIN subscribers', subscribers'[j] = t
            PROVE  \E k \in DOMAIN subscribers : subscribers[k] = t
        BY <1>4, <4>3
      <4>4. QED
        BY <3>1, <4>1, <4>2, <4>3, Zenon
    <3>4. QED
      BY <3>2, <3>3
  <2>3. Distinct(serving') /\ worker' # "push"
    BY <1>1 DEF IInv, Members, Distinct, batchVars
  <2>4. QED
    BY <2>1, <2>2, <2>3 DEF Members
<1>8. Owed'
  BY <1>1, <1>3 DEF IInv, Owed, ToServe, batchVars
<1>9. Queues'
  <2> SUFFICES ASSUME NEW t \in Subscribers PROVE QueueOf(t)'
    BY DEF Queues
  <2>1. /\ QueueOf(t) /\ queue' = queue /\ reach' = reach /\ taken' = taken
        /\ buf' = buf
    BY <1>1 DEF IInv, Queues, batchVars
  <2>2. phase'[t] = "new" => phase[t] = "new"
    BY <1>1, <1>3
  <2>3. QED
    BY <2>1, <2>2 DEF QueueOf, EndOf, Before
<1>10. QED
  BY <1>5, <1>6, <1>7, <1>8, <1>9

-----------------------------------------------------------------------------
(* Every step preserves the invariant.                                     *)

LEMMA OwnerPreserves ==
  ASSUME IInv, Owner
  PROVE  TypeOK' /\ (Captures /\ Batch /\ Members /\ Owed /\ Queues)'
<1>0. Batch /\ Members /\ Owed /\ Queues /\ TypeOK /\ Captures
  BY DEF IInv
<1>1. CASE OpenEncoder
  <2>1. worker = "off"
    BY <1>1 DEF IInv, Lifecycle, OpenEncoder
  <2>2. TypeOK'
    BY <1>1 DEF IInv, TypeOK, OpenEncoder, captureVars, deviceVars, batchVars,
       screenVars
  <2>3. QED
    BY <1>1, <2>1, <2>2, WorkerMoves DEF OpenEncoder, captureVars
<1>2. CASE Undo \/ Release
  <2>1. /\ buffers' = <<>> /\ captured' = captured /\ buf' = buf
        /\ UNCHANGED streamVars
    BY <1>2 DEF Undo, Release, ReleaseDevice, streamVars, batchVars
  <2>2. <<>> \in Seq(Nat) /\ Len(<<>>) = 0 /\ DOMAIN <<>> = {}
        /\ CaptureLimit \in Nat
    BY AudioAssumption
  <2>3. TypeOK'
    <3>1. buffers' \in Seq(Nat) /\ Len(buffers') <= CaptureLimit
      BY <2>1, <2>2, AudioAssumption
    <3>2. QED
      BY <1>2, <3>1 DEF IInv, TypeOK, Undo, Release, ReleaseDevice, batchVars,
         screenVars
  <2>4. Captures'
    <3>1. buf \in Nat /\ captured \in Nat /\ Len(buffers) \in Nat
          /\ buf + Len(buffers) <= captured
      BY BuffersKept DEF IInv, Captures
    <3>2. buf + 0 <= captured
      BY <3>1
    <3>3. QED
      BY <2>1, <2>2, <3>2 DEF Captures
  <2>5. QED
    BY <1>0, <2>1, <2>3, <2>4, StreamUnchanged
<1>3. CASE \/ OpenCapture \/ OpenCaptureFails \/ OpenEncoderFails
           \/ Stop \/ ResetEncoder
  <2>1. /\ UNCHANGED streamVars /\ buffers' = buffers /\ captured' = captured
        /\ buf' = buf
    BY <1>3 DEF OpenCapture, OpenCaptureFails, OpenEncoderFails, Stop,
       ResetEncoder, streamVars, captureVars, batchVars
  <2>2. TypeOK'
    <3>1. CASE OpenCapture
      BY <3>1 DEF IInv, TypeOK, OpenCapture, batchVars, screenVars
    <3>2. CASE OpenCaptureFails \/ Stop
      BY <3>2 DEF IInv, TypeOK, OpenCaptureFails, Stop, captureVars, deviceVars,
         batchVars, screenVars
    <3>3. CASE OpenEncoderFails \/ ResetEncoder
      BY <3>3 DEF IInv, TypeOK, OpenEncoderFails, ResetEncoder, AskCaptureToStop,
         batchVars, screenVars
    <3>4. QED
      BY <1>3, <3>1, <3>2, <3>3
  <2>3. Captures'
    BY <1>0, <2>1 DEF Captures
  <2>4. QED
    BY <1>0, <2>1, <2>2, <2>3, StreamUnchanged
<1>4. QED
  BY <1>1, <1>2, <1>3 DEF Owner

LEMMA CapturerPreserves ==
  ASSUME IInv, Capturer
  PROVE  TypeOK' /\ (Captures /\ Batch /\ Members /\ Owed /\ Queues)'
<1>0. Batch /\ Members /\ Owed /\ Queues /\ TypeOK /\ Captures
  BY DEF IInv
<1>1. CASE CaptureBuffer
  BY <1>1, CaptureBufferPreserves
<1>2. CASE CaptureEnds \/ CaptureFails \/ CaptureWakes \/ CaptureNothing
  <2>1. /\ UNCHANGED streamVars /\ buffers' = buffers /\ captured' = captured
        /\ buf' = buf
    BY <1>2 DEF CaptureEnds, CaptureFails, CaptureWakes, CaptureNothing,
       streamVars, batchVars
  <2>2. TypeOK'
    <3>1. CASE CaptureFails
      BY <3>1 DEF IInv, TypeOK, CaptureFails, CaptureBreaks, ownerVars, batchVars,
         screenVars
    <3>2. CASE CaptureEnds \/ CaptureWakes \/ CaptureNothing
      BY <3>2 DEF IInv, TypeOK, CaptureEnds, CaptureWakes, CaptureNothing,
         ownerVars, deviceVars, batchVars, screenVars
    <3>3. QED
      BY <1>2, <3>1, <3>2
  <2>3. Captures'
    BY <1>0, <2>1 DEF Captures
  <2>4. QED
    BY <1>0, <2>1, <2>2, <2>3, StreamUnchanged
<1>3. QED
  BY <1>1, <1>2 DEF Capturer

LEMMA WorkerPreserves ==
  ASSUME IInv, Worker
  PROVE  TypeOK' /\ (Captures /\ Batch /\ Members /\ Owed /\ Queues)'
<1>1. CASE WaitPop
  BY <1>1, WaitPopPreserves
<1>2. CASE Encode
  BY <1>2, EncodePreserves
<1>3. CASE Push
  BY <1>3, PushPreserves
<1>4. CASE \/ WorkerEnds \/ WorkerSeesError \/ WorkerGoesOn
           \/ WaitPopTimesOut \/ EncodeNothing
  <2>1. /\ worker # "push" /\ worker' # "push"
        /\ UNCHANGED <<captured, buffers, batchVars, screenVars>>
    BY <1>4 DEF WorkerEnds, WorkerSeesError, WorkerGoesOn, WaitPopTimesOut,
       EncodeNothing, captureVars
  <2>2. TypeOK'
    BY <1>4 DEF IInv, TypeOK, WorkerEnds, WorkerSeesError, WorkerGoesOn,
       WaitPopTimesOut, EncodeNothing, ownerVars, captureVars, deviceVars,
       batchVars, screenVars
  <2>3. QED
    BY <2>1, <2>2, WorkerMoves
<1>5. QED
  BY <1>1, <1>2, <1>3, <1>4 DEF Worker

LEMMA NextPreserves == IInv /\ [Next]_vars => IInv'
<1> SUFFICES ASSUME IInv, [Next]_vars PROVE IInv'
  OBVIOUS
<1>1. Lifecycle'
  BY LifecyclePreserved DEF IInv
<1>2. TypeOK' /\ (Captures /\ Batch /\ Members /\ Owed /\ Queues)'
  <2>1. CASE Owner
    BY <2>1, OwnerPreserves
  <2>2. CASE Capturer
    BY <2>2, CapturerPreserves
  <2>3. CASE Worker
    BY <2>3, WorkerPreserves
  <2>4. CASE Screens
    BY <2>4, SubscribePreserves, TryPopPreserves, UnsubscribePreserves DEF Screens
  <2>5. CASE UNCHANGED vars
    <3>1. Batch /\ Members /\ Owed /\ Queues /\ Captures /\ UNCHANGED streamVars
      BY <2>5 DEF IInv, vars, streamVars
    <3>2. Captures'
      BY <2>5, <3>1 DEF Captures, vars, captureVars, batchVars
    <3>3. TypeOK'
      BY <2>5 DEF IInv, TypeOK, vars, ownerVars, captureVars, deviceVars,
         batchVars, screenVars
    <3>4. QED
      BY <3>1, <3>2, <3>3, StreamUnchanged
  <2>6. QED
    BY <2>1, <2>2, <2>3, <2>4, <2>5 DEF Next
<1>3. QED
  BY <1>1, <1>2 DEF IInv

(* The inductive invariant holds in every reachable state.                 *)
THEOREM Invariance == Spec => []IInv
BY InitEstablishes, NextPreserves, PTL DEF Spec

(* Every variable keeps its type and both queues keep their limits.        *)
THEOREM TypeCorrect == Spec => []TypeOK
<1>1. IInv => TypeOK
  BY DEF IInv
<1>2. QED
  BY <1>1, Invariance, PTL

(* No thread outlives the device or the encoder that it uses.              *)
THEOREM ResourcesSafe == Spec => []ThreadsHaveResources
<1>1. IInv => ThreadsHaveResources
  BY DEF IInv, Lifecycle, ThreadsHaveResources
<1>2. QED
  BY <1>1, Invariance, PTL

(* is_running() is never true of a pipeline whose threads have ended.      *)
THEOREM AliveWhileRunning == Spec => []RunningMeansAlive
<1>1. IInv => RunningMeansAlive
  BY DEF IInv, Lifecycle, RunningMeansAlive
<1>2. QED
  BY <1>1, Invariance, PTL

(* Every subscriber has the stream without a gap, up to the same packet    *)
(* as everyone else when nothing is being pushed.                          *)
THEOREM SameStream == Spec => []EveryoneHasTheStream
<1>1. IInv => EveryoneHasTheStream
  <2> SUFFICES ASSUME IInv, NEW s \in Subscribers
               PROVE  /\ Len(queue[s]) <= reach[s]
                      /\ \A i \in DOMAIN queue[s] :
                           queue[s][i].no = reach[s] - Len(queue[s]) + i
                      /\ phase[s] = "in" /\ MutexFree => reach[s] = published
    BY DEF EveryoneHasTheStream
  <2>1. /\ queue[s] \in Seq(Packet) /\ reach[s] \in Nat
        /\ EndOf(queue[s], reach[s], buf)
    BY DEF IInv, TypeOK, Queues, QueueOf
  <2>2. ASSUME NEW i \in 1 .. Len(queue[s])
        PROVE  queue[s][i].no = reach[s] - Len(queue[s]) + i
    <3>1. queue[s][i].no \in Nat /\ Len(queue[s]) \in Nat
      BY <2>1, PacketFields
    <3>2. queue[s][i].no + Len(queue[s]) = reach[s] + i
      BY <2>1 DEF EndOf
    <3>3. reach[s] \in Nat
      BY <2>1
    <3>4. QED
      BY <3>1, <3>2, <3>3
  <2>3. phase[s] = "in" /\ MutexFree => reach[s] = published
    BY DEF IInv, Owed, ToServe, MutexFree
  <2>4. Len(queue[s]) <= reach[s] /\ DOMAIN queue[s] = 1 .. Len(queue[s])
    BY <2>1 DEF EndOf
  <2>5. QED
    BY <2>2, <2>3, <2>4
<1>2. QED
  BY <1>1, Invariance, PTL

-----------------------------------------------------------------------------
(* What a subscriber takes is newer than what it took before.              *)
LEMMA TakesNewer ==
  ASSUME IInv, NEW s \in Subscribers, TryPop(s), taken[s] # None
  PROVE  taken'[s].no >= taken[s].no /\ taken'[s].capture >= taken[s].capture
<1>1. /\ queue[s] # <<>> /\ queue[s] \in Seq(Packet)
      /\ taken \in [Subscribers -> Packet \cup {None}]
      /\ taken' = [taken EXCEPT ![s] = Head(queue[s])]
      /\ reach[s] \in Nat /\ EndOf(queue[s], reach[s], buf)
      /\ Before(taken[s], queue[s], reach[s], buf)
  BY DEF IInv, TypeOK, Queues, QueueOf, TryPop
<1>2. /\ Head(queue[s]) = queue[s][1] /\ queue[s][1] \in Packet
      /\ 1 \in 1 .. Len(queue[s]) /\ Len(queue[s]) \in Nat
  BY <1>1, TailFacts
<1>3. taken'[s] = queue[s][1]
  BY <1>1, <1>2
<1>4. queue[s][1].no + Len(queue[s]) = reach[s] + 1
  BY <1>1, <1>2 DEF EndOf
<1>5. /\ taken[s].no + Len(queue[s]) <= reach[s]
      /\ taken[s].capture <= queue[s][1].capture
  BY <1>1, <1>2 DEF Before
<1>6. /\ taken[s].no \in Nat /\ taken[s].capture \in Nat
      /\ queue[s][1].no \in Nat /\ queue[s][1].capture \in Nat /\ reach[s] \in Nat
  BY <1>1, <1>2, PacketFields
<1>7. taken[s].no <= queue[s][1].no
  BY <1>2, <1>4, <1>5, <1>6, SMTT(30)
<1>8. QED
  BY <1>3, <1>5, <1>6, <1>7

(* Every subscriber takes packets in the order of their capture.           *)
THEOREM InCaptureOrder == Spec => AudioInOrder
<1>1. IInv /\ [Next]_vars =>
        [\A s \in Subscribers :
           taken[s] # None =>
             taken'[s].no >= taken[s].no
               /\ taken'[s].capture >= taken[s].capture]_vars
  <2> SUFFICES ASSUME IInv, [Next]_vars, NEW s \in Subscribers, taken[s] # None
               PROVE  taken'[s].no >= taken[s].no
                        /\ taken'[s].capture >= taken[s].capture
    OBVIOUS
  <2>1. CASE TryPop(s)
    BY <2>1, TakesNewer
  <2>2. CASE taken'[s] = taken[s]
    <3>1. taken[s] \in Packet
      BY DEF IInv, TypeOK
    <3>2. taken[s].no \in Nat /\ taken[s].capture \in Nat
      BY <3>1, PacketFields
    <3>3. QED
      BY <2>2, <3>2
  <2>3. TryPop(s) \/ taken'[s] = taken[s]
    <3>1. CASE Owner \/ Capturer \/ UNCHANGED vars
      BY <3>1 DEF vars, screenVars, Owner, OpenCapture, OpenCaptureFails,
         OpenEncoder, OpenEncoderFails, Undo, Stop, ResetEncoder, Release, Capturer,
         CaptureEnds, CaptureFails, CaptureWakes, CaptureBuffer, CaptureNothing
    <3>2. CASE Worker
      BY <3>2 DEF screenVars, Worker, WorkerEnds, WorkerSeesError, WorkerGoesOn,
         WaitPop, WaitPopTimesOut, EncodeNothing, Encode, Push
    <3>3. CASE Screens
      <4>1. PICK t \in Subscribers : Subscribe(t) \/ TryPop(t) \/ Unsubscribe(t)
        BY <3>3 DEF Screens
      <4>2. taken \in [Subscribers -> Packet \cup {None}]
        BY DEF IInv, TypeOK
      <4>3. QED
        BY <4>1, <4>2 DEF Subscribe, TryPop, Unsubscribe
    <3>4. QED
      BY <3>1, <3>2, <3>3 DEF Next
  <2>4. QED
    BY <2>1, <2>2, <2>3
<1>2. QED
  BY <1>1, Invariance, PTL DEF Spec, AudioInOrder

-----------------------------------------------------------------------------
(* The pipeline implements the broadcast.                                  *)

NextIn(q, c) == IF q = <<>> THEN c + 1 ELSE q[1].no

members == {s \in Subscribers : phase[s] = "in"}
next == [s \in Subscribers |-> NextIn(queue[s], reach[s])]

(* What a member takes next follows from how much is queued for it.        *)
LEMMA NextOf ==
  ASSUME NEW q \in Seq(Packet), NEW c \in Nat, NEW b, EndOf(q, c, b)
  PROVE  NextIn(q, c) \in Nat /\ NextIn(q, c) + Len(q) = c + 1
<1>1. CASE q = <<>>
  BY <1>1 DEF NextIn
<1>2. CASE q # <<>>
  <2>1. 1 \in 1 .. Len(q) /\ q[1] \in Packet
    BY <1>2
  <2>2. q[1].no \in Nat /\ NextIn(q, c) = q[1].no
    BY <1>2, <2>1, PacketFields DEF NextIn
  <2>3. q[1].no + Len(q) = c + 1
    BY <2>1 DEF EndOf
  <2>4. QED
    BY <2>2, <2>3
<1>3. QED
  BY <1>1, <1>2

(* How a push and a take move it.                                          *)
LEMMA NextAfterPush ==
  ASSUME NEW q \in Seq(Packet), NEW c \in Nat, NEW b \in Nat, EndOf(q, c, b),
         NEW p \in Packet, p.no = c + 1, p.capture = b, Len(q) <= Capacity
  PROVE  NextIn(Pushed(q, p), c + 1) =
           IF c + 1 < NextIn(q, c) + Capacity THEN NextIn(q, c) ELSE NextIn(q, c) + 1
<1> DEFINE r == Pushed(q, p)
           m == NextIn(q, c)
           n == NextIn(r, c + 1)
<1>1. /\ r \in Seq(Packet) /\ Len(r) \in Nat
      /\ Len(q) < Capacity => Len(r) = Len(q) + 1
      /\ ~(Len(q) < Capacity) => Len(r) = Len(q)
  BY BoundedAppend, AudioAssumption DEF Pushed
<1>2. EndOf(r, c + 1, b)
  BY EndOfPushed
<1> HIDE DEF r
<1>3. m \in Nat /\ m + Len(q) = c + 1
  BY NextOf
<1>4. n \in Nat /\ n + Len(r) = c + 2
  BY <1>1, <1>2, NextOf
<1> HIDE DEF m, n
<1>5. Capacity \in Nat /\ Len(q) \in Nat
  BY AudioAssumption
<1>6. n = IF c + 1 < m + Capacity THEN m ELSE m + 1
  <2>1. CASE Len(q) < Capacity
    BY <1>1, <1>3, <1>4, <1>5, <2>1
  <2>2. CASE ~(Len(q) < Capacity)
    BY <1>1, <1>3, <1>4, <1>5, <2>2
  <2>3. QED
    BY <2>1, <2>2
<1>7. QED
  BY <1>6 DEF m, n, r

LEMMA NextAfterTake ==
  ASSUME NEW q \in Seq(Packet), NEW c \in Nat, NEW b \in Nat, EndOf(q, c, b),
         q # <<>>
  PROVE  NextIn(q, c) <= c /\ NextIn(Tail(q), c) = NextIn(q, c) + 1
<1>1. Len(q) \in Nat \ {0} /\ Len(Tail(q)) = Len(q) - 1 /\ Tail(q) \in Seq(Packet)
  BY TailFacts
<1>2. NextIn(q, c) \in Nat /\ NextIn(q, c) + Len(q) = c + 1
  BY NextOf
<1>3. NextIn(Tail(q), c) \in Nat /\ NextIn(Tail(q), c) + Len(Tail(q)) = c + 1
  BY <1>1, EndOfTail, NextOf
<1>4. QED
  BY <1>1, <1>2, <1>3

(* Nobody is owed anything unless packets are being pushed.                *)
LEMMA NobodyBehind ==
  ASSUME IInv, worker # "push", NEW s \in members
  PROVE  reach[s] = published
BY DEF IInv, Owed, ToServe, members

LEMMA EncodePublishes ==
  ASSUME IInv, Encode
  PROVE  Broadcast!Publish
<1>1. \A s \in members : reach[s] = published
  BY NobodyBehind DEF Encode
<1>2. \E n \in 1 .. MaxBatch : published' = published + n
  BY DEF Encode
<1>3. UNCHANGED <<phase, reach, queue>>
  BY DEF Encode, screenVars
<1>4. QED
  BY <1>1, <1>2, <1>3 DEF Broadcast!Publish, members

LEMMA PushDelivers ==
  ASSUME IInv, Push, NEW s, s = serving[1]
  PROVE  Broadcast!Deliver(s)
<1> DEFINE p == packets[pushed + 1]
<1>0. /\ published \in Nat /\ pushed \in Nat /\ Len(packets) \in Nat
      /\ reach \in [Subscribers -> Nat] /\ queue \in [Subscribers -> Seq(Packet)]
      /\ Len(packets) <= published /\ pushed < Len(packets)
      /\ s = Head(serving) /\ s \in Subscribers /\ phase[s] = "in"
      /\ reach[s] = published - Len(packets) + pushed
      /\ p \in Packet /\ p.no = reach[s] + 1 /\ p.capture = buf
  BY PushNext
<1>1. /\ queue' = [queue EXCEPT ![s] = Pushed(@, p)]
      /\ reach' = [reach EXCEPT ![s] = p.no]
      /\ published' = published /\ phase' = phase
  BY <1>0 DEF Push
<1> HIDE DEF p
<1>2. reach[s] < published
  BY <1>0
<1>3. reach' = [reach EXCEPT ![s] = @ + 1] /\ reach'[s] = reach[s] + 1
  BY <1>0, <1>1
<1>4. queue[s] \in Seq(Packet) /\ Len(queue[s]) <= Capacity
      /\ reach[s] \in Nat /\ buf \in Nat /\ EndOf(queue[s], reach[s], buf)
  BY <1>0 DEF IInv, TypeOK, Queues, QueueOf
<1>5. queue'[s] = Pushed(queue[s], p)
  BY <1>0, <1>1
<1>6. NextIn(queue'[s], reach'[s]) =
        IF reach[s] + 1 < NextIn(queue[s], reach[s]) + Capacity
        THEN NextIn(queue[s], reach[s]) ELSE NextIn(queue[s], reach[s]) + 1
  BY <1>0, <1>3, <1>4, <1>5, NextAfterPush
<1>7. \A t \in Subscribers : t # s => queue'[t] = queue[t] /\ reach'[t] = reach[t]
  BY <1>0, <1>1
<1>8. next' = [next EXCEPT ![s] = IF reach[s] + 1 < @ + Capacity THEN @ ELSE @ + 1]
  BY <1>0, <1>6, <1>7 DEF next
<1>9. s \in members /\ members' = members
  BY <1>0, <1>1 DEF members
<1>10. QED
  BY <1>1, <1>2, <1>3, <1>8, <1>9 DEF Broadcast!Deliver, members, next, NextIn

LEMMA TryPopTakes ==
  ASSUME IInv, NEW s \in Subscribers, TryPop(s)
  PROVE  Broadcast!Take(s)
<1>1. /\ queue \in [Subscribers -> Seq(Packet)] /\ queue[s] \in Seq(Packet)
      /\ reach[s] \in Nat /\ buf \in Nat /\ queue[s] # <<>>
      /\ EndOf(queue[s], reach[s], buf)
  BY DEF IInv, TypeOK, Queues, QueueOf, TryPop
<1>2. queue' = [queue EXCEPT ![s] = Tail(@)]
      /\ UNCHANGED <<published, phase, reach>>
  BY DEF TryPop, batchVars
<1>3. /\ NextIn(queue[s], reach[s]) <= reach[s]
      /\ NextIn(Tail(queue[s]), reach[s]) = NextIn(queue[s], reach[s]) + 1
  BY <1>1, NextAfterTake
<1>4. next[s] <= reach[s] /\ next' = [next EXCEPT ![s] = @ + 1]
  BY <1>1, <1>2, <1>3 DEF next
<1>5. QED
  BY <1>2, <1>4 DEF Broadcast!Take, members, next, NextIn

LEMMA SubscribeJoins ==
  ASSUME IInv, NEW s \in Subscribers, Subscribe(s)
  PROVE  Broadcast!Subscribe(s)
<1>1. /\ worker # "push" /\ phase[s] = "new"
      /\ phase' = [phase EXCEPT ![s] = "in"]
      /\ reach' = [reach EXCEPT ![s] = published]
      /\ queue' = queue /\ published' = published
  BY DEF Subscribe, MayJoin, MutexFree, batchVars
<1>2. /\ phase \in [Subscribers -> {"new", "in", "out"}]
      /\ reach \in [Subscribers -> Nat] /\ queue[s] = <<>>
  BY <1>1 DEF IInv, TypeOK, Queues, QueueOf
<1>3. s \notin members /\ members' = members \cup {s}
  BY <1>1, <1>2 DEF members
<1>4. \A m \in members : reach[m] = published
  BY <1>1, NobodyBehind
<1>5. next' = [next EXCEPT ![s] = published + 1]
  BY <1>1, <1>2 DEF next, NextIn
<1>6. QED
  BY <1>1, <1>3, <1>4, <1>5 DEF Broadcast!Subscribe, members, next, NextIn

LEMMA UnsubscribeLeaves ==
  ASSUME IInv, NEW s \in Subscribers, Unsubscribe(s)
  PROVE  Broadcast!Unsubscribe(s)
<1>1. /\ worker # "push" /\ phase[s] = "in"
      /\ phase' = [phase EXCEPT ![s] = "out"]
      /\ UNCHANGED <<published, reach, queue>>
  BY DEF Unsubscribe, MutexFree, batchVars
<1>2. phase \in [Subscribers -> {"new", "in", "out"}]
  BY DEF IInv, TypeOK
<1>3. s \in members /\ members' = members \ {s}
  BY <1>1, <1>2 DEF members
<1>4. \A m \in members : reach[m] = published
  BY <1>1, NobodyBehind
<1>5. next' = next
  BY <1>1 DEF next
<1>6. QED
  BY <1>1, <1>3, <1>4, <1>5 DEF Broadcast!Unsubscribe, members, next, NextIn

(* The threads, the mutexes and the queues implement the broadcast.        *)
THEOREM BroadcastImplemented == Spec => ImplementsBroadcast
<1>1. Init => Broadcast!Init
  BY DEF Init, Broadcast!Init
<1>2. IInv /\ [Next]_vars => [Broadcast!Next]_(Broadcast!vars)
  <2> SUFFICES ASSUME IInv, [Next]_vars
               PROVE  Broadcast!Next \/ UNCHANGED Broadcast!vars
    OBVIOUS
  <2>1. ASSUME UNCHANGED <<published, phase, reach, queue>>
        PROVE  UNCHANGED Broadcast!vars
    BY <2>1 DEF Broadcast!vars
  <2>2. CASE Encode
    BY <2>2, EncodePublishes DEF Broadcast!Next
  <2>3. CASE Push
    <3>1. PICK s \in Subscribers : s = serving[1]
      BY <2>3, PushNext
    <3>2. Broadcast!Deliver(s)
      BY <2>3, <3>1, PushDelivers
    <3>3. QED
      BY <3>2 DEF Broadcast!Next
  <2>4. CASE Screens
    <3>1. PICK s \in Subscribers : Subscribe(s) \/ TryPop(s) \/ Unsubscribe(s)
      BY <2>4 DEF Screens
    <3>2. Broadcast!Subscribe(s) \/ Broadcast!Take(s) \/ Broadcast!Unsubscribe(s)
      BY <3>1, SubscribeJoins, TryPopTakes, UnsubscribeLeaves
    <3>3. QED
      BY <3>2 DEF Broadcast!Next
  <2>5. CASE Owner \/ Capturer \/ UNCHANGED vars
    <3>1. UNCHANGED <<published, phase, reach, queue>>
      BY <2>5 DEF vars, batchVars, screenVars, Owner, OpenCapture, OpenCaptureFails,
         OpenEncoder, OpenEncoderFails, Undo, Stop, ResetEncoder, Release, Capturer,
         CaptureEnds, CaptureFails, CaptureWakes, CaptureBuffer, CaptureNothing
    <3>2. QED
      BY <2>1, <3>1
  <2>6. CASE \/ WorkerEnds \/ WorkerSeesError \/ WorkerGoesOn
             \/ WaitPop \/ WaitPopTimesOut \/ EncodeNothing
    <3>1. UNCHANGED <<published, phase, reach, queue>>
      BY <2>6 DEF batchVars, screenVars, WorkerEnds, WorkerSeesError, WorkerGoesOn,
         WaitPop, WaitPopTimesOut, EncodeNothing
    <3>2. QED
      BY <2>1, <3>1
  <2>7. QED
    BY <2>2, <2>3, <2>4, <2>5, <2>6 DEF Next, Worker
<1>3. QED
  BY <1>1, <1>2, Invariance, PTL DEF Spec, ImplementsBroadcast, Broadcast!Spec

=============================================================================
