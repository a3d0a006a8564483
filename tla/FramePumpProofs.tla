-------------------------- MODULE FramePumpProofs --------------------------
(***************************************************************************)
(* Proofs of the safety properties of FramePump, for every size of the     *)
(* queue and every ring that is larger than the queue.                     *)
(*                                                                         *)
(* The argument: sequence numbers are given out one by one and queued in   *)
(* that order, so the queue is a window of consecutive numbers that ends   *)
(* just before the next one.  Texture copies are made at most once per     *)
(* sequence number, so a frame in that window is at most MaxQueueSize      *)
(* copies old when the next copy is made, and the ring is larger.          *)
(***************************************************************************)
EXTENDS FramePump, Integers, TLAPS

(* The capture thread holds a frame exactly while it has one to queue, and *)
(* it is the one it acquired last.                                         *)
HeldIsLatest ==
  /\ held # None <=> producer = "queue"
  /\ held # None => held.seq + 1 = seq

(* The frame taken last is older than the whole window.                    *)
TakenIsOlder == frame # None => frame.seq + Len(queue) < NextSeq

(* With an empty queue the frame taken last is the latest one.             *)
TakenIsLatest == frame # None /\ queue = <<>> => frame.seq + 1 = NextSeq

(* At most one copy is made per frame: since frame f was acquired there    *)
(* were at least as many frames as copies; and its texture holds its copy. *)
CopyIntact(f) ==
  f.copy # None =>
    /\ f.copy < copies
    /\ copies + f.seq <= seq + f.copy
    /\ ring[Slot(f.copy)] = f.copy

TexturesIntact ==
  /\ held # None => CopyIntact(held)
  /\ \A i \in DOMAIN queue : CopyIntact(queue[i])
  /\ frame # None /\ queue = <<>> => CopyIntact(frame)

IInv ==
  /\ TypeOK
  /\ HeldIsLatest
  /\ QueueIsMostRecent
  /\ TakenIsOlder
  /\ TakenIsLatest
  /\ TexturesIntact

-----------------------------------------------------------------------------
(* Two numbers less than p apart have different remainders modulo p: the   *)
(* slots of two copies that are both within one turn of the ring differ.   *)
LEMMA RemaindersDiffer ==
  ASSUME NEW p \in Nat \ {0}, NEW a \in Nat, NEW b \in Nat,
         b < a, a < b + p
  PROVE  a % p # b % p
<1> DEFINE qa == a \div p
           qb == b \div p
<1>1. /\ qa \in Int /\ a = p * qa + (a % p)
      /\ qb \in Int /\ b = p * qb + (b % p)
  OBVIOUS
<1>2. SUFFICES ASSUME a % p = b % p PROVE FALSE
  OBVIOUS
<1> HIDE DEF qa, qb
<1>3. a - b = p * (qa - qb)
  BY <1>1, <1>2
<1>4. CASE qa - qb >= 1
  <2>1. p * (qa - qb) >= p
    BY <1>1, <1>4
  <2>2. QED
    BY <2>1, <1>3
<1>5. CASE qa - qb <= 0
  <2>1. p * (qa - qb) <= 0
    BY <1>1, <1>5
  <2>2. QED
    BY <2>1, <1>3
<1>6. QED
  BY <1>1, <1>4, <1>5

-----------------------------------------------------------------------------
LEMMA FrameSeq == \A f \in Frame : f.seq \in Nat
  BY DEF Frame

(* A frame of the queue, and its place in the window.                      *)
LEMMA QueuedFrame ==
  ASSUME NEW q \in Seq(Frame), NEW i \in DOMAIN q
  PROVE  /\ q[i] \in Frame /\ q[i].seq \in Nat
         /\ i \in Nat /\ 1 <= i /\ i <= Len(q) /\ Len(q) \in Nat
<1>1. q[i] \in Frame /\ i \in 1 .. Len(q) /\ Len(q) \in Nat
  OBVIOUS
<1>2. QED
  BY <1>1, FrameSeq

(* What the operators on the queue do to a window of frames.               *)
LEMMA TailOfQueue ==
  ASSUME NEW q \in Seq(Frame), q # <<>>
  PROVE  /\ Head(q) = q[1] /\ Head(q) \in Frame
         /\ Tail(q) \in Seq(Frame)
         /\ Len(q) \in Nat \ {0}
         /\ Len(Tail(q)) = Len(q) - 1
         /\ \A i \in DOMAIN Tail(q) : i + 1 \in DOMAIN q /\ Tail(q)[i] = q[i + 1]
  OBVIOUS

LEMMA AppendToQueue ==
  ASSUME NEW q \in Seq(Frame), NEW f \in Frame
  PROVE  /\ Append(q, f) \in Seq(Frame)
         /\ Len(q) \in Nat
         /\ Len(Append(q, f)) = Len(q) + 1
         /\ Append(q, f)[Len(q) + 1] = f
         /\ \A i \in DOMAIN q : Append(q, f)[i] = q[i]
         /\ DOMAIN Append(q, f) = DOMAIN q \cup {Len(q) + 1}
  OBVIOUS

(* DropOldestIfFull() makes room for one frame and keeps the newest ones.  *)
LEMMA DropMakesRoom ==
  ASSUME NEW q \in Seq(Frame), Len(q) <= MaxQueueSize
  PROVE  LET d == DropOldestIfFull(q)
         IN  /\ d \in Seq(Frame)
             /\ Len(d) < MaxQueueSize
             /\ Len(q) - Len(d) \in {0, 1}
             /\ \A i \in DOMAIN d :
                  /\ i + Len(q) - Len(d) \in DOMAIN q
                  /\ d[i] = q[i + Len(q) - Len(d)]
<1>1. CASE Len(q) >= MaxQueueSize
  <2>1. q # <<>>
    BY <1>1, PumpAssumption
  <2>2. QED
    BY <1>1, <2>1, TailOfQueue, PumpAssumption DEF DropOldestIfFull
<1>2. CASE ~(Len(q) >= MaxQueueSize)
  BY <1>2, PumpAssumption DEF DropOldestIfFull
<1>3. QED
  BY <1>1, <1>2

-----------------------------------------------------------------------------
LEMMA InitEstablishes == Init => IInv
<1> SUFFICES ASSUME Init PROVE IInv
  OBVIOUS
<1>1. queue \in Seq(Frame) /\ Len(queue) = 0 /\ DOMAIN queue = {}
  BY DEF Init
<1>2. TypeOK
  <2>1. ring \in [0 .. PoolSize - 1 -> Nat \cup {None}]
    BY DEF Init
  <2>2. Len(queue) <= MaxQueueSize
    BY <1>1, PumpAssumption
  <2>3. QED
    BY <1>1, <2>1, <2>2 DEF Init, TypeOK
<1>3. HeldIsLatest /\ TakenIsOlder /\ TakenIsLatest
  BY DEF Init, HeldIsLatest, TakenIsOlder, TakenIsLatest
<1>4. QueueIsMostRecent /\ TexturesIntact
  BY <1>1 DEF Init, QueueIsMostRecent, TexturesIntact
<1>5. QED
  BY <1>2, <1>3, <1>4 DEF IInv

(* acquire_frame(): the next sequence number, and in zero-copy mode the    *)
(* next texture, which is not the one of a frame in the queue.             *)
LEMMA AcquirePreserves ==
  ASSUME IInv, Acquire
  PROVE  IInv'
<1> USE DEF IInv
<1>1. TypeOK /\ held = None /\ seq \in Nat /\ copies \in Nat /\ queue \in Seq(Frame)
  BY DEF Acquire, HeldIsLatest, TypeOK
<1>2. /\ held' \in Frame /\ held' # None
      /\ held'.seq = seq /\ seq' = seq + 1
      /\ producer' = "queue"
  BY <1>1, NoneIsNoFrame DEF Acquire, Frame
<1>3. NextSeq' = NextSeq
  BY <1>1, <1>2 DEF NextSeq
<1>4. TypeOK'
  <2>1. ring' \in [0 .. PoolSize - 1 -> Nat \cup {None}] /\ copies' \in Nat
    BY <1>1 DEF Acquire, TypeOK
  <2>2. QED
    BY <1>1, <1>2, <2>1 DEF Acquire, TypeOK
<1>5. HeldIsLatest'
  BY <1>1, <1>2 DEF HeldIsLatest
<1>6. QueueIsMostRecent' /\ TakenIsOlder' /\ TakenIsLatest'
  BY <1>3 DEF Acquire, QueueIsMostRecent, TakenIsOlder, TakenIsLatest
<1>7. TexturesIntact'
  <2>1. CASE ~zeroCopy
    <3>1. /\ held'.copy = None
          /\ copies' = copies /\ ring' = ring
          /\ queue' = queue /\ frame' = frame
      BY <2>1 DEF Acquire
    <3>2. ASSUME NEW f \in Frame, CopyIntact(f)
          PROVE  /\ f.copy # None => f.copy < copies'
                 /\ f.copy # None => copies' + f.seq <= seq' + f.copy
                 /\ f.copy # None => ring'[Slot(f.copy)] = f.copy
      BY <1>1, <1>2, <3>1, <3>2 DEF CopyIntact, Frame
    <3>3. \A i \in DOMAIN queue : CopyIntact(queue[i])'
      BY <1>1, <3>1, <3>2 DEF TexturesIntact, CopyIntact
    <3>4. frame # None /\ queue = <<>> => CopyIntact(frame)'
      BY <3>1, <3>2 DEF TexturesIntact, CopyIntact, TypeOK
    <3>5. QED
      BY <3>1, <3>3, <3>4 DEF TexturesIntact, CopyIntact
  <2>2. CASE zeroCopy
    <3>1. /\ held'.copy = copies /\ copies' = copies + 1
          /\ ring' = [ring EXCEPT ![Slot(copies)] = copies]
          /\ queue' = queue /\ frame' = frame
      BY <2>2 DEF Acquire
    <3>2. Slot(copies) \in 0 .. PoolSize - 1
      BY <1>1, PumpAssumption DEF Slot
    <3>3. ring'[Slot(copies)] = copies
      BY <1>1, <3>1, <3>2 DEF TypeOK
    <3>4. CopyIntact(held)'
      BY <1>1, <1>2, <3>1, <3>3 DEF CopyIntact
    <3>5. ASSUME NEW f \in Frame, f.copy # None, CopyIntact(f),
                 seq <= f.seq + MaxQueueSize
          PROVE  /\ f.copy < copies'
                 /\ copies' + f.seq <= seq' + f.copy
                 /\ ring'[Slot(f.copy)] = f.copy
      <4>1. /\ f.copy \in Nat /\ f.seq \in Nat
            /\ f.copy < copies
            /\ copies + f.seq <= seq + f.copy
            /\ ring[Slot(f.copy)] = f.copy
        BY <3>5 DEF CopyIntact, Frame
      <4>2. copies < f.copy + PoolSize
        BY <1>1, <3>5, <4>1, PumpAssumption
      <4>3. Slot(f.copy) # Slot(copies)
        BY <1>1, <4>1, <4>2, RemaindersDiffer, PumpAssumption DEF Slot
      <4>4. Slot(f.copy) \in 0 .. PoolSize - 1
        BY <4>1, PumpAssumption DEF Slot
      <4>5. ring'[Slot(f.copy)] = f.copy
        BY <1>1, <3>1, <4>1, <4>3, <4>4 DEF TypeOK
      <4>6. QED
        BY <1>1, <1>2, <3>1, <4>1, <4>5
    <3>6. ASSUME NEW i \in DOMAIN queue PROVE CopyIntact(queue[i])'
      <4>1. CopyIntact(queue[i]) /\ queue[i] \in Frame /\ queue[i].seq \in Nat
        BY <1>1, QueuedFrame DEF TexturesIntact
      <4>2. /\ queue[i].seq + Len(queue) + 1 = seq + i
            /\ i \in 1 .. Len(queue) /\ Len(queue) <= MaxQueueSize
        BY <1>1 DEF QueueIsMostRecent, NextSeq, TypeOK
      <4>3. seq <= queue[i].seq + MaxQueueSize
        BY <1>1, <4>1, <4>2, PumpAssumption
      <4>4. QED
        BY <3>1, <3>5, <4>1, <4>3 DEF CopyIntact
    <3>7. ASSUME frame # None, queue = <<>> PROVE CopyIntact(frame)'
      <4>1. CopyIntact(frame) /\ frame \in Frame /\ frame.seq \in Nat
        BY <3>7, FrameSeq DEF TexturesIntact, TypeOK
      <4>2. frame.seq + 1 = seq
        BY <1>1, <3>7 DEF TakenIsLatest, NextSeq
      <4>3. seq <= frame.seq + MaxQueueSize
        BY <1>1, <4>1, <4>2, PumpAssumption
      <4>4. QED
        BY <3>1, <3>5, <4>1, <4>3 DEF CopyIntact
    <3>8. QED
      BY <3>1, <3>4, <3>6, <3>7 DEF TexturesIntact, CopyIntact
  <2>3. QED
    BY <2>1, <2>2
<1>8. QED
  BY <1>4, <1>5, <1>6, <1>7

(* The held frame joins the window at its end; what is dropped is oldest.  *)
LEMMA QueueFramePreserves ==
  ASSUME IInv, QueueFrame
  PROVE  IInv'
<1> USE DEF IInv
<1> DEFINE d == DropOldestIfFull(queue)
           k == Len(queue) - Len(d)
<1>1. /\ held \in Frame /\ held # None /\ seq \in Nat /\ held.seq \in Nat
      /\ queue \in Seq(Frame) /\ Len(queue) <= MaxQueueSize
      /\ held.seq + 1 = seq /\ NextSeq = held.seq
  BY DEF QueueFrame, HeldIsLatest, TypeOK, NextSeq, Frame
<1>2. /\ held' = None /\ producer' = "notify" /\ queue' = Append(d, held)
      /\ NextSeq' = seq
      /\ UNCHANGED <<copies, ring, seq, frame>>
  BY DEF QueueFrame, NextSeq
<1>3. /\ d \in Seq(Frame) /\ Len(d) \in Nat /\ Len(d) < MaxQueueSize
      /\ Len(queue) \in Nat /\ k \in {0, 1}
      /\ \A i \in DOMAIN d : i + k \in DOMAIN queue /\ d[i] = queue[i + k]
  <2>1. d \in Seq(Frame)
    BY <1>1, DropMakesRoom
  <2>2. \A i \in DOMAIN d : i + Len(queue) - Len(d) = i + k
    BY <1>1, <2>1
  <2>3. QED
    BY <1>1, <2>1, <2>2, DropMakesRoom
<1> HIDE DEF d
<1>4. /\ queue' \in Seq(Frame)
      /\ Len(queue') = Len(d) + 1
      /\ queue'[Len(d) + 1] = held
      /\ \A i \in DOMAIN d : queue'[i] = d[i]
      /\ DOMAIN queue' = DOMAIN d \cup {Len(d) + 1}
  BY <1>1, <1>2, <1>3, AppendToQueue
<1>5. TypeOK'
  BY <1>1, <1>2, <1>3, <1>4, PumpAssumption DEF QueueFrame, TypeOK
<1>6. HeldIsLatest'
  BY <1>2 DEF HeldIsLatest
<1>7. QueueIsMostRecent'
  <2>1. ASSUME NEW i \in DOMAIN d
        PROVE  d[i].seq + (Len(d) + 1) + 1 = seq + i
    <3> DEFINE s == d[i].seq
               h == held.seq
    <3>1. queue[i + k].seq + Len(queue) + 1 = held.seq + (i + k)
      BY <1>1, <1>3 DEF QueueIsMostRecent
    <3>2. d[i] = queue[i + k] /\ s \in Nat /\ i \in Nat
      BY <1>3, QueuedFrame
    <3>3. s + Len(queue) + 1 = h + (i + k)
      BY <3>1, <3>2
    <3>4. Len(d) \in Nat /\ Len(queue) \in Nat /\ k = Len(queue) - Len(d)
      BY <1>3
    <3>5. h + 1 = seq /\ h \in Nat /\ seq \in Nat
      BY <1>1
    <3> HIDE DEF k, IInv, s, h
    <3>6. s + Len(queue) + 1 = h + (i + (Len(queue) - Len(d)))
      BY <3>3, <3>4
    <3> DEFINE l == Len(d)
               n == Len(queue)
    <3>7. s \in Int /\ i \in Int /\ h \in Int /\ l \in Int /\ n \in Int
      BY <3>2, <3>4, <3>5
    <3>8. s + n + 1 = h + (i + (n - l))
      BY <3>6
    <3> HIDE DEF l, n
    <3>9. s + (l + 1) + 1 = h + 1 + i
      BY <3>7, <3>8
    <3>10. QED
      BY <3>5, <3>9 DEF s, l
  <2>2. held.seq + (Len(d) + 1) + 1 = seq + (Len(d) + 1)
    <3>1. held.seq + 1 = seq /\ held.seq \in Nat /\ seq \in Nat /\ Len(d) \in Nat
      BY <1>1, <1>3
    <3> HIDE DEF k, IInv
    <3>2. QED
      BY <3>1
  <2>3. QED
    BY <1>2, <1>4, <2>1, <2>2 DEF QueueIsMostRecent
<1>8. TakenIsOlder'
  <2>1. ASSUME frame # None PROVE frame.seq + (Len(d) + 1) < seq
    <3>1. frame.seq \in Nat /\ frame.seq + Len(queue) < held.seq
      BY <1>1, <2>1 DEF TakenIsOlder, TypeOK, Frame
    <3>2. QED
      BY <1>1, <1>3, <3>1
  <2>2. QED
    BY <1>2, <1>4, <2>1 DEF TakenIsOlder
<1>9. queue' # <<>> /\ TakenIsLatest'
  BY <1>3, <1>4 DEF TakenIsLatest
<1>10. TexturesIntact'
  <2>1. CopyIntact(held) /\ \A i \in DOMAIN d : CopyIntact(d[i])
    BY <1>1, <1>3 DEF TexturesIntact
  <2>2. \A i \in DOMAIN queue' : CopyIntact(queue'[i])
    BY <1>4, <2>1
  <2>3. QED
    BY <1>2, <1>9, <2>2 DEF TexturesIntact, CopyIntact
<1>11. QED
  BY <1>5, <1>6, <1>7, <1>8, <1>9, <1>10

(* The oldest frame of the window is taken.                                *)
LEMMA TakeFramePreserves ==
  ASSUME IInv, queue # <<>>, TakeFrame
  PROVE  IInv'
<1> USE DEF IInv
<1>1. /\ queue \in Seq(Frame) /\ Len(queue) \in Nat \ {0}
      /\ Len(queue) <= MaxQueueSize
      /\ frame' = queue[1] /\ queue[1] \in Frame /\ queue[1].seq \in Nat
      /\ queue' = Tail(queue) /\ queue' \in Seq(Frame)
      /\ Len(queue') = Len(queue) - 1
      /\ \A i \in DOMAIN queue' :
           i + 1 \in DOMAIN queue /\ queue'[i] = queue[i + 1]
  <2>1. queue \in Seq(Frame) /\ Len(queue) <= MaxQueueSize
    BY DEF TypeOK
  <2>2. frame' = Head(queue) /\ queue' = Tail(queue)
    BY DEF TakeFrame
  <2>3. queue[1].seq \in Nat
    BY <2>1, TailOfQueue DEF Frame
  <2>4. QED
    BY <2>1, <2>2, <2>3, TailOfQueue
<1>2. UNCHANGED <<held, producer, seq, copies, ring>> /\ NextSeq' = NextSeq
  BY DEF TakeFrame, producerVars, NextSeq
<1>3. NextSeq \in Nat
  BY DEF NextSeq, TypeOK, Frame
<1>4. TypeOK'
  BY <1>1, <1>2, PumpAssumption DEF TakeFrame, producerVars, TypeOK
<1>5. HeldIsLatest'
  BY <1>2 DEF HeldIsLatest
<1>6. QueueIsMostRecent'
  <2>1. ASSUME NEW i \in DOMAIN queue'
        PROVE  queue'[i].seq + Len(queue') + 1 = NextSeq + i
    <3> DEFINE s == queue'[i].seq
    <3>1. queue[i + 1].seq + Len(queue) + 1 = NextSeq + (i + 1)
      BY <1>1 DEF QueueIsMostRecent
    <3>2. queue'[i] = queue[i + 1] /\ s \in Nat /\ i \in Nat
      BY <1>1, QueuedFrame
    <3>3. s + Len(queue) + 1 = NextSeq + (i + 1)
      BY <3>1, <3>2
    <3>4. Len(queue') = Len(queue) - 1 /\ Len(queue) \in Nat /\ NextSeq \in Nat
      BY <1>1, <1>3
    <3> HIDE DEF IInv, s
    <3>5. s + Len(queue') + 1 = NextSeq + i
      BY <3>2, <3>3, <3>4
    <3>6. QED
      BY <3>5 DEF s
  <2>2. QED
    BY <1>2, <2>1 DEF QueueIsMostRecent
<1>7. TakenIsOlder'
  <2>1. queue[1].seq + Len(queue) + 1 = NextSeq + 1
    BY <1>1 DEF QueueIsMostRecent
  <2>2. queue[1].seq + Len(queue') < NextSeq
    BY <1>1, <1>3, <2>1
  <2>3. QED
    BY <1>1, <1>2, <2>2 DEF TakenIsOlder
<1>8. TakenIsLatest'
  <2>1. queue[1].seq + Len(queue) + 1 = NextSeq + 1
    BY <1>1 DEF QueueIsMostRecent
  <2>2. ASSUME queue' = <<>> PROVE queue[1].seq + 1 = NextSeq
    <3>1. Len(queue') = 0
      BY <2>2
    <3>2. Len(queue) = 1
      BY <1>1, <3>1
    <3>3. QED
      BY <1>1, <1>3, <2>1, <3>2
  <2>3. QED
    BY <1>1, <1>2, <2>2 DEF TakenIsLatest
<1>9. TexturesIntact'
  <2>1. CopyIntact(frame') /\ \A i \in DOMAIN queue' : CopyIntact(queue'[i])
    BY <1>1 DEF TexturesIntact
  <2>2. QED
    BY <1>2, <2>1 DEF TexturesIntact, CopyIntact
<1>10. QED
  BY <1>4, <1>5, <1>6, <1>7, <1>8, <1>9

(* start(), after init() of the backend: everything begins anew.           *)
LEMMA StartPreserves ==
  ASSUME IInv, Start
  PROVE  IInv'
<1>1. /\ queue' \in Seq(Frame) /\ Len(queue') = 0 /\ DOMAIN queue' = {}
      /\ held' = None /\ frame' = None /\ producer' = "loop"
  BY DEF Start
<1>2. TypeOK'
  <2>1. ring' \in [0 .. PoolSize - 1 -> Nat \cup {None}]
    BY DEF Start
  <2>2. Len(queue') <= MaxQueueSize
    BY <1>1, PumpAssumption
  <2>3. QED
    BY <1>1, <2>1, <2>2 DEF Start, TypeOK, IInv
<1>3. HeldIsLatest' /\ TakenIsOlder' /\ TakenIsLatest'
  BY <1>1 DEF HeldIsLatest, TakenIsOlder, TakenIsLatest
<1>4. QueueIsMostRecent' /\ TexturesIntact'
  BY <1>1 DEF QueueIsMostRecent, TexturesIntact
<1>5. QED
  BY <1>2, <1>3, <1>4 DEF IInv

(* The steps that touch neither a frame nor a texture.                     *)
LEMMA OthersPreserve ==
  ASSUME IInv,
         UNCHANGED <<queue, copies, ring, seq, held, frame>>,
         TypeOK',
         producer = "queue" <=> producer' = "queue"
  PROVE  IInv'
<1>1. NextSeq' = NextSeq
  BY DEF NextSeq
<1>2. HeldIsLatest' /\ TakenIsOlder' /\ TakenIsLatest'
  BY <1>1 DEF IInv, HeldIsLatest, TakenIsOlder, TakenIsLatest
<1>3. QueueIsMostRecent' /\ TexturesIntact'
  BY <1>1 DEF IInv, QueueIsMostRecent, TexturesIntact, CopyIntact
<1>4. QED
  BY <1>2, <1>3 DEF IInv

LEMMA NextPreserves == IInv /\ [Next]_vars => IInv'
<1> SUFFICES ASSUME IInv, [Next]_vars PROVE IInv'
  OBVIOUS
<1> USE DEF producerVars
<1>1. CASE Start
  BY <1>1, StartPreserves
<1>2. CASE Stop
  BY <1>2, OthersPreserve DEF Stop, IInv, TypeOK
<1>3. CASE Join
  BY <1>3, OthersPreserve DEF Join, IInv, TypeOK
<1>4. CASE SetZeroCopyMode
  BY <1>4, OthersPreserve DEF SetZeroCopyMode, IInv, TypeOK
<1>5. CASE TryPop
  BY <1>5, TakeFramePreserves DEF TryPop
<1>6. CASE BeginWait
  BY <1>6, OthersPreserve DEF BeginWait, IInv, TypeOK
<1>7. CASE Block
  BY <1>7, OthersPreserve DEF Block, IInv, TypeOK
<1>8. CASE EndWait
  <2>1. CASE queue # <<>> /\ TakeFrame
    BY <2>1, TakeFramePreserves
  <2>2. CASE /\ queue = <<>>
             /\ consumer' = "ready"
             /\ UNCHANGED <<running, errorFlag, hardError, zeroCopy, queue,
                            producerVars, frame>>
    BY <2>2, OthersPreserve DEF IInv, TypeOK
  <2>3. QED
    BY <1>8, <2>1, <2>2 DEF EndWait
<1>9. CASE LoopCheck
  BY <1>9, OthersPreserve DEF LoopCheck, IInv, TypeOK
<1>10. CASE Acquire
  BY <1>10, AcquirePreserves
<1>11. CASE AcquireTimesOut
  BY <1>11, OthersPreserve DEF AcquireTimesOut, IInv, TypeOK
<1>12. CASE AcquireFails
  BY <1>12, OthersPreserve DEF AcquireFails, IInv, TypeOK
<1>13. CASE QueueFrame
  BY <1>13, QueueFramePreserves
<1>14. CASE RaiseErrorFlag
  BY <1>14, OthersPreserve DEF RaiseErrorFlag, IInv, TypeOK
<1>15. CASE Notify
  BY <1>15, OthersPreserve DEF Notify, IInv, TypeOK
<1>16. CASE UNCHANGED vars
  BY <1>16, OthersPreserve DEF vars, IInv, TypeOK
<1>17. QED
  BY <1>1, <1>2, <1>3, <1>4, <1>5, <1>6, <1>7, <1>8, <1>9, <1>10, <1>11,
     <1>12, <1>13, <1>14, <1>15, <1>16 DEF Next, Owner, CaptureThread

-----------------------------------------------------------------------------
(* The inductive invariant holds in every reachable state.                 *)
THEOREM Invariance == Spec => []IInv
<1>1. QED
  BY InitEstablishes, NextPreserves, PTL DEF Spec

(* The queue never exceeds MAX_QUEUE_SIZE, and every variable of the pump  *)
(* and its backend keeps its type, whatever the threads do.                *)
THEOREM TypeCorrect == Spec => []TypeOK
<1>1. IInv => TypeOK
  BY DEF IInv
<1>2. QED
  BY <1>1, Invariance, PTL

(* FramePump drops old frames, never new ones: the queue is the gapless    *)
(* run of the frames captured last, and try_pop() and wait_pop() hand them *)
(* out in the order of their capture.                                      *)
THEOREM InOrder == Spec => []FramesInOrder
<1>1. IInv => TakenInOrder
  <2> SUFFICES ASSUME IInv, frame # None, NEW i \in DOMAIN queue
               PROVE  frame.seq < queue[i].seq
    BY DEF TakenInOrder
  <2>1. frame.seq \in Nat /\ NextSeq \in Nat
    BY FrameSeq DEF IInv, TypeOK, NextSeq
  <2>2. queue[i].seq \in Nat /\ i \in Nat /\ 1 <= i /\ Len(queue) \in Nat
    BY QueuedFrame DEF IInv, TypeOK
  <2>3. /\ frame.seq + Len(queue) < NextSeq
        /\ queue[i].seq + Len(queue) + 1 = NextSeq + i
    BY DEF IInv, TakenIsOlder, QueueIsMostRecent
  <2>4. QED
    BY <2>1, <2>2, <2>3
<1>2. IInv => FramesInOrder
  BY <1>1 DEF IInv, FramesInOrder
<1>3. QED
  BY <1>2, Invariance, PTL

(* A ring of more textures than the queue has places is enough for every   *)
(* queued frame, and for a freeze frame that is sent again, to keep its    *)
(* image (kZeroCopyPoolSize, MAX_QUEUE_SIZE).                              *)
THEOREM UsedTexturesIntact == Spec => []TexturesInUseIntact
<1>1. IInv => TexturesInUseIntact
  BY DEF IInv, TexturesIntact, CopyIntact, TexturesInUseIntact,
         QueuedTexturesIntact, FreezeFrameIntact, Intact
<1>2. QED
  BY <1>1, Invariance, PTL

-----------------------------------------------------------------------------
(* Wake-ups.  The flag says where the owner is, and a capture thread that  *)
(* was not asked to end is there to wake it.                               *)
ThreadFitsOwner ==
  /\ running <=> consumer \notin {"stopped", "joining"}
  /\ running => producer # "off"
  /\ consumer = "stopped" => producer = "off"

(* What the consumer knew when it let the mutex go can only be made untrue *)
(* by a step that has its notification still to come.                      *)
LEMMA WakeUpStep ==
  ASSUME IInv, ThreadFitsOwner, NoLostWakeUp, [Next]_vars
  PROVE  ThreadFitsOwner' /\ NoLostWakeUp'
<1>0. running \in BOOLEAN
  BY DEF IInv, TypeOK
<1> USE <1>0 DEF ThreadFitsOwner, NoLostWakeUp, producerVars
<1>1. CASE Start
  BY <1>1 DEF Start
<1>2. CASE Stop
  BY <1>2 DEF Stop
<1>3. CASE Join
  BY <1>3 DEF Join
<1>4. CASE SetZeroCopyMode
  BY <1>4 DEF SetZeroCopyMode
<1>5. CASE TryPop
  BY <1>5 DEF TryPop, TakeFrame
<1>6. CASE BeginWait
  BY <1>6 DEF BeginWait, WaitPredicate
<1>7. CASE Block
  BY <1>7 DEF Block
<1>8. CASE EndWait
  BY <1>8 DEF EndWait, TakeFrame
<1>9. CASE LoopCheck
  BY <1>9 DEF LoopCheck
<1>10. CASE Acquire
  BY <1>10 DEF Acquire
<1>11. CASE AcquireTimesOut
  BY <1>11 DEF AcquireTimesOut
<1>12. CASE AcquireFails
  BY <1>12 DEF AcquireFails
<1>13. CASE QueueFrame
  BY <1>13 DEF QueueFrame, MutexFree
<1>14. CASE RaiseErrorFlag
  BY <1>14 DEF RaiseErrorFlag
<1>15. CASE Notify
  BY <1>15 DEF Notify
<1>16. CASE UNCHANGED vars
  BY <1>16 DEF vars
<1>17. QED
  BY <1>1, <1>2, <1>3, <1>4, <1>5, <1>6, <1>7, <1>8, <1>9, <1>10, <1>11,
     <1>12, <1>13, <1>14, <1>15, <1>16 DEF Next, Owner, CaptureThread

LEMMA WakeUpInvariance == Spec => [](ThreadFitsOwner /\ NoLostWakeUp)
<1>1. Init => ThreadFitsOwner /\ NoLostWakeUp
  BY DEF Init, ThreadFitsOwner, NoLostWakeUp
<1>2. QED
  BY <1>1, WakeUpStep, Invariance, PTL DEF Spec

(* Whatever falls between the predicate of wait_pop() and its wait, the    *)
(* consumer sleeps only while somebody is still to wake it.                *)
THEOREM WakeUpsArrive == Spec => []NoLostWakeUp
<1>1. QED
  BY WakeUpInvariance, PTL

-----------------------------------------------------------------------------
(* The pump is one of PumpContract.                                        *)

(* A delivery adds a frame to a queue that has room, and replaces one in a *)
(* queue that has none.                                                    *)
LEMMA DeliveredLength ==
  ASSUME NEW q \in Seq(Frame), NEW f \in Frame, Len(q) <= MaxQueueSize
  PROVE  Len(Append(DropOldestIfFull(q), f)) =
           IF Len(q) < MaxQueueSize THEN Len(q) + 1 ELSE MaxQueueSize
<1>1. CASE Len(q) < MaxQueueSize
  BY <1>1, PumpAssumption DEF DropOldestIfFull
<1>2. CASE Len(q) = MaxQueueSize
  <2>1. q # <<>>
    BY <1>2, PumpAssumption
  <2>2. Tail(q) \in Seq(Frame) /\ Len(Tail(q)) = Len(q) - 1
    BY <2>1, TailOfQueue
  <2>3. DropOldestIfFull(q) = Tail(q)
    BY <1>2, PumpAssumption DEF DropOldestIfFull
  <2>4. QED
    BY <1>2, <2>2, <2>3, PumpAssumption
<1>3. QED
  BY <1>1, <1>2, PumpAssumption

LEMMA TakenLength ==
  ASSUME NEW q \in Seq(Frame), q # <<>>
  PROVE  Len(q) > 0 /\ Len(Tail(q)) = Len(q) - 1
BY TailOfQueue

(* What the owner and the thread do between two steps of the contract      *)
(* changes nothing that the pipeline sees.                                 *)
LEMMA ContractStep ==
  ASSUME IInv, ThreadFitsOwner, [Next]_vars
  PROVE  [Contract!PumpNext]_(Contract!pumpVars)
<1>0. /\ running \in BOOLEAN /\ hardError \in BOOLEAN
      /\ queue \in Seq(Frame) /\ Len(queue) <= MaxQueueSize
      /\ held \in Frame \cup {None}
      /\ held # None <=> producer = "queue"
  BY DEF IInv, TypeOK, HeldIsLatest
<1> USE <1>0 DEF ThreadFitsOwner, producerVars, Contract!PumpNext,
                 Contract!pumpVars
<1>1. CASE Start
  BY <1>1 DEF Start, Contract!Start
<1>2. CASE Stop
  BY <1>2 DEF Stop, Contract!AskToEnd
<1>3. CASE Join \/ SetZeroCopyMode \/ BeginWait \/ Block
  BY <1>3 DEF Join, SetZeroCopyMode, BeginWait, Block
<1>4. CASE TryPop \/ EndWait
  <2>1. CASE queue # <<>> /\ TakeFrame
    BY <2>1, TakenLength DEF TakeFrame, Contract!Take
  <2>2. CASE UNCHANGED <<running, hardError, queue, producerVars>>
    BY <2>2
  <2>3. QED
    BY <1>4, <2>1, <2>2 DEF TryPop, EndWait
<1>5. CASE LoopCheck
  BY <1>5 DEF LoopCheck, Contract!End
<1>6. CASE Acquire
  <2>1. held' # None
    BY <1>6, NoneIsNoFrame, PumpAssumption DEF Acquire, IInv, TypeOK, Frame
  <2>2. QED
    BY <1>6, <2>1 DEF Acquire, Contract!Capture
<1>7. CASE AcquireTimesOut \/ RaiseErrorFlag \/ Notify
  BY <1>7 DEF AcquireTimesOut, RaiseErrorFlag, Notify
<1>8. CASE AcquireFails
  BY <1>8 DEF AcquireFails, Contract!Fail, Contract!MayEnd
<1>9. CASE QueueFrame
  BY <1>9, DeliveredLength
     DEF QueueFrame, Contract!Deliver, Contract!MayEnd
<1>10. CASE UNCHANGED vars
  BY <1>10 DEF vars
<1>11. QED
  BY <1>1, <1>2, <1>3, <1>4, <1>5, <1>6, <1>7, <1>8, <1>9, <1>10
     DEF Next, Owner, CaptureThread

(* Up to the end of a stopped thread, which only the runs can check, mutex *)
(* and flags amount to the pump that a pipeline relies on.                 *)
THEOREM PumpKept == Spec => Contract!PumpSafety
<1>1. Init => Contract!PumpInit
  BY DEF Init, Contract!PumpInit
<1>2. IInv /\ ThreadFitsOwner /\ [Next]_vars =>
        [Contract!PumpNext]_(Contract!pumpVars)
  BY ContractStep
<1>3. QED
  BY <1>1, <1>2, Invariance, WakeUpInvariance, PTL
     DEF Spec, Contract!PumpSafety

=============================================================================
