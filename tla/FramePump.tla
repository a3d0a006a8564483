------------------------------ MODULE FramePump ------------------------------
(***************************************************************************)
(* FramePump: a capture thread that pulls frames from the backend into a   *)
(* bounded queue, and the thread that owns the pump, which starts and      *)
(* stops it and takes frames with try_pop() and wait_pop().                *)
(*                                                                         *)
(* The queue is guarded by mutex_; running_ and backend_hard_error_ are    *)
(* atomics that are written without it.  wait_pop() is therefore three     *)
(* steps: evaluate the predicate with the mutex held, begin to wait        *)
(* (which lets the mutex go), and evaluate it again when woken.            *)
(*                                                                         *)
(* In zero-copy mode the backend copies each frame into the next texture   *)
(* of a ring of PoolSize textures and hands out a reference to it.  The    *)
(* ring is modelled by the number of the copy each texture holds.          *)
(***************************************************************************)
EXTENDS Naturals, Sequences

CONSTANTS
  MaxQueueSize,  (* MAX_QUEUE_SIZE                                         *)
  PoolSize,      (* kZeroCopyPoolSize                                      *)
  MaxFrames,     (* bound: frames captured between a start and a stop      *)
  None           (* no frame, or a frame that is not in a texture          *)

ASSUME PumpAssumption ==
  /\ MaxQueueSize \in Nat \ {0}
  /\ PoolSize \in Nat \ {0}
  /\ PoolSize > MaxQueueSize
  /\ MaxFrames \in Nat
  /\ None \notin Nat

(* A frame has its sequence number and, in zero-copy mode, the number of   *)
(* the texture copy it refers to.                                          *)
Frame == [seq : Nat, copy : Nat \cup {None}]

ASSUME NoneIsNoFrame == None \notin Frame

VARIABLES
  running,    (* running_                                                  *)
  errorFlag,  (* backend_hard_error_ of the pump                           *)
  hardError,  (* hard_error_ of the backend                                *)
  zeroCopy,   (* zero_copy_mode_ of the backend                            *)
  copies,     (* texture copies made since the backend was initialised     *)
  ring,       (* zero_copy_pool: the copy each texture holds               *)
  queue,      (* queue_                                                    *)
  seq,        (* frame_seq_                                                *)
  held,       (* the frame the capture thread has yet to queue             *)
  producer,   (* where the capture thread is                               *)
  consumer,   (* where the owner of the pump is                            *)
  frame       (* the frame the owner took last                             *)

producerVars == <<copies, ring, seq, held, producer>>
vars == <<running, errorFlag, hardError, zeroCopy, queue, producerVars,
          consumer, frame>>

(* Mutant: a ring with no texture to spare.                                *)
SlotOfSmallPool(copy) == copy % MaxQueueSize

(* zero_copy_index: the texture that a copy goes to.                       *)
Slot(copy) == copy % PoolSize

Init ==
  /\ running = FALSE
  /\ errorFlag = FALSE
  /\ hardError = FALSE
  /\ zeroCopy = FALSE
  /\ copies = 0
  /\ ring = [i \in 0 .. PoolSize - 1 |-> None]
  /\ queue = <<>>
  /\ seq = 0
  /\ held = None
  /\ producer = "off"
  /\ consumer = "stopped"
  /\ frame = None

(* mutex_ is held from the evaluation of the predicate to the wait.        *)
MutexFree == consumer # "blocking"

-----------------------------------------------------------------------------
(* The owner of the pump.                                                  *)

(* init() of the backend, which clears its hard error, its mode and its    *)
(* ring, and start(), which drops the frames of an earlier run.            *)
Start ==
  /\ consumer = "stopped"
  /\ hardError' = FALSE
  /\ zeroCopy' = FALSE
  /\ copies' = 0
  /\ ring' = [i \in 0 .. PoolSize - 1 |-> None]
  /\ errorFlag' = FALSE
  /\ running' = TRUE
  /\ queue' = <<>>
  /\ seq' = 0
  /\ held' = None
  /\ producer' = "loop"
  /\ consumer' = "ready"
  /\ frame' = None

(* stop(): lower the flag, notify, join.                                   *)
Stop ==
  /\ consumer = "ready"
  /\ running' = FALSE
  /\ consumer' = "joining"
  /\ UNCHANGED <<errorFlag, hardError, zeroCopy, queue, producerVars, frame>>

Join ==
  /\ consumer = "joining"
  /\ producer = "off"
  /\ consumer' = "stopped"
  /\ UNCHANGED <<running, errorFlag, hardError, zeroCopy, queue, producerVars,
                 frame>>

(* set_zero_copy_mode(), by the pipeline that owns pump and backend.       *)
SetZeroCopyMode ==
  /\ consumer = "ready"
  /\ zeroCopy' = ~zeroCopy
  /\ UNCHANGED <<running, errorFlag, hardError, queue, producerVars, consumer,
                 frame>>

(* The oldest frame is taken.                                              *)
TakeFrame ==
  /\ frame' = Head(queue)
  /\ queue' = Tail(queue)
  /\ consumer' = "ready"
  /\ UNCHANGED <<running, errorFlag, hardError, zeroCopy, producerVars>>

TryPop ==
  /\ consumer = "ready"
  /\ queue # <<>>
  /\ TakeFrame

(* wait_pop() is entered and its predicate is false.                       *)
WaitPredicate == queue # <<>> \/ ~running \/ errorFlag

BeginWait ==
  /\ consumer \in {"ready", "woken"}
  /\ ~WaitPredicate
  /\ consumer' = "blocking"
  /\ UNCHANGED <<running, errorFlag, hardError, zeroCopy, queue, producerVars,
                 frame>>

Block ==
  /\ consumer = "blocking"
  /\ consumer' = "waiting"
  /\ UNCHANGED <<running, errorFlag, hardError, zeroCopy, queue, producerVars,
                 frame>>

(* A wait that is woken and finds its predicate true, or whose deadline    *)
(* has passed: it returns a frame if there is one, else false.             *)
EndWait ==
  /\ \/ consumer = "woken" /\ WaitPredicate
     \/ consumer = "waiting"
  /\ \/ queue # <<>> /\ TakeFrame
     \/ /\ queue = <<>>
        /\ consumer' = "ready"
        /\ UNCHANGED <<running, errorFlag, hardError, zeroCopy, queue,
                       producerVars, frame>>

-----------------------------------------------------------------------------
(* The capture thread.                                                     *)

(* The loop of capture_thread_func() looks at running_.                    *)
LoopCheck ==
  /\ producer = "loop"
  /\ producer' = IF running THEN "acquire" ELSE "off"
  /\ UNCHANGED <<running, errorFlag, hardError, zeroCopy, queue, copies, ring,
                 seq, held, consumer, frame>>

(* acquire_frame() returns a frame: pixels, or the next texture of the     *)
(* ring with a copy of the desktop.                                        *)
Acquire ==
  /\ producer = "acquire"
  /\ ~hardError
  /\ seq < MaxFrames
  /\ IF zeroCopy
     THEN /\ held' = [seq |-> seq, copy |-> copies]
          /\ ring' = [ring EXCEPT ![Slot(copies)] = copies]
          /\ copies' = copies + 1
     ELSE /\ held' = [seq |-> seq, copy |-> None]
          /\ UNCHANGED <<ring, copies>>
  /\ seq' = seq + 1
  /\ producer' = "queue"
  /\ UNCHANGED <<running, errorFlag, hardError, zeroCopy, queue, consumer,
                 frame>>

AcquireTimesOut ==
  /\ producer = "acquire"
  /\ ~hardError
  /\ producer' = "loop"
  /\ UNCHANGED <<running, errorFlag, hardError, zeroCopy, queue, copies, ring,
                 seq, held, consumer, frame>>

(* The desktop is lost, and every later acquire_frame() fails at once.     *)
AcquireFails ==
  /\ producer = "acquire"
  /\ hardError' = TRUE
  /\ producer' = "raise"
  /\ UNCHANGED <<running, errorFlag, zeroCopy, queue, copies, ring, seq, held,
                 consumer, frame>>

(* Mutants: no limit; a full queue loses its newest frame.                 *)
DropNothing(q) == q
DropNewestIfFull(q) ==
  IF Len(q) >= MaxQueueSize THEN SubSeq(q, 1, Len(q) - 1) ELSE q

DropOldestIfFull(q) == IF Len(q) >= MaxQueueSize THEN Tail(q) ELSE q

(* Mutant: the consumer is not notified.                                   *)
QueueFrameSilently ==
  /\ producer = "queue"
  /\ MutexFree
  /\ queue' = Append(DropOldestIfFull(queue), held)
  /\ held' = None
  /\ producer' = "loop"
  /\ UNCHANGED <<running, errorFlag, hardError, zeroCopy, copies, ring, seq,
                 consumer, frame>>

(* The frame goes into the queue under the mutex; a full queue drops its   *)
(* oldest frame first.                                                     *)
QueueFrame ==
  /\ producer = "queue"
  /\ MutexFree
  /\ queue' = Append(DropOldestIfFull(queue), held)
  /\ held' = None
  /\ producer' = "notify"
  /\ UNCHANGED <<running, errorFlag, hardError, zeroCopy, copies, ring, seq,
                 consumer, frame>>

(* backend_hard_error_ is raised, without the mutex.                       *)
RaiseErrorFlag ==
  /\ producer = "raise"
  /\ errorFlag' = TRUE
  /\ producer' = "notify"
  /\ UNCHANGED <<running, hardError, zeroCopy, queue, copies, ring, seq, held,
                 consumer, frame>>

(* Mutant: the thread ends at a hard error, with a single notification.    *)
NotifyAndEndOnError ==
  /\ producer = "notify"
  /\ consumer' = IF consumer = "waiting" THEN "woken" ELSE consumer
  /\ producer' = IF hardError THEN "off" ELSE "loop"
  /\ UNCHANGED <<running, errorFlag, hardError, zeroCopy, queue, copies, ring,
                 seq, held, frame>>

(* notify_one() or notify_all(): only a thread that waits is woken.  Then  *)
(* the next iteration.                                                     *)
Notify ==
  /\ producer = "notify"
  /\ consumer' = IF consumer = "waiting" THEN "woken" ELSE consumer
  /\ producer' = "loop"
  /\ UNCHANGED <<running, errorFlag, hardError, zeroCopy, queue, copies, ring,
                 seq, held, frame>>

-----------------------------------------------------------------------------
Owner ==
  Start \/ Stop \/ Join \/ SetZeroCopyMode \/ TryPop \/ BeginWait \/ Block
  \/ EndWait

CaptureThread ==
  LoopCheck \/ Acquire \/ AcquireTimesOut \/ AcquireFails \/ QueueFrame
  \/ RaiseErrorFlag \/ Notify

Next == Owner \/ CaptureThread

Spec == Init /\ [][Next]_vars

(* The capture thread runs, a thread that is woken runs, and a join that   *)
(* can return does.  Nothing is assumed of deadlines.                      *)
FairSpec ==
  /\ Spec
  /\ WF_vars(CaptureThread)
  /\ WF_vars(Block)
  /\ WF_vars(consumer = "woken" /\ (BeginWait \/ EndWait))
  /\ WF_vars(Join)

-----------------------------------------------------------------------------
(* Type invariant: every variable has its type.                            *)
TypeOK ==
  /\ running \in BOOLEAN
  /\ errorFlag \in BOOLEAN
  /\ hardError \in BOOLEAN
  /\ zeroCopy \in BOOLEAN
  /\ copies \in Nat
  /\ ring \in [0 .. PoolSize - 1 -> Nat \cup {None}]
  /\ queue \in Seq(Frame)
  /\ seq \in Nat
  /\ held \in Frame \cup {None}
  /\ producer \in {"off", "loop", "acquire", "queue", "raise", "notify"}
  /\ consumer \in
       {"stopped", "ready", "blocking", "waiting", "woken", "joining"}
  /\ frame \in Frame \cup {None}
  /\ Len(queue) <= MaxQueueSize

(* The next frame to be queued: the one the capture thread holds, or else  *)
(* the one it acquires next.                                               *)
NextSeq == IF held = None THEN seq ELSE held.seq

(* The queue holds the most recent frames in the order of their capture    *)
(* and without a gap: a slow consumer loses old frames, never new ones.    *)
QueueIsMostRecent ==
  \A i \in DOMAIN queue : queue[i].seq + Len(queue) + 1 = NextSeq + i

(* Frames are taken in the order of their capture: what is queued is newer *)
(* than what was taken last.                                               *)
TakenInOrder ==
  frame # None => \A i \in DOMAIN queue : frame.seq < queue[i].seq

(* What a slow consumer loses is old, and what it gets is in order.        *)
FramesInOrder == QueueIsMostRecent /\ TakenInOrder

(* The texture that a frame refers to still holds that frame's image.      *)
Intact(f) == f.copy # None => ring[Slot(f.copy)] = f.copy

QueuedTexturesIntact == \A i \in DOMAIN queue : Intact(queue[i])

(* The owner sends the frame it took last again only when it finds the     *)
(* queue empty.                                                            *)
FreezeFrameIntact == frame # None /\ queue = <<>> => Intact(frame)

(* A ring of textures is safe for the frame queue and for the freeze frame *)
(* (the comment on the pool, dxgi_capture.cpp:31-37): it never comes round *)
(* to a frame that is still queued, nor to the freeze frame while that is  *)
(* what the owner would send.                                              *)
TexturesInUseIntact == QueuedTexturesIntact /\ FreezeFrameIntact

(* A consumer that waits, or is about to and keeps the mutex, can still be *)
(* woken: the thread that wakes it is alive, and a frame that came into    *)
(* the queue after the predicate was evaluated has its notification still  *)
(* to come.                                                                *)
NoLostWakeUp ==
  consumer \in {"blocking", "waiting"} =>
    /\ running /\ producer # "off"
    /\ queue # <<>> => consumer = "waiting" /\ producer = "notify"

(* A queued frame or a hard error ends a wait_pop() early, not only at its *)
(* deadline.  The error flag is written without the mutex, so its first    *)
(* notification can fall between the predicate and the wait, but the       *)
(* capture thread repeats it.                                              *)
WaitEnds ==
  consumer \in {"blocking", "waiting", "woken"} /\ (hardError \/ queue # <<>>)
    ~> consumer = "ready"

(* What the pipeline sees of the pump.                                     *)
Contract == INSTANCE PumpContract WITH
  Limit   <- MaxQueueSize,
  on      <- running,
  alive   <- producer # "off",
  pending <- held # None,
  waiting <- Len(queue),
  error   <- hardError

(* The mutex, the condition variable and the two flags amount to a pump    *)
(* that the pipeline can rely on: bounded, begun afresh by each start,     *)
(* going on after a hard error, and ending when it is asked to.            *)
ImplementsPump == Contract!PumpSpec

=============================================================================
