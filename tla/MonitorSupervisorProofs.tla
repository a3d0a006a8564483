---------------------- MODULE MonitorSupervisorProofs ----------------------
(***************************************************************************)
(* Proofs of the safety properties of MonitorSupervisor, for every set of  *)
(* monitors and every desktop they may form.                               *)
(*                                                                         *)
(* The argument: the mutex lets one thread at a time change the map, so an *)
(* application of changes can be followed from its lock to its unlock.     *)
(* While it runs, a monitor of the new list is either still to be visited, *)
(* with the pipeline of the last list, or has a pipeline that is right up  *)
(* to the size; the notice of the new size at the end makes it equal.      *)
(***************************************************************************)
EXTENDS MonitorSupervisor, TLAPS

(* run() has not yet cleared the map.                                      *)
NotCleared == run \in {"init", "run", "stopAll"}

(* One thread holds the mutex, and only the holder joins: the poll thread  *)
(* a monitor its loop has left, once its pipeline was asked to stop.       *)
Mutex ==
  /\ ~(RunHoldsMutex /\ PollHoldsMutex)
  /\ joining # None => RunHoldsMutex \/ PollHoldsMutex
  /\ PollHoldsMutex /\ joining # None => joining \in todo
  /\ run = "init" <=> poll = "off"

(* A pipeline that was asked to stop is being joined, or has been joined   *)
(* by run() and waits for the map to be cleared.                           *)
Asked ==
  \A m \in Monitors :
    pipes[m] # None /\ pipes[m].stopAsked =>
      joining = m \/ (run = "stopAll" /\ pipes[m].done)

(* What the loops of apply_monitor_changes() have left to do.              *)
Todo ==
  /\ poll = "removed" => todo \subseteq DOMAIN last \ DOMAIN seen
  /\ poll = "current" => todo \subseteq DOMAIN seen

(* The pipeline of m has the data of the last list.                        *)
AsLast(m) == m \in DOMAIN last /\ pipes[m].info = last[m]

(* The pipeline of m has the data of the new list, but perhaps the size.   *)
AsSeen(m) ==
  /\ m \in DOMAIN seen
  /\ \/ pipes[m].info = seen[m]
     \/ AsLast(m) /\ ~IdentityDiffers(last[m], seen[m])

(* What a pipeline was made for, at each place of the poll thread.         *)
Data ==
  \A m \in Monitors :
    pipes[m] # None =>
      CASE poll = "removed" -> AsLast(m) /\ (m \in DOMAIN seen \/ m \in todo)
        [] poll = "current" ->
             m \in DOMAIN seen /\ IF m \in todo THEN AsLast(m) ELSE AsSeen(m)
        [] OTHER -> AsLast(m)

(* Which monitors have a pipeline, until the map is cleared.               *)
Presence ==
  NotCleared =>
    \A m \in Monitors :
      CASE poll = "removed" ->
             m \in DOMAIN last /\ (m \in DOMAIN seen \/ m \in todo)
               => pipes[m] # None
        [] poll = "current" ->
             m \in DOMAIN seen /\ (m \in DOMAIN last \/ m \notin todo)
               => pipes[m] # None
        [] OTHER -> m \in DOMAIN last => pipes[m] # None

IInv ==
  /\ TypeOK
  /\ Mutex
  /\ Asked
  /\ Todo
  /\ Data
  /\ Presence

-----------------------------------------------------------------------------
(* What a list of monitors holds is a MonitorInfo of a known number.       *)
LEMMA ListEntry ==
  ASSUME NEW l \in Layouts, NEW m \in DOMAIN l
  PROVE  m \in Monitors /\ l[m] \in Infos /\ l[m].number \in Numbers
<1>1. l[m] \in Infos
  BY DEF Infos
<1>2. l[m].number \in Numbers
  BY <1>1 DEF Numbers
<1> QED
  BY <1>1, <1>2, LayoutsAssumption

(* MonitorInfos that differ in the size only are equal once it is copied.  *)
LEMMA SizeCopied ==
  ASSUME NEW a \in Infos, NEW b \in Infos, ~IdentityDiffers(a, b)
  PROVE  [a EXCEPT !.size = b.size] = b
<1>1. \A c \in Infos :
        c = [number |-> c.number, primary |-> c.primary,
             handle |-> c.handle, size |-> c.size]
  BY LayoutsAssumption DEF Infos
<1>2. a.number = b.number /\ a.primary = b.primary /\ a.handle = b.handle
  BY DEF IdentityDiffers
<1> DEFINE RecordOf(n, p, h, z) ==
      [number |-> n, primary |-> p, handle |-> h, size |-> z]
<1>3. \A n, p, h, z, y :
        [RecordOf(n, p, h, z) EXCEPT !.size = y] = RecordOf(n, p, h, y)
  OBVIOUS
<1>4. a = RecordOf(a.number, a.primary, a.handle, a.size)
  BY <1>1
<1>5. b = RecordOf(b.number, b.primary, b.handle, b.size)
  BY <1>1
<1> HIDE DEF RecordOf
<1> QED
  BY <1>2, <1>3, <1>4, <1>5

(* A pipeline that is created for a monitor of the new list is one.        *)
LEMMA CreatedIsPipe ==
  ASSUME TypeOK, NEW m \in DOMAIN seen
  PROVE  Created(m) \in Pipe /\ Created(m) # None
<1>1. seen[m] \in Infos
  BY ListEntry DEF TypeOK
<1>2. Created(m) \in Pipe
  BY <1>1 DEF Created, Pipe, Phases
<1> QED
  BY <1>2, NoneAssumption

(* A step that leaves the infos and the presence of all pipelines.         *)
SamePipes ==
  \A m \in Monitors :
    /\ pipes'[m] = None <=> pipes[m] = None
    /\ pipes[m] # None => pipes'[m].info = pipes[m].info

(* Asking a pipeline to stop.                                              *)
LEMMA AskedPipe ==
  ASSUME TypeOK, NEW m \in Monitors, pipes[m] # None, AskPipelineToStop(m)
  PROVE  /\ pipes' \in [Monitors -> Pipe \cup {None}]
         /\ pipes'[m] # None /\ pipes'[m].stopAsked
         /\ pipes'[m].phase = pipes[m].phase /\ pipes'[m].done = pipes[m].done
         /\ \A k \in Monitors \ {m} : pipes'[k] = pipes[k]
         /\ SamePipes
         /\ joining' = m
<1>1. pipes[m] \in Pipe
  BY DEF TypeOK
<1>2. [pipes[m] EXCEPT !.stopAsked = TRUE] \in Pipe
  BY <1>1 DEF Pipe
<1>3. pipes' = [pipes EXCEPT ![m] = [pipes[m] EXCEPT !.stopAsked = TRUE]]
  BY DEF AskPipelineToStop
<1>4. pipes'[m] = [pipes[m] EXCEPT !.stopAsked = TRUE]
  BY <1>3 DEF TypeOK
<1>5. /\ pipes'[m].stopAsked /\ pipes'[m].info = pipes[m].info
      /\ pipes'[m].phase = pipes[m].phase /\ pipes'[m].done = pipes[m].done
  BY <1>1, <1>4 DEF Pipe
<1>6. pipes'[m] # None
  BY <1>2, <1>4, NoneAssumption
<1>7. \A k \in Monitors \ {m} : pipes'[k] = pipes[k]
  BY <1>3 DEF TypeOK
<1>8. pipes' \in [Monitors -> Pipe \cup {None}]
  BY <1>2, <1>3 DEF TypeOK
<1> QED
  BY <1>5, <1>6, <1>7, <1>8 DEF SamePipes, AskPipelineToStop

(* A step of a pipeline thread changes nothing the supervisor relies on: a *)
(* pipeline that has ended moves no more.                                  *)
LEMMA ThreadStep ==
  ASSUME TypeOK, NEW m \in Monitors, PipelineThread(m)
  PROVE  /\ pipes' \in [Monitors -> Pipe \cup {None}]
         /\ metrics' \in [Numbers -> Phases \cup {None}]
         /\ SamePipes
         /\ \A k \in Monitors :
              pipes[k] # None =>
                /\ pipes'[k].stopAsked = pipes[k].stopAsked
                /\ pipes[k].done => pipes'[k].done
<1>1. pipes[m] # None /\ ~pipes[m].done
  BY DEF PipelineThread, PipelineMoves, PipelineEnds, Alive
<1>2. pipes[m] \in Pipe
  BY <1>1 DEF TypeOK
<1>3. ASSUME NEW q \in Pipe, pipes' = [pipes EXCEPT ![m] = q],
             q.info = pipes[m].info, q.stopAsked = pipes[m].stopAsked
      PROVE  /\ pipes' \in [Monitors -> Pipe \cup {None}]
             /\ SamePipes
             /\ \A k \in Monitors :
                  pipes[k] # None =>
                    /\ pipes'[k].stopAsked = pipes[k].stopAsked
                    /\ pipes[k].done => pipes'[k].done
  <2>1. pipes'[m] = q /\ q # None
    BY <1>3, NoneAssumption DEF TypeOK
  <2>2. \A k \in Monitors \ {m} : pipes'[k] = pipes[k]
    BY <1>3 DEF TypeOK
  <2>3. pipes' \in [Monitors -> Pipe \cup {None}]
    BY <1>3 DEF TypeOK
  <2> QED
    BY <1>1, <1>3, <2>1, <2>2, <2>3 DEF SamePipes
<1>4. ASSUME NEW p \in Phases, Moves(m, p)
      PROVE  /\ pipes' \in [Monitors -> Pipe \cup {None}]
             /\ metrics' \in [Numbers -> Phases \cup {None}]
             /\ SamePipes
             /\ \A k \in Monitors :
                  pipes[k] # None =>
                    /\ pipes'[k].stopAsked = pipes[k].stopAsked
                    /\ pipes[k].done => pipes'[k].done
  <2> DEFINE q == [pipes[m] EXCEPT !.phase = p]
  <2>1. /\ q \in Pipe /\ q.info = pipes[m].info
        /\ q.stopAsked = pipes[m].stopAsked
    BY <1>2 DEF Pipe
  <2>2. pipes' = [pipes EXCEPT ![m] = q]
    BY <1>4 DEF Moves
  <2>3. metrics' \in [Numbers -> Phases \cup {None}]
    BY <1>4 DEF Moves, TypeOK
  <2> HIDE DEF q
  <2> QED
    BY <1>3, <2>1, <2>2, <2>3
<1>5. CASE PipelineMoves(m)
  BY <1>4, <1>5 DEF PipelineMoves, Phases
<1>6. CASE PipelineEnds(m)
  <2> DEFINE q == [pipes[m] EXCEPT !.done = TRUE]
  <2>1. /\ q \in Pipe /\ q.info = pipes[m].info
        /\ q.stopAsked = pipes[m].stopAsked
    BY <1>2 DEF Pipe
  <2>2. pipes' = [pipes EXCEPT ![m] = q]
    BY <1>6 DEF PipelineEnds
  <2>3. metrics' \in [Numbers -> Phases \cup {None}]
    BY <1>6 DEF PipelineEnds, TypeOK
  <2> HIDE DEF q
  <2> QED
    BY <1>3, <2>1, <2>2, <2>3
<1> QED
  BY <1>5, <1>6 DEF PipelineThread

(* Data and presence depend on the infos and on the poll thread alone.     *)
LEMMA KeptWithPipes ==
  ASSUME Data, Presence, SamePipes, UNCHANGED pollVars,
         NotCleared' => NotCleared
  PROVE  Data' /\ Presence'
<1>1. \A m \in Monitors : pipes[m] # None => (AsLast(m) <=> AsLast(m)')
  BY DEF SamePipes, pollVars, AsLast
<1>2. \A m \in Monitors : pipes[m] # None => (AsSeen(m) <=> AsSeen(m)')
  BY <1>1 DEF SamePipes, pollVars, AsSeen
<1>3. Data'
  BY <1>1, <1>2 DEF Data, SamePipes, pollVars
<1>4. Presence'
  BY DEF Presence, SamePipes, pollVars
<1> QED
  BY <1>3, <1>4

-----------------------------------------------------------------------------
LEMMA InitHolds ==
  Init => IInv
<1> SUFFICES ASSUME Init PROVE IInv
  OBVIOUS
<1>1. TypeOK
  <2>1. last \in Layouts \cup {[m \in {} |-> None]}
    BY Zenon DEF Init
  <2>2. metrics \in [Numbers -> Phases \cup {None}]
    BY DEF Init
  <2>3. pipes \in [Monitors -> Pipe \cup {None}]
    BY DEF Init
  <2>4. changes \in 0 .. MaxChanges
    BY BoundAssumption DEF Init
  <2>5. /\ layout \in Layouts /\ seen \in Layouts
        /\ stopFlag \in BOOLEAN /\ joining = None /\ todo \subseteq Monitors
        /\ run = "init" /\ poll = "off"
    BY DEF Init
  <2> QED
    BY <2>1, <2>2, <2>3, <2>4, <2>5 DEF TypeOK
<1>2. DOMAIN last = {}
  BY DEF Init
<1> QED
  BY <1>1, <1>2
     DEF IInv, Init, Mutex, Asked, Todo, Data, Presence, RunHoldsMutex,
         PollHoldsMutex

(* The end of an application: every pipeline has the data of the new list, *)
(* and is otherwise as it was.                                             *)
LEMMA SizesTold ==
  ASSUME TypeOK, Data, ApplyEnds
  PROVE  /\ pipes' \in [Monitors -> Pipe \cup {None}]
         /\ \A m \in Monitors : pipes[m] = None <=> pipes'[m] = None
         /\ \A m \in Monitors :
              pipes[m] # None =>
                /\ m \in DOMAIN seen /\ pipes'[m].info = seen[m]
                /\ pipes'[m].stopAsked = pipes[m].stopAsked
                /\ pipes'[m].phase = pipes[m].phase
                /\ pipes'[m].done = pipes[m].done
<1>1. /\ poll = "current" /\ todo = {}
      /\ \A m \in Monitors :
           pipes'[m] = IF Resized(m)
                       THEN [pipes[m] EXCEPT !.info.size = seen[m].size]
                       ELSE pipes[m]
      /\ DOMAIN pipes' = Monitors
      /\ pipes' = [m \in Monitors |-> pipes'[m]]
  BY DEF ApplyEnds
<1>2. ASSUME NEW m \in Monitors, pipes[m] # None
      PROVE  /\ pipes'[m] \in Pipe
             /\ m \in DOMAIN seen /\ pipes'[m].info = seen[m]
             /\ pipes'[m].stopAsked = pipes[m].stopAsked
             /\ pipes'[m].phase = pipes[m].phase
             /\ pipes'[m].done = pipes[m].done
  <2>1. pipes[m] \in Pipe
    BY <1>2 DEF TypeOK
  <2>2. AsSeen(m)
    BY <1>1, <1>2 DEF Data
  <2>3. m \in DOMAIN seen /\ seen[m] \in Infos
    BY <2>2, ListEntry DEF AsSeen, TypeOK
  <2>4. m \in DOMAIN last => last[m] \in Infos
    <3>1. last \in Layouts \/ DOMAIN last = {}
      BY DEF TypeOK
    <3> QED
      BY <3>1, ListEntry
  <2>5. \A a \in Infos : [a EXCEPT !.size = a.size] = a
    BY SizeCopied DEF IdentityDiffers
  <2>6. [pipes[m].info EXCEPT !.size = seen[m].size] = seen[m]
    BY <2>2, <2>3, <2>4, <2>5, SizeCopied DEF AsSeen, AsLast
  <2>7. CASE Resized(m)
    <3> DEFINE q == [pipes[m] EXCEPT !.info.size = seen[m].size]
    <3>1. q = [pipes[m] EXCEPT !.info = seen[m]]
      BY <2>1, <2>6
    <3>2. /\ q \in Pipe /\ q.info = seen[m]
          /\ q.stopAsked = pipes[m].stopAsked /\ q.phase = pipes[m].phase
          /\ q.done = pipes[m].done
      BY <2>1, <2>3, <3>1 DEF Pipe
    <3>3. pipes'[m] = q
      BY <1>1, <2>7
    <3> QED
      BY <2>3, <3>2, <3>3
  <2>8. CASE ~Resized(m)
    <3>1. pipes'[m] = pipes[m]
      BY <1>1, <2>8
    <3>2. CASE AsLast(m) /\ ~IdentityDiffers(last[m], seen[m])
      <4>1. seen[m].size = last[m].size
        BY <1>2, <2>3, <2>8, <3>2 DEF Resized, AsLast, IdentityDiffers
      <4>2. last[m] = seen[m]
        BY <2>4, <2>5, <2>6, <3>2, <4>1 DEF AsLast
      <4> QED
        BY <2>1, <2>3, <3>1, <3>2, <4>2 DEF AsLast
    <3> QED
      BY <2>1, <2>2, <2>3, <3>1, <3>2 DEF AsSeen
  <2> QED
    BY <2>7, <2>8
<1>3. ASSUME NEW m \in Monitors, pipes[m] = None PROVE pipes'[m] = None
  BY <1>1, <1>3 DEF Resized
<1>4. pipes' \in [Monitors -> Pipe \cup {None}]
  BY <1>1, <1>2, <1>3
<1> QED
  BY <1>2, <1>3, <1>4, NoneAssumption

(* Each step keeps the types.                                              *)
LEMMA TypeStep ==
  ASSUME TypeOK, Mutex, Todo, Data, [Next]_vars
  PROVE  TypeOK'
<1> USE DEF pollVars, desktopVars
<1>1. CASE UNCHANGED vars
  BY <1>1 DEF TypeOK, vars
<1>2. CASE World
  <2>1. CASE ChangeLayout
    BY <2>1, BoundAssumption DEF ChangeLayout, TypeOK
  <2>2. CASE RequestStop
    BY <2>2 DEF RequestStop, TypeOK
  <2> QED
    BY <1>2, <2>1, <2>2 DEF World
<1>3. ASSUME NEW m \in Monitors, PipelineThread(m) PROVE TypeOK'
  <2>1. UNCHANGED <<desktopVars, stopFlag, run, pollVars, joining>>
    BY <1>3 DEF PipelineThread, PipelineMoves, PipelineEnds
  <2>2. joining # None => joining \in Monitors
    BY DEF TypeOK
  <2>3. joining # None => pipes'[joining] # None /\ pipes'[joining].stopAsked
    BY <1>3, <2>2, ThreadStep DEF TypeOK, SamePipes
  <2> QED
    BY <1>3, <2>1, <2>3, ThreadStep DEF TypeOK
<1>4. CASE MainThread
  <2>1. CASE Run
    BY <2>1 DEF Run, TypeOK
  <2>2. CASE StopAllBegins
    BY <2>2 DEF StopAllBegins, TypeOK
  <2>3. CASE ClearPipelines
    BY <2>3 DEF ClearPipelines, TypeOK
  <2>4. CASE StopAudio
    BY <2>4 DEF StopAudio, TypeOK
  <2>5. CASE RunReturns
    BY <2>5 DEF RunReturns, TypeOK
  <2>6. ASSUME NEW m \in Monitors, StopNext(m) PROVE TypeOK'
    BY <2>6, AskedPipe DEF StopNext, TypeOK
  <2>7. ASSUME NEW m \in Monitors, NextStopped(m) PROVE TypeOK'
    BY <2>7 DEF NextStopped, TypeOK
  <2> QED
    BY <1>4, <2>1, <2>2, <2>3, <2>4, <2>5, <2>6, <2>7 DEF MainThread
<1>5. CASE PollThread
  <2>1. CASE Enumerate
    BY <2>1 DEF Enumerate, TypeOK
  <2>2. CASE PollEnds
    BY <2>2 DEF PollEnds, TypeOK
  <2>3. CASE ApplyBegins
    <3>1. last \in Layouts \cup {[m \in {} |-> None]}
      BY DEF TypeOK
    <3>2. DOMAIN last \subseteq Monitors
      BY <3>1, LayoutsAssumption
    <3> QED
      BY <2>3, <3>2 DEF ApplyBegins, TypeOK
  <2>4. CASE CurrentBegins
    BY <2>4, LayoutsAssumption DEF CurrentBegins, TypeOK
  <2>5. CASE ApplyEnds
    <3>1. joining # None => pipes[joining] # None /\ joining \in Monitors
      BY DEF TypeOK
    <3>2. joining # None => pipes'[joining] # None /\ pipes'[joining].stopAsked
      BY <2>5, <3>1, SizesTold DEF TypeOK
    <3>3. pipes' \in [Monitors -> Pipe \cup {None}]
      BY <2>5, SizesTold
    <3> QED
      BY <2>5, <3>2, <3>3 DEF ApplyEnds, TypeOK
  <2>6. CASE PollSleeps
    BY <2>6 DEF PollSleeps, TypeOK
  <2>7. ASSUME NEW m \in Monitors, StopRemoved(m) \/ StopForRestart(m)
        PROVE  TypeOK'
    BY <2>7, AskedPipe DEF StopRemoved, StopForRestart, TypeOK
  <2>8. ASSUME NEW m \in Monitors, EraseRemoved(m) PROVE TypeOK'
    BY <2>8 DEF EraseRemoved, TypeOK
  <2>9. ASSUME NEW m \in Monitors, SkipRemoved(m) \/ KeepPipeline(m)
        PROVE  TypeOK'
    BY <2>9 DEF SkipRemoved, KeepPipeline, TypeOK
  <2>10. ASSUME NEW m \in Monitors, StartPipeline(m) \/ RestartPipeline(m)
         PROVE  TypeOK'
    <3>1. m \in DOMAIN seen
      BY <2>10, NoneAssumption
         DEF StartPipeline, RestartPipeline, PipelineJoined, Todo, Mutex,
             PollHoldsMutex
    <3>2. Created(m) \in Pipe
      BY <3>1, CreatedIsPipe
    <3> HIDE DEF Created
    <3> QED
      BY <2>10, <3>2 DEF StartPipeline, RestartPipeline, TypeOK
  <2> QED
    BY <1>5, <2>1, <2>2, <2>3, <2>4, <2>5, <2>6, <2>7, <2>8, <2>9, <2>10
       DEF PollThread
<1> QED
  BY <1>1, <1>2, <1>3, <1>4, <1>5 DEF Next

(* The actions that leave the map and the poll thread alone.               *)
LEMMA MutexStep ==
  ASSUME TypeOK, Mutex, [Next]_vars
  PROVE  Mutex'
<1> USE NoneAssumption DEF pollVars, desktopVars, Mutex, RunHoldsMutex,
                           PollHoldsMutex
<1>1. CASE UNCHANGED vars
  BY <1>1 DEF vars
<1>2. CASE World
  BY <1>2 DEF World, ChangeLayout, RequestStop
<1>3. ASSUME NEW m \in Monitors, PipelineThread(m) PROVE Mutex'
  BY <1>3 DEF PipelineThread, PipelineMoves, PipelineEnds
<1>4. CASE MainThread
  BY <1>4 DEF MainThread, Run, StopAllBegins, ClearPipelines, StopAudio,
              RunReturns, StopNext, NextStopped, AskPipelineToStop
<1>5. CASE PollThread
  <2>1. CASE \/ Enumerate \/ PollEnds \/ ApplyBegins \/ CurrentBegins
             \/ ApplyEnds \/ PollSleeps
    BY <2>1 DEF Enumerate, PollEnds, ApplyBegins, CurrentBegins, ApplyEnds,
                PollSleeps
  <2>2. ASSUME NEW m \in Monitors, StopRemoved(m) \/ StopForRestart(m)
        PROVE  Mutex'
    BY <2>2 DEF StopRemoved, StopForRestart, AskPipelineToStop
  <2>3. ASSUME NEW m \in Monitors,
               \/ EraseRemoved(m) \/ SkipRemoved(m) \/ KeepPipeline(m)
               \/ StartPipeline(m) \/ RestartPipeline(m)
        PROVE  Mutex'
    BY <2>3 DEF EraseRemoved, SkipRemoved, KeepPipeline, StartPipeline,
                RestartPipeline
  <2> QED
    BY <1>5, <2>1, <2>2, <2>3 DEF PollThread
<1> QED
  BY <1>1, <1>2, <1>3, <1>4, <1>5 DEF Next

LEMMA TodoStep ==
  ASSUME TypeOK, Todo, [Next]_vars
  PROVE  Todo'
<1> USE DEF pollVars, desktopVars, Todo
<1>1. CASE UNCHANGED vars
  BY <1>1 DEF vars
<1>2. CASE World
  BY <1>2 DEF World, ChangeLayout, RequestStop
<1>3. ASSUME NEW m \in Monitors, PipelineThread(m) PROVE Todo'
  BY <1>3 DEF PipelineThread, PipelineMoves, PipelineEnds
<1>4. CASE MainThread
  BY <1>4 DEF MainThread, Run, StopAllBegins, ClearPipelines, StopAudio,
              RunReturns, StopNext, NextStopped
<1>5. CASE PollThread
  <2>1. CASE \/ Enumerate \/ PollEnds \/ ApplyBegins \/ CurrentBegins
             \/ ApplyEnds \/ PollSleeps
    BY <2>1 DEF Enumerate, PollEnds, ApplyBegins, CurrentBegins, ApplyEnds,
                PollSleeps
  <2>2. ASSUME NEW m \in Monitors,
               \/ StopRemoved(m) \/ EraseRemoved(m) \/ SkipRemoved(m)
               \/ KeepPipeline(m) \/ StartPipeline(m)
               \/ StopForRestart(m) \/ RestartPipeline(m)
        PROVE  Todo'
    BY <2>2 DEF StopRemoved, EraseRemoved, SkipRemoved, KeepPipeline,
                StartPipeline, StopForRestart, RestartPipeline
  <2> QED
    BY <1>5, <2>1, <2>2 DEF PollThread
<1> QED
  BY <1>1, <1>2, <1>3, <1>4, <1>5 DEF Next

(* Asked pipelines are being joined: whoever takes the mutex finds none.   *)
LEMMA AskedStep ==
  ASSUME IInv, [Next]_vars
  PROVE  Asked'
<1> USE NoneAssumption DEF pollVars, desktopVars, IInv
<1>1. CASE UNCHANGED vars
  BY <1>1 DEF vars, Asked
<1>2. CASE World
  BY <1>2 DEF World, ChangeLayout, RequestStop, Asked
<1>3. ASSUME NEW m \in Monitors, PipelineThread(m) PROVE Asked'
  <2>1. UNCHANGED <<run, joining>>
    BY <1>3 DEF PipelineThread, PipelineMoves, PipelineEnds
  <2> QED
    BY <1>3, <2>1, ThreadStep DEF Asked, SamePipes
<1>4. CASE MainThread
  <2>1. CASE Run
    BY <2>1 DEF Run, Asked
  <2>2. CASE StopAllBegins
    BY <2>2 DEF StopAllBegins, Asked
  <2>3. CASE ClearPipelines
    BY <2>3 DEF ClearPipelines, Asked
  <2>4. CASE StopAudio \/ RunReturns
    BY <2>4 DEF StopAudio, RunReturns, Asked
  <2>5. ASSUME NEW m \in Monitors, StopNext(m) PROVE Asked'
    BY <2>5, AskedPipe DEF StopNext, Asked
  <2>6. ASSUME NEW m \in Monitors, NextStopped(m) PROVE Asked'
    BY <2>6 DEF NextStopped, PipelineJoined, Asked
  <2> QED
    BY <1>4, <2>1, <2>2, <2>3, <2>4, <2>5, <2>6 DEF MainThread
<1>5. CASE PollThread
  <2>1. CASE \/ Enumerate \/ PollEnds \/ ApplyBegins \/ CurrentBegins
             \/ PollSleeps
    BY <2>1 DEF Enumerate, PollEnds, ApplyBegins, CurrentBegins, PollSleeps,
                Asked
  <2>2. CASE ApplyEnds
    <3>1. UNCHANGED <<run, joining>>
      BY <2>2 DEF ApplyEnds
    <3> QED
      BY <2>2, <3>1, SizesTold DEF Asked
  <2>3. ASSUME NEW m \in Monitors, StopRemoved(m) \/ StopForRestart(m)
        PROVE  Asked'
    BY <2>3, AskedPipe DEF StopRemoved, StopForRestart, Asked
  <2>4. ASSUME NEW m \in Monitors, EraseRemoved(m) PROVE Asked'
    BY <2>4 DEF EraseRemoved, PipelineJoined, Asked, TypeOK
  <2>5. ASSUME NEW m \in Monitors, SkipRemoved(m) \/ KeepPipeline(m)
        PROVE  Asked'
    BY <2>5 DEF SkipRemoved, KeepPipeline, Asked
  <2>6. ASSUME NEW m \in Monitors, StartPipeline(m) \/ RestartPipeline(m)
        PROVE  Asked'
    <3>1. /\ pipes' = [pipes EXCEPT ![m] = Created(m)]
          /\ run' = run /\ joining' = None
          /\ joining \in {None, m}
      BY <2>6 DEF StartPipeline, RestartPipeline, PipelineJoined
    <3>2. ~Created(m).stopAsked
      BY DEF Created
    <3> HIDE DEF Created
    <3> QED
      BY <3>1, <3>2 DEF Asked, TypeOK
  <2> QED
    BY <1>5, <2>1, <2>2, <2>3, <2>4, <2>5, <2>6 DEF PollThread
<1> QED
  BY <1>1, <1>2, <1>3, <1>4, <1>5 DEF Next

-----------------------------------------------------------------------------
(* The steps of the poll thread while it holds the mutex, each for the     *)
(* data of the pipelines and for their presence.                           *)

LEMMA EraseData ==
  ASSUME IInv, NEW m \in Monitors, EraseRemoved(m)
  PROVE  Data' /\ Presence'
<1>1. /\ poll = "removed" /\ m \in todo
      /\ pipes' = [pipes EXCEPT ![m] = None] /\ todo' = todo \ {m}
      /\ poll' = poll /\ seen' = seen /\ last' = last /\ run' = run
  BY NoneAssumption
     DEF IInv, EraseRemoved, PipelineJoined, Mutex, PollHoldsMutex
<1>2. m \in DOMAIN last /\ m \notin DOMAIN seen
  BY <1>1 DEF IInv, Todo
<1>3. pipes'[m] = None /\ \A k \in Monitors \ {m} : pipes'[k] = pipes[k]
  BY <1>1 DEF IInv, TypeOK
<1>4. Data'
  BY <1>1, <1>2, <1>3 DEF IInv, Data, AsLast
<1>5. Presence'
  BY <1>1, <1>2, <1>3 DEF IInv, Presence, NotCleared
<1> QED
  BY <1>4, <1>5

LEMMA SkipData ==
  ASSUME IInv, NEW m \in Monitors, SkipRemoved(m)
  PROVE  Data' /\ Presence'
<1>1. /\ poll = "removed" /\ m \in todo /\ pipes[m] = None
      /\ todo' = todo \ {m}
      /\ UNCHANGED <<poll, seen, last, run, pipes>>
  BY DEF SkipRemoved
<1>2. m \in DOMAIN last /\ m \notin DOMAIN seen
  BY <1>1 DEF IInv, Todo
<1>3. Data'
  BY <1>1 DEF IInv, Data, AsLast
<1>4. Presence'
  BY <1>1, <1>2 DEF IInv, Presence, NotCleared
<1> QED
  BY <1>3, <1>4

LEMMA KeepData ==
  ASSUME IInv, NEW m \in Monitors, KeepPipeline(m)
  PROVE  Data' /\ Presence'
<1>1. /\ poll = "current" /\ m \in todo /\ pipes[m] # None
      /\ todo' = todo \ {m} /\ ~NeedsRestart(m)
      /\ UNCHANGED <<poll, seen, last, run, pipes>>
  BY DEF KeepPipeline
<1>2. AsLast(m) /\ AsSeen(m)
  BY <1>1 DEF IInv, Data, Todo, NeedsRestart, AsSeen, AsLast
<1>3. \A k \in Monitors : (AsLast(k) <=> AsLast(k)') /\ (AsSeen(k) <=> AsSeen(k)')
  BY <1>1 DEF AsLast, AsSeen
<1>4. Data'
  BY <1>1, <1>2, <1>3 DEF IInv, Data
<1>5. Presence'
  BY <1>1 DEF IInv, Presence, NotCleared
<1> QED
  BY <1>4, <1>5

LEMMA CreateData ==
  ASSUME IInv, NEW m \in Monitors, StartPipeline(m) \/ RestartPipeline(m)
  PROVE  Data' /\ Presence'
<1>1. /\ poll = "current" /\ m \in todo
      /\ pipes' = [pipes EXCEPT ![m] = Created(m)] /\ todo' = todo \ {m}
      /\ poll' = poll /\ seen' = seen /\ last' = last /\ run' = run
  BY NoneAssumption
     DEF IInv, StartPipeline, RestartPipeline, PipelineJoined, Mutex,
         PollHoldsMutex
<1>2. m \in DOMAIN seen
  BY <1>1 DEF IInv, Todo
<1>3. Created(m) # None /\ Created(m).info = seen[m]
  BY <1>2, CreatedIsPipe DEF IInv, Created
<1> HIDE DEF Created
<1>4. pipes'[m] = Created(m) /\ \A k \in Monitors \ {m} : pipes'[k] = pipes[k]
  BY <1>1 DEF IInv, TypeOK
<1>5. AsSeen(m)'
  BY <1>1, <1>2, <1>3, <1>4 DEF AsSeen
<1>6. \A k \in Monitors \ {m} :
        (AsLast(k) <=> AsLast(k)') /\ (AsSeen(k) <=> AsSeen(k)')
  BY <1>1, <1>4 DEF AsLast, AsSeen
<1>7. Data'
  BY <1>1, <1>2, <1>4, <1>5, <1>6 DEF IInv, Data
<1>8. Presence'
  BY <1>1, <1>3, <1>4 DEF IInv, Presence, NotCleared
<1> QED
  BY <1>7, <1>8

LEMMA ApplyEndsData ==
  ASSUME IInv, ApplyEnds
  PROVE  Data' /\ Presence'
<1>1. /\ poll = "current" /\ todo = {} /\ poll' = "sleep"
      /\ last' = seen /\ seen' = seen /\ run' = run
  BY DEF ApplyEnds
<1>2. Data'
  BY <1>1, SizesTold DEF IInv, Data, AsLast
<1>3. Presence'
  BY <1>1, SizesTold DEF IInv, Presence, NotCleared
<1> QED
  BY <1>2, <1>3

LEMMA LoopBegins ==
  ASSUME IInv,
         \/ Enumerate \/ PollEnds \/ ApplyBegins \/ CurrentBegins
         \/ PollSleeps
  PROVE  Data' /\ Presence'
<1>1. UNCHANGED <<run, last, pipes>>
  BY DEF Enumerate, PollEnds, ApplyBegins, CurrentBegins, PollSleeps
<1>2. \A k \in Monitors : AsLast(k) <=> AsLast(k)'
  BY <1>1 DEF AsLast
<1>3. CASE Enumerate \/ PollEnds \/ PollSleeps
  <2>1. poll \in {"check", "sleep"} /\ poll' \in {"lock", "ended", "check"}
    BY <1>3 DEF Enumerate, PollEnds, PollSleeps
  <2> QED
    BY <1>1, <1>2, <2>1 DEF IInv, Data, Presence, NotCleared
<1>4. CASE ApplyBegins
  <2>1. /\ poll = "lock" /\ poll' = "removed" /\ seen' = seen
        /\ todo' = DOMAIN last \ DOMAIN seen
    BY <1>4 DEF ApplyBegins
  <2>2. Data'
    BY <1>1, <1>2, <2>1 DEF IInv, Data, AsLast
  <2>3. Presence'
    BY <1>1, <2>1 DEF IInv, Presence, NotCleared
  <2> QED
    BY <2>2, <2>3
<1>5. CASE CurrentBegins
  <2>1. /\ poll = "removed" /\ poll' = "current" /\ seen' = seen
        /\ todo = {} /\ todo' = DOMAIN seen
    BY <1>5 DEF CurrentBegins
  <2>2. Data'
    BY <1>1, <1>2, <2>1 DEF IInv, Data, AsLast
  <2>3. Presence'
    BY <1>1, <2>1 DEF IInv, Presence, NotCleared
  <2> QED
    BY <2>2, <2>3
<1> QED
  BY <1>3, <1>4, <1>5

LEMMA DataStep ==
  ASSUME IInv, [Next]_vars
  PROVE  Data' /\ Presence'
<1> USE DEF pollVars, desktopVars
<1>1. CASE UNCHANGED vars \/ World
  <2>1. UNCHANGED <<run, pollVars, pipes>>
    BY <1>1 DEF vars, World, ChangeLayout, RequestStop
  <2> QED
    BY <2>1, KeptWithPipes DEF IInv, SamePipes, NotCleared
<1>2. ASSUME NEW m \in Monitors, PipelineThread(m) PROVE Data' /\ Presence'
  <2>1. UNCHANGED <<run, pollVars>>
    BY <1>2 DEF PipelineThread, PipelineMoves, PipelineEnds
  <2> QED
    BY <1>2, <2>1, ThreadStep, KeptWithPipes DEF IInv, NotCleared
<1>3. CASE MainThread
  <2>1. CASE \/ StopAllBegins \/ StopAudio \/ RunReturns
             \/ \E m \in Monitors : NextStopped(m)
    <3>1. UNCHANGED <<pollVars, pipes>> /\ (NotCleared' => NotCleared)
      BY <2>1 DEF StopAllBegins, StopAudio, RunReturns, NextStopped,
                  NotCleared
    <3> QED
      BY <3>1, KeptWithPipes DEF IInv, SamePipes
  <2>2. CASE Run
    <3>1. /\ UNCHANGED <<last, pipes>> /\ NotCleared
          /\ poll = "off" /\ poll' = "check"
      BY <2>2 DEF Run, IInv, Mutex, NotCleared
    <3>2. \A k \in Monitors : AsLast(k) <=> AsLast(k)'
      BY <3>1 DEF AsLast
    <3> QED
      BY <3>1, <3>2 DEF IInv, Data, Presence
  <2>3. ASSUME NEW m \in Monitors, StopNext(m) PROVE Data' /\ Presence'
    <3>1. UNCHANGED <<run, pollVars>>
      BY <2>3 DEF StopNext
    <3> QED
      BY <2>3, <3>1, AskedPipe, KeptWithPipes DEF StopNext, IInv, NotCleared
  <2>4. CASE ClearPipelines
    BY <2>4 DEF ClearPipelines, Data, Presence, NotCleared
  <2> QED
    BY <1>3, <2>1, <2>2, <2>3, <2>4 DEF MainThread
<1>4. CASE PollThread
  <2>1. ASSUME NEW m \in Monitors, StopRemoved(m) \/ StopForRestart(m)
        PROVE  Data' /\ Presence'
    <3>1. UNCHANGED <<run, pollVars>>
      BY <2>1 DEF StopRemoved, StopForRestart
    <3> QED
      BY <2>1, <3>1, AskedPipe, KeptWithPipes
         DEF StopRemoved, StopForRestart, IInv, NotCleared
  <2> QED
    BY <1>4, <2>1, LoopBegins, ApplyEndsData, EraseData, SkipData, KeepData,
       CreateData
       DEF PollThread
<1> QED
  BY <1>1, <1>2, <1>3, <1>4 DEF Next

-----------------------------------------------------------------------------
LEMMA StepHolds ==
  IInv /\ [Next]_vars => IInv'
BY TypeStep, MutexStep, TodoStep, AskedStep, DataStep DEF IInv

THEOREM Invariance == Spec => []IInv
BY InitHolds, StepHolds, PTL DEF Spec

(* Every variable of the supervisor keeps its type.                        *)
THEOREM TypeCorrect == Spec => []TypeOK
<1>1. IInv => TypeOK
  BY DEF IInv
<1> QED
  BY <1>1, Invariance, PTL

(* Between two polls the map serves the last list exactly: what the loops  *)
(* have left is nothing, so presence and data say it.                      *)
THEOREM MapMatches == Spec => []PipelinesMatchLayout
<1>1. IInv => PipelinesMatchLayout
  BY DEF IInv, PipelinesMatchLayout, Data, Presence, AsLast, NotCleared,
         PollHoldsMutex
<1> QED
  BY <1>1, Invariance, PTL

-----------------------------------------------------------------------------
(* The supervisor and PipelineContract.                                    *)

(* A pipeline that a step does not touch.                                  *)
LEMMA Untouched ==
  ASSUME NEW m \in Monitors, pipes'[m] = pipes[m]
  PROVE  KeptUnderContract(m)
BY DEF KeptUnderContract, Pipeline!contractVars

(* A call of stop() for one pipeline.                                      *)
LEMMA AskKeepsContract ==
  ASSUME TypeOK, NEW k \in Monitors, pipes[k] # None, AskPipelineToStop(k),
         NEW m \in Monitors
  PROVE  KeptUnderContract(m)
<1>1. CASE m # k
  BY <1>1, AskedPipe, Untouched
<1>2. CASE m = k
  <2>1. pipes'[m].info = pipes[m].info /\ pipes'[m] # None
    BY <1>2, AskedPipe DEF SamePipes
  <2>2. Pipeline(m)!AskStop
    BY <1>2, <2>1, AskedPipe DEF Pipeline!AskStop
  <2> QED
    BY <1>2, <2>1, <2>2
       DEF KeptUnderContract, Pipeline!ContractNext, Pipeline!SupervisorStep
<1> QED
  BY <1>1, <1>2

(* A step of a pipeline, as its contract allows it.                        *)
LEMMA ThreadKeepsContract ==
  ASSUME TypeOK, NEW k \in Monitors, PipelineThread(k), NEW m \in Monitors
  PROVE  KeptUnderContract(m)
<1>1. pipes[k] \in Pipe /\ pipes[k] # None /\ ~pipes[k].done
  BY DEF PipelineThread, PipelineMoves, PipelineEnds, Alive, TypeOK
<1>2. CASE m # k
  BY <1>2, Untouched
     DEF PipelineThread, PipelineMoves, PipelineEnds, Moves, TypeOK
<1>3. CASE m = k
  <2>1. pipes'[m] # None
    BY <1>1, <1>3, ThreadStep DEF SamePipes
  <2>2. CASE PipelineMoves(k)
    <3>1. PICK p \in Phases :
            /\ pipes'[m] = [pipes[m] EXCEPT !.phase = p]
            /\ \/ pipes[m].phase \in {"INIT", "ACTIVE"}
                  /\ p \in {"ACTIVE", "FATAL"}
               \/ /\ pipes[m].phase = "ACTIVE" /\ pipes[m].stopAsked
                  /\ p = "STOPPING"
      BY <1>1, <1>3, <2>2 DEF PipelineMoves, Moves, Phases, TypeOK
    <3>2. /\ pipes'[m].phase = p /\ pipes'[m].info = pipes[m].info
          /\ pipes'[m].stopAsked = pipes[m].stopAsked
          /\ pipes'[m].done = pipes[m].done
      BY <1>1, <1>3, <3>1 DEF Pipe
    <3>3. Pipeline(m)!Move \/ UNCHANGED Pipeline(m)!contractVars
      BY <1>1, <1>3, <3>1, <3>2 DEF Pipeline!Move, Pipeline!contractVars
    <3> QED
      BY <1>1, <1>3, <2>1, <3>3
         DEF KeptUnderContract, Pipeline!ContractNext, Pipeline!PipelineStep
  <2>3. CASE PipelineEnds(k)
    <3>1. pipes'[m] = [pipes[m] EXCEPT !.done = TRUE]
      BY <1>1, <1>3, <2>3 DEF PipelineEnds, TypeOK
    <3>2. /\ pipes'[m].phase = pipes[m].phase
          /\ pipes'[m].info = pipes[m].info
          /\ pipes'[m].stopAsked = pipes[m].stopAsked
          /\ pipes'[m].done = TRUE
      BY <1>1, <1>3, <3>1 DEF Pipe
    <3>3. Pipeline(m)!Finish
      BY <1>1, <1>3, <2>3, <3>2 DEF PipelineEnds, Pipeline!Finish
    <3> QED
      BY <1>1, <1>3, <2>1, <3>3
         DEF KeptUnderContract, Pipeline!ContractNext, Pipeline!PipelineStep
  <2> QED
    BY <2>2, <2>3 DEF PipelineThread
<1> QED
  BY <1>2, <1>3

(* The notices of new sizes come when no pipeline has been asked to stop.  *)
LEMMA TellKeepsContract ==
  ASSUME IInv, ApplyEnds, NEW m \in Monitors
  PROVE  KeptUnderContract(m)
<1> USE DEF IInv
<1>1. CASE pipes[m] = None
  BY <1>1, SizesTold DEF KeptUnderContract
<1>2. CASE pipes[m] # None
  <2>1. ~pipes[m].stopAsked
    <3>1. poll = "current" /\ todo = {}
      BY DEF ApplyEnds
    <3>2. joining = None /\ run # "stopAll"
      BY <3>1 DEF Mutex, PollHoldsMutex, RunHoldsMutex
    <3> QED
      BY <1>2, <3>2, NoneAssumption DEF Asked
  <2>2. /\ pipes'[m] # None
        /\ pipes'[m].stopAsked = pipes[m].stopAsked
        /\ pipes'[m].phase = pipes[m].phase
        /\ pipes'[m].done = pipes[m].done
    BY <1>2, SizesTold
  <2>3. Pipeline(m)!Tell
    BY <2>1, <2>2 DEF Pipeline!Tell
  <2> QED
    BY <1>2, <2>2, <2>3
       DEF KeptUnderContract, Pipeline!ContractNext, Pipeline!SupervisorStep
<1> QED
  BY <1>1, <1>2

(* A pipeline is erased, started or replaced where there is none or its    *)
(* thread has been joined.                                                 *)
LEMMA ChangeKeepsContract ==
  ASSUME TypeOK, NEW k \in Monitors, NEW m \in Monitors,
         EraseRemoved(k) \/ StartPipeline(k) \/ RestartPipeline(k)
  PROVE  KeptUnderContract(m)
<1>1. pipes \in [Monitors -> Pipe \cup {None}]
  BY DEF TypeOK
<1>2. CASE m # k
  <2>1. pipes'[m] = pipes[m]
    BY <1>1, <1>2 DEF EraseRemoved, StartPipeline, RestartPipeline
  <2> QED
    BY <2>1, Untouched
<1>3. CASE m = k
  <2>1. pipes[m] = None \/ pipes[m].done
    BY <1>3 DEF EraseRemoved, StartPipeline, RestartPipeline, PipelineJoined
  <2>2. pipes'[m] = None \/ pipes'[m] = Created(m)
    BY <1>1, <1>3 DEF EraseRemoved, StartPipeline, RestartPipeline
  <2>3. pipes'[m] = Created(m) => Pipeline(m)!ContractInit'
    BY DEF Created, Pipeline!ContractInit
  <2> QED
    BY <2>1, <2>2, <2>3 DEF KeptUnderContract
<1> QED
  BY <1>2, <1>3

(* The supervisor keeps its part of PipelineContract with every pipeline,  *)
(* for all monitors and desktops: no size is told after a stop(), and a    *)
(* pipeline is erased or replaced only when its thread has been joined,    *)
(* which run() does for each of them before it clears the map.             *)
THEOREM ContractKept == Spec => PipelinesKeepContract
<1>1. ASSUME IInv, [Next]_vars, NEW m \in Monitors
      PROVE  KeptUnderContract(m)
  <2> USE <1>1 DEF IInv
  <2>1. CASE UNCHANGED pipes
    BY <2>1, Untouched
  <2>2. ASSUME NEW k \in Monitors, PipelineThread(k)
        PROVE  KeptUnderContract(m)
    BY <2>2, ThreadKeepsContract
  <2>3. CASE ClearPipelines
    <3>1. pipes[m] # None => pipes[m].done
      BY <2>3, NoneAssumption DEF ClearPipelines, Asked
    <3>2. pipes'[m] = None
      BY <2>3 DEF ClearPipelines
    <3> QED
      BY <3>1, <3>2 DEF KeptUnderContract
  <2>4. ASSUME NEW k \in Monitors,
               StopNext(k) \/ StopRemoved(k) \/ StopForRestart(k)
        PROVE  KeptUnderContract(m)
    BY <2>4, AskKeepsContract DEF StopNext, StopRemoved, StopForRestart
  <2>5. CASE ApplyEnds
    BY <2>5, TellKeepsContract
  <2>6. ASSUME NEW k \in Monitors,
               EraseRemoved(k) \/ StartPipeline(k) \/ RestartPipeline(k)
        PROVE  KeptUnderContract(m)
    BY <2>6, ChangeKeepsContract
  <2>7. CASE UNCHANGED vars \/ World
    BY <2>1, <2>7 DEF vars, World, ChangeLayout, RequestStop
  <2>8. CASE MainThread
    BY <2>1, <2>3, <2>4, <2>8
       DEF MainThread, Run, StopAllBegins, StopAudio, RunReturns, NextStopped
  <2>9. CASE PollThread
    BY <2>1, <2>4, <2>5, <2>6, <2>9
       DEF PollThread, Enumerate, PollEnds, ApplyBegins, CurrentBegins,
           PollSleeps, SkipRemoved, KeepPipeline
  <2> QED
    BY <2>2, <2>7, <2>8, <2>9 DEF Next
<1>2. IInv /\ [Next]_vars => [\A m \in Monitors : KeptUnderContract(m)]_vars
  BY <1>1
<1> QED
  BY <1>2, Invariance, PTL DEF Spec, PipelinesKeepContract

(* And it expects all that the contract lets a pipeline do: whenever one   *)
(* that has the type of the map takes a step of its part of the contract,  *)
(* and its callback stores a new state in the metrics, that is a step of   *)
(* PipelineThread.  Since ScreenPipeline keeps the contract, the pipelines *)
(* of the supervisor's model leave out nothing that a real one may do.     *)
THEOREM ContractExpected ==
  ASSUME TypeOK, NEW m \in Monitors, pipes[m] # None,
         NEW p \in Pipe, p.info = pipes[m].info,
         pipes' = [pipes EXCEPT ![m] = p],
         Pipeline(m)!PipelineStep,
         metrics' = IF p.phase = pipes[m].phase THEN metrics
                    ELSE [metrics EXCEPT ![p.info.number] = p.phase],
         UNCHANGED <<desktopVars, stopFlag, run, pollVars, joining>>
  PROVE  PipelineThread(m) \/ UNCHANGED vars
<1>1. pipes[m] \in Pipe /\ pipes'[m] = p
  BY DEF TypeOK
<1>2. /\ ~pipes[m].done
      /\ \A q \in Pipe : q = [info |-> q.info, phase |-> q.phase,
                             stopAsked |-> q.stopAsked, done |-> q.done]
  BY <1>1
     DEF Pipeline!PipelineStep, Pipeline!Move, Pipeline!Publish,
         Pipeline!Finish, Pipe
<1>3. CASE Pipeline(m)!Move
  <2>1. p = [pipes[m] EXCEPT !.phase = p.phase]
    BY <1>1, <1>3 DEF Pipeline!Move, Pipe
  <2>2. Moves(m, p.phase)
    BY <1>1, <1>3, <2>1 DEF Moves, Pipeline!Move
  <2> QED
    BY <1>1, <1>2, <1>3, <2>2
       DEF Pipeline!Move, PipelineThread, PipelineMoves, Alive
<1>4. CASE Pipeline(m)!Publish
  <2>1. p = pipes[m]
    BY <1>1, <1>2, <1>4 DEF Pipeline!Publish
  <2>2. pipes' = pipes /\ metrics' = metrics
    BY <2>1 DEF TypeOK
  <2> QED
    BY <2>2 DEF vars
<1>5. CASE Pipeline(m)!Finish
  <2>1. p = [pipes[m] EXCEPT !.done = TRUE]
    BY <1>1, <1>5 DEF Pipeline!Finish, Pipe
  <2>2. metrics' = metrics
    BY <1>1, <1>5 DEF Pipeline!Finish
  <2> QED
    BY <1>1, <1>2, <1>5, <2>1, <2>2
       DEF Pipeline!Finish, PipelineThread, PipelineEnds, Alive
<1> QED
  BY <1>3, <1>4, <1>5 DEF Pipeline!PipelineStep

-----------------------------------------------------------------------------
(* An output keeps its handle from list to list: a monitor that has the    *)
(* handle another one has in some list, like a display that goes by its    *)
(* device name for a poll, is not in that list.                            *)
HandlesStay ==
  \A a, b \in Layouts : \A m \in DOMAIN a, k \in DOMAIN b :
    m # k /\ a[m].handle = b[k].handle => m \notin DOMAIN b

(* A pipeline that lives has the handle of its monitor in one list: in the *)
(* new one from the visit of the poll on, in the last one before.          *)
LEMMA HandleOf ==
  ASSUME IInv, NEW m \in Monitors, pipes[m] # None
  PROVE  /\ \/ /\ m \in DOMAIN last /\ last \in Layouts
               /\ pipes[m].info.handle = last[m].handle
            \/ /\ poll = "current"
               /\ m \in DOMAIN seen /\ seen \in Layouts
               /\ pipes[m].info.handle = seen[m].handle
         /\ poll = "current" => m \in DOMAIN seen
<1>1. AsLast(m) \/ (poll = "current" /\ AsSeen(m))
  BY DEF IInv, Data
<1>2. poll = "current" => m \in DOMAIN seen
  BY DEF IInv, Data
<1>3. seen \in Layouts /\ (m \in DOMAIN last => last \in Layouts)
  BY DEF IInv, TypeOK
<1> QED
  BY <1>1, <1>2, <1>3 DEF AsLast, AsSeen

(* If outputs keep their handles, no two pipelines that live capture the   *)
(* same output, for all monitors and desktops: the removed monitors come   *)
(* first, so during the loop over the current ones only these have         *)
(* pipelines, and no two of them share a handle in one list or in two.     *)
THEOREM OneUser ==
  ASSUME HandlesStay
  PROVE  Spec => []OneUserPerOutput
<1>1. IInv => OneUserPerOutput
  <2> SUFFICES ASSUME IInv, NEW m \in Monitors, NEW k \in Monitors,
                      m # k, pipes[m] # None, pipes[k] # None,
                      pipes[m].info.handle = pipes[k].info.handle
               PROVE  FALSE
    BY DEF OneUserPerOutput, Alive
  <2> DEFINE Of(j, l) == j \in DOMAIN l /\ l \in Layouts
                         /\ pipes[j].info.handle = l[j].handle
  <2>1. Of(m, last) \/ (poll = "current" /\ Of(m, seen))
    BY HandleOf
  <2>2. Of(k, last) \/ (poll = "current" /\ Of(k, seen))
    BY HandleOf
  <2>3. poll = "current" => m \in DOMAIN seen /\ k \in DOMAIN seen
    BY HandleOf
  <2>4. ASSUME NEW a, NEW b, Of(m, a), Of(k, b)
        PROVE  m \notin DOMAIN b /\ k \notin DOMAIN a
    BY <2>4 DEF HandlesStay
  <2>5. CASE Of(m, last) /\ Of(k, last)
    BY <2>4, <2>5
  <2>6. CASE poll = "current" /\ (Of(m, seen) \/ Of(k, seen))
    BY <2>1, <2>2, <2>3, <2>4, <2>6
  <2> QED
    BY <2>1, <2>2, <2>5, <2>6
<1> QED
  BY <1>1, Invariance, PTL

=============================================================================
