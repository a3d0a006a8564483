------------------------- MODULE MonitorSupervisor -------------------------
(***************************************************************************)
(* MonitorSupervisor: the main thread in run(), the poll thread, which     *)
(* enumerates the monitors and applies the changes to a map of pipelines,  *)
(* and the pipelines as the supervisor sees them (PipelineContract): each  *)
(* starts, moves between states, may become FATAL, and ends its thread     *)
(* once it is FATAL or stop() was called.                                  *)
(*                                                                         *)
(* pipelines_mutex_ is held by the poll thread in apply_monitor_changes()  *)
(* and by the main thread while it stops all pipelines; both join pipeline *)
(* threads with the mutex held, so these are many steps.                   *)
(***************************************************************************)
EXTENDS Naturals

CONSTANTS
  Monitors,    (* stable_ids                                               *)
  Layouts,     (* what enumerate() may return: MonitorInfo by stable_id    *)
  MaxChanges,  (* bound: how often the desktop changes                     *)
  None

ASSUME LayoutsAssumption ==
  \A l \in Layouts :
    /\ DOMAIN l \subseteq Monitors
    /\ \A m, k \in DOMAIN l : l[m].number = l[k].number => m = k
    /\ \A m \in DOMAIN l :
         l[m] = [number |-> l[m].number, primary |-> l[m].primary,
                 handle |-> l[m].handle, size |-> l[m].size]

ASSUME BoundAssumption == MaxChanges \in Nat

VARIABLES
  layout,    (* the desktop                                                *)
  changes,   (* how often it has changed                                   *)
  stopFlag,  (* stop_requested_ of the supervisor                          *)
  run,       (* where the main thread is                                   *)
  poll,      (* where the poll thread is                                   *)
  seen,      (* current: what enumerate() returned                         *)
  last,      (* last_monitors_                                             *)
  todo,      (* the monitors a loop of apply_monitor_changes() has left    *)
  joining,   (* the monitor whose pipeline the mutex holder is joining     *)
  pipes,     (* pipelines_: None, or what the supervisor sees of it        *)
  metrics    (* MetricsStore::stats_[number].state                         *)

desktopVars == <<layout, changes>>
pollVars    == <<poll, seen, last, todo>>
vars == <<desktopVars, stopFlag, run, pollVars, joining, pipes, metrics>>

Infos   == UNION {{l[m] : m \in DOMAIN l} : l \in Layouts}
Numbers == {info.number : info \in Infos}

(* The states between INIT and the terminal ones are one phase here.       *)
Phases == {"INIT", "ACTIVE", "STOPPING", "FATAL"}

(* info is what the pipeline was made for, with the size it was told last. *)
Pipe == [info : Infos, phase : Phases, stopAsked : BOOLEAN, done : BOOLEAN]

ASSUME NoneAssumption == None \notin Pipe \cup Monitors

Init ==
  /\ layout \in Layouts
  /\ changes = 0
  /\ stopFlag = FALSE
  /\ run = "init"
  /\ poll = "off"
  /\ seen = layout
  /\ last = [m \in {} |-> None]
  /\ todo = {}
  /\ joining = None
  /\ pipes = [m \in Monitors |-> None]
  /\ metrics = [n \in Numbers |-> None]

(* Mutant: run() joins its threads with the mutex held.                    *)
RunHoldsMutexTooLong == run \in {"stopAll", "audio", "join"}

RunHoldsMutex  == run = "stopAll"
PollHoldsMutex == poll \in {"removed", "current"}

-----------------------------------------------------------------------------
(* The pipelines.                                                          *)

Created(m) ==
  [info |-> seen[m], phase |-> "INIT", stopAsked |-> FALSE, done |-> FALSE]

Alive(m) == pipes[m] # None /\ ~pipes[m].done

(* transition_to(): the callback stores the state under the number.        *)
Moves(m, phase) ==
  /\ pipes' = [pipes EXCEPT ![m].phase = phase]
  /\ metrics' = [metrics EXCEPT ![pipes[m].info.number] = phase]

PipelineMoves(m) ==
  /\ Alive(m)
  /\ \/ pipes[m].phase \in {"INIT", "ACTIVE"} /\ Moves(m, "ACTIVE")
     \/ pipes[m].phase \in {"INIT", "ACTIVE"} /\ Moves(m, "FATAL")
     \/ /\ pipes[m].phase = "ACTIVE" /\ pipes[m].stopAsked
        /\ Moves(m, "STOPPING")
  /\ UNCHANGED <<desktopVars, stopFlag, run, pollVars, joining>>

PipelineEnds(m) ==
  /\ Alive(m)
  /\ pipes[m].phase \in {"STOPPING", "FATAL"}
  /\ pipes' = [pipes EXCEPT ![m].done = TRUE]
  /\ UNCHANGED <<desktopVars, stopFlag, run, pollVars, joining, metrics>>

(* stop(): ask, then join.                                                 *)
AskPipelineToStop(m) ==
  /\ pipes' = [pipes EXCEPT ![m].stopAsked = TRUE]
  /\ joining' = m

(* Mutant: stop() does not wait for the thread.                            *)
PipelineDetached(m) == joining = m

PipelineJoined(m) == joining = m /\ pipes[m].done

-----------------------------------------------------------------------------
(* The poll thread: monitor_poll_loop() and apply_monitor_changes().       *)

Enumerate ==
  /\ poll = "check" /\ ~stopFlag
  /\ seen' = layout
  /\ poll' = "lock"
  /\ UNCHANGED <<desktopVars, stopFlag, run, last, todo, joining, pipes,
                 metrics>>

PollEnds ==
  /\ poll = "check" /\ stopFlag
  /\ poll' = "ended"
  /\ UNCHANGED <<desktopVars, stopFlag, run, seen, last, todo, joining, pipes,
                 metrics>>

(* The mutex is taken, and the loop over the removed monitors begins.      *)
ApplyBegins ==
  /\ poll = "lock"
  /\ ~RunHoldsMutex
  /\ poll' = "removed"
  /\ todo' = DOMAIN last \ DOMAIN seen
  /\ UNCHANGED <<desktopVars, stopFlag, run, seen, last, joining, pipes,
                 metrics>>

StopRemoved(m) ==
  /\ poll = "removed" /\ joining = None
  /\ m \in todo
  /\ pipes[m] # None
  /\ AskPipelineToStop(m)
  /\ UNCHANGED <<desktopVars, stopFlag, run, pollVars, metrics>>

(* Mutant: the pipeline is erased and the loop still joins it.             *)
EraseRemovedStillJoining(m) ==
  /\ poll = "removed"
  /\ PipelineJoined(m)
  /\ pipes' = [pipes EXCEPT ![m] = None]
  /\ todo' = todo \ {m}
  /\ UNCHANGED <<desktopVars, stopFlag, run, poll, seen, last, joining,
                 metrics>>

EraseRemoved(m) ==
  /\ poll = "removed"
  /\ PipelineJoined(m)
  /\ pipes' = [pipes EXCEPT ![m] = None]
  /\ joining' = None
  /\ todo' = todo \ {m}
  /\ UNCHANGED <<desktopVars, stopFlag, run, poll, seen, last, metrics>>

(* A removed monitor whose pipeline run() has already cleared.             *)
SkipRemoved(m) ==
  /\ poll = "removed" /\ joining = None
  /\ m \in todo
  /\ pipes[m] = None
  /\ todo' = todo \ {m}
  /\ UNCHANGED <<desktopVars, stopFlag, run, poll, seen, last, joining, pipes,
                 metrics>>

(* Mutant: the current monitors do not wait for the removed ones.          *)
CurrentBeginsEarly ==
  /\ poll = "removed" /\ joining = None
  /\ poll' = "current"
  /\ todo' = DOMAIN seen
  /\ UNCHANGED <<desktopVars, stopFlag, run, seen, last, joining, pipes,
                 metrics>>

CurrentBegins ==
  /\ poll = "removed" /\ todo = {}
  /\ poll' = "current"
  /\ todo' = DOMAIN seen
  /\ UNCHANGED <<desktopVars, stopFlag, run, seen, last, joining, pipes,
                 metrics>>

(* Mutant: FATAL pipelines are left alone.                                 *)
FatalUnseen(m) == FALSE

IsFatal(m) == pipes[m].phase = "FATAL"

(* Mutant: a monitor that is renumbered keeps its pipeline.                *)
HandleDiffers(a, b) == a.handle # b.handle

IdentityDiffers(a, b) ==
  a.number # b.number \/ a.primary # b.primary \/ a.handle # b.handle

NeedsRestart(m) == IsFatal(m) \/ IdentityDiffers(pipes[m].info, seen[m])

KeepPipeline(m) ==
  /\ poll = "current" /\ joining = None
  /\ m \in todo
  /\ pipes[m] # None /\ ~NeedsRestart(m)
  /\ todo' = todo \ {m}
  /\ UNCHANGED <<desktopVars, stopFlag, run, poll, seen, last, joining, pipes,
                 metrics>>

StartPipeline(m) ==
  /\ poll = "current" /\ joining = None
  /\ m \in todo
  /\ pipes[m] = None
  /\ pipes' = [pipes EXCEPT ![m] = Created(m)]
  /\ todo' = todo \ {m}
  /\ UNCHANGED <<desktopVars, stopFlag, run, poll, seen, last, joining,
                 metrics>>

StopForRestart(m) ==
  /\ poll = "current" /\ joining = None
  /\ m \in todo
  /\ pipes[m] # None /\ NeedsRestart(m)
  /\ AskPipelineToStop(m)
  /\ UNCHANGED <<desktopVars, stopFlag, run, pollVars, metrics>>

RestartPipeline(m) ==
  /\ poll = "current"
  /\ PipelineJoined(m)
  /\ pipes' = [pipes EXCEPT ![m] = Created(m)]
  /\ joining' = None
  /\ todo' = todo \ {m}
  /\ UNCHANGED <<desktopVars, stopFlag, run, poll, seen, last, metrics>>

(* A pipeline whose monitor only changed its size is told the new size.    *)
Resized(m) ==
  /\ m \in DOMAIN seen \cap DOMAIN last
  /\ ~IdentityDiffers(seen[m], last[m])
  /\ seen[m].size # last[m].size
  /\ pipes[m] # None

(* Mutant: no notify_resized().                                            *)
ApplyEndsWithoutNotice ==
  /\ poll = "current" /\ todo = {}
  /\ last' = seen
  /\ poll' = "sleep"
  /\ UNCHANGED <<desktopVars, stopFlag, run, seen, todo, joining, pipes,
                 metrics>>

(* The loop of notify_resized() calls, and the mutex is let go.            *)
ApplyEnds ==
  /\ poll = "current" /\ todo = {}
  /\ pipes' = [m \in Monitors |->
                 IF Resized(m) THEN [pipes[m] EXCEPT !.info.size = seen[m].size]
                               ELSE pipes[m]]
  /\ last' = seen
  /\ poll' = "sleep"
  /\ UNCHANGED <<desktopVars, stopFlag, run, seen, todo, joining, metrics>>

PollSleeps ==
  /\ poll = "sleep"
  /\ poll' = "check"
  /\ UNCHANGED <<desktopVars, stopFlag, run, seen, last, todo, joining, pipes,
                 metrics>>

-----------------------------------------------------------------------------
(* The main thread: run().                                                 *)

Run ==
  /\ run = "init"
  /\ run' = "run"
  /\ poll' = "check"
  /\ UNCHANGED <<desktopVars, stopFlag, seen, last, todo, joining, pipes,
                 metrics>>

(* The loop of run() ends and the mutex is taken.                          *)
StopAllBegins ==
  /\ run = "run" /\ stopFlag
  /\ ~PollHoldsMutex
  /\ run' = "stopAll"
  /\ UNCHANGED <<desktopVars, stopFlag, pollVars, joining, pipes, metrics>>

StopNext(m) ==
  /\ run = "stopAll" /\ joining = None
  /\ pipes[m] # None /\ ~pipes[m].stopAsked
  /\ AskPipelineToStop(m)
  /\ UNCHANGED <<desktopVars, stopFlag, run, pollVars, metrics>>

NextStopped(m) ==
  /\ run = "stopAll"
  /\ PipelineJoined(m)
  /\ joining' = None
  /\ UNCHANGED <<desktopVars, stopFlag, run, pollVars, pipes, metrics>>

(* pipelines_.clear(), and the mutex is let go.                            *)
ClearPipelines ==
  /\ run = "stopAll" /\ joining = None
  /\ \A m \in Monitors : pipes[m] # None => pipes[m].stopAsked
  /\ pipes' = [m \in Monitors |-> None]
  /\ run' = "audio"
  /\ UNCHANGED <<desktopVars, stopFlag, pollVars, joining, metrics>>

(* audio_pipeline_->stop()                                                 *)
StopAudio ==
  /\ run = "audio"
  /\ run' = "join"
  /\ UNCHANGED <<desktopVars, stopFlag, pollVars, joining, pipes, metrics>>

(* The joins of the threads, and run() returns.                            *)
RunReturns ==
  /\ run = "join"
  /\ poll = "ended"
  /\ run' = "returned"
  /\ UNCHANGED <<desktopVars, stopFlag, pollVars, joining, pipes, metrics>>

-----------------------------------------------------------------------------
(* The world: monitors come, go and change; the user presses Ctrl+C.       *)

ChangeLayout ==
  /\ changes < MaxChanges
  /\ layout' \in Layouts \ {layout}
  /\ changes' = changes + 1
  /\ UNCHANGED <<stopFlag, run, pollVars, joining, pipes, metrics>>

(* request_stop(), by the console handler.                                 *)
RequestStop ==
  /\ ~stopFlag
  /\ stopFlag' = TRUE
  /\ UNCHANGED <<desktopVars, run, pollVars, joining, pipes, metrics>>

-----------------------------------------------------------------------------
PollThread ==
  \/ Enumerate \/ PollEnds \/ ApplyBegins \/ CurrentBegins \/ ApplyEnds
  \/ PollSleeps
  \/ \E m \in Monitors :
       \/ StopRemoved(m) \/ EraseRemoved(m) \/ SkipRemoved(m)
       \/ KeepPipeline(m) \/ StartPipeline(m)
       \/ StopForRestart(m) \/ RestartPipeline(m)

MainThread ==
  \/ Run \/ StopAllBegins \/ ClearPipelines \/ StopAudio \/ RunReturns
  \/ \E m \in Monitors : StopNext(m) \/ NextStopped(m)

PipelineThread(m) == PipelineMoves(m) \/ PipelineEnds(m)

World == ChangeLayout \/ RequestStop

Next ==
  \/ PollThread \/ MainThread \/ World
  \/ \E m \in Monitors : PipelineThread(m)

Spec == Init /\ [][Next]_vars

(* What PipelineContract promises: a pipeline that is FATAL or asked to    *)
(* stop ends.                                                              *)
MustEnd(m) ==
  /\ pipes[m] # None /\ (pipes[m].stopAsked \/ pipes[m].phase = "FATAL")
  /\ PipelineThread(m)
  /\ pipes'[m].done \/ pipes'[m].phase \in {"STOPPING", "FATAL"}

(* The threads run, and the mutex is fair enough: the main thread looks    *)
(* for it while the poll thread sleeps.                                    *)
FairSpec ==
  /\ Spec
  /\ WF_vars(PollThread)
  /\ SF_vars(StopAllBegins) /\ WF_vars(MainThread)
  /\ \A m \in Monitors : WF_vars(MustEnd(m))

-----------------------------------------------------------------------------
(* Type invariant: every variable has its type, and a join has a pipeline  *)
(* to wait for.                                                            *)
TypeOK ==
  /\ layout \in Layouts
  /\ changes \in 0 .. MaxChanges
  /\ stopFlag \in BOOLEAN
  /\ run \in {"init", "run", "stopAll", "audio", "join", "returned"}
  /\ poll \in {"off", "check", "lock", "removed", "current", "sleep", "ended"}
  /\ seen \in Layouts
  /\ last \in Layouts \cup {[m \in {} |-> None]}
  /\ todo \subseteq Monitors
  /\ joining \in Monitors \cup {None}
  /\ pipes \in [Monitors -> Pipe \cup {None}]
  /\ metrics \in [Numbers -> Phases \cup {None}]
  /\ joining # None => pipes[joining] # None /\ pipes[joining].stopAsked

(* Between two polls, the map holds one pipeline for each monitor of the   *)
(* last list and no other, made for its number, primary flag and handle    *)
(* and told its size: no order of removals, restarts of FATAL pipelines,   *)
(* retargets and resizes leaves a pipeline behind or one with old data.    *)
PipelinesMatchLayout ==
  ~PollHoldsMutex /\ run \in {"init", "run", "stopAll"} =>
    \A m \in Monitors :
      IF m \in DOMAIN last THEN pipes[m] # None /\ pipes[m].info = last[m]
                           ELSE pipes[m] = None

(* Two pipelines that live never capture the same output (DuplicateOutput  *)
(* admits one user in a process), also when a monitor changes its          *)
(* stable_id: if an output keeps its handle, the loop over the removed     *)
(* monitors has ended the old pipeline before the new one starts.          *)
OneUserPerOutput ==
  \A m, k \in Monitors :
    m # k /\ Alive(m) /\ Alive(k) => pipes[m].info.handle # pipes[k].info.handle

(* A pipeline as PipelineContract has it; the supervisor does not look at  *)
(* its clients.                                                            *)
Pipeline(m) == INSTANCE PipelineContract WITH
  told       <- pipes[m].info.size,
  stopAsked  <- pipes[m].stopAsked,
  phase      <- pipes[m].phase,
  done       <- pipes[m].done,
  publishing <- FALSE

(* Under PipelineContract, as long as it is in the map; it leaves or is    *)
(* replaced only when its thread has ended, and a new one begins afresh.   *)
KeptUnderContract(m) ==
  \/ /\ pipes[m] # None /\ pipes'[m] # None
     /\ [Pipeline(m)!ContractNext]_(Pipeline(m)!contractVars)
  \/ /\ pipes[m] # None => pipes[m].done
     /\ pipes'[m] # None => Pipeline(m)!ContractInit'

(* The supervisor does its part of the contract and relies on no more than *)
(* the pipeline's: no pipeline is told a size after it was asked to stop,  *)
(* and none is erased or replaced before its thread has ended, so that the *)
(* old and the new one never use a monitor together.                       *)
PipelinesKeepContract == [][\A m \in Monitors : KeptUnderContract(m)]_vars

(* Ctrl+C makes run() return, whatever the poll thread is doing and        *)
(* whichever pipelines it is joining.                                      *)
StopMakesRunReturn == stopFlag ~> run = "returned"

(* A FATAL pipeline is replaced at a later poll.                           *)
FatalIsReplaced ==
  \A m \in Monitors :
    pipes[m] # None /\ pipes[m].phase = "FATAL"
      ~> stopFlag \/ pipes[m] = None \/ pipes[m].phase # "FATAL"

ServesLayout(l) ==
  \A m \in Monitors :
    IF m \in DOMAIN l THEN pipes[m] # None /\ pipes[m].info = l[m]
                      ELSE pipes[m] = None

(* Once the desktop stops changing, the pipelines come to serve it.        *)
FinalLayoutIsServed ==
  \A l \in Layouts :
    <>[](layout = l) => []<>(stopFlag \/ ServesLayout(l))

-----------------------------------------------------------------------------
(* What comments and documents say, and the code does not do.              *)

(* supervisor.hpp:179: run() runs until request_stop() is called, "then    *)
(* shut[s] everything down".  A poll that has enumerated before the stop   *)
(* starts pipelines after the map was cleared.                             *)
EverythingShutDown ==
  run = "returned" => \A m \in Monitors : pipes[m] = None

(* docs/metrics.md:37: monitors[n].state is the "Current state-machine     *)
(* state name of that monitor".  When two monitors swap their numbers, the *)
(* old pipeline of the second still writes under the number that the new   *)
(* pipeline of the first has taken.                                        *)
MetricsShowState ==
  ~PollHoldsMutex /\ run = "run" =>
    \A m \in Monitors :
      pipes[m] # None /\ pipes[m].phase # "INIT" =>
        metrics[pipes[m].info.number] = pipes[m].phase

=============================================================================
