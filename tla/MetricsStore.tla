---------------------------- MODULE MetricsStore ----------------------------
(***************************************************************************)
(* MetricsStore and the thread that saves it: the pipelines write the      *)
(* state of their monitor under a mutex, metrics_writer_loop() takes a     *)
(* snapshot under the same mutex and write_atomic() brings it to the disk: *)
(* a temporary file is written and then renamed over the old one.          *)
(*                                                                         *)
(* Every file operation may fail, and the process may be killed between    *)
(* any two of them and started again on the files it has left.  The other  *)
(* statistics are numbers that go the way of the state; a loss of power,   *)
(* after which a rename may survive its content, is not modelled.          *)
(***************************************************************************)
EXTENDS Naturals, Sequences

CONSTANTS
  Numbers,   (* monitor numbers                                            *)
  States,    (* names of pipeline states                                   *)
  None,      (* no entry, no file                                          *)
  Partial,   (* a file whose content is cut off                            *)
  MaxChanges (* bound: changes of state, over all runs of the process      *)

VARIABLES
  stats,     (* stats_: the state of each number that has an entry         *)
  clock,     (* how many changes there were, over all runs of the process  *)
  stopFlag,  (* stop_requested_                                            *)
  stoppedAt, (* the clock when stop was requested                          *)
  step,      (* where the writer is                                        *)
  jobs,      (* the files that this pass has left to save                  *)
  final,     (* this is the pass after the loop                            *)
  doc,       (* content: the document being written                        *)
  failed,    (* the files that this pass could not save                    *)
  tmp,       (* <path>.tmp of each file                                    *)
  files      (* <path> of each file                                        *)

storeVars  == <<stats, clock>>
stopVars   == <<stopFlag, stoppedAt>>
writerVars == <<step, jobs, final, doc, failed>>
diskVars   == <<tmp, files>>
vars == <<storeVars, stopVars, writerVars, diskVars>>

Files   == {"metrics", "health"}
Healthy == {"STREAMING", "CONNECTING"}

(* A document: which one it is, the statistics at one moment, and for the  *)
(* health document what it says of all monitors together.                  *)
Stats == [Numbers -> States \cup {None}]
Doc   == [file : Files, stats : Stats, clock : Nat, healthy : BOOLEAN]

ASSUME StoreAssumption ==
  /\ MaxChanges \in Nat
  /\ None \notin Doc
  /\ Partial \notin Doc \cup {None}

Started ==
  /\ stats' = [n \in Numbers |-> None]
  /\ stopFlag' = FALSE
  /\ step' = "loop"
  /\ jobs' = <<>>
  /\ final' = FALSE
  /\ doc' = None
  /\ failed' = {}

Init ==
  /\ stats = [n \in Numbers |-> None]
  /\ clock = 0
  /\ stopFlag = FALSE
  /\ stoppedAt = 0
  /\ step = "loop"
  /\ jobs = <<>>
  /\ final = FALSE
  /\ doc = None
  /\ failed = {}
  /\ tmp = [f \in Files |-> None]
  /\ files = [f \in Files |-> None]

-----------------------------------------------------------------------------
(* set_state(), by any pipeline; the entry is created on first use.        *)
SetState(n, state) ==
  /\ clock < MaxChanges
  /\ stats' = [stats EXCEPT ![n] = state]
  /\ clock' = clock + 1
  /\ UNCHANGED <<stopVars, writerVars, diskVars>>

RequestStop ==
  /\ ~stopFlag
  /\ stopFlag' = TRUE
  /\ stoppedAt' = clock
  /\ UNCHANGED <<storeVars, writerVars, diskVars>>

-----------------------------------------------------------------------------
(* The writer.                                                             *)

(* What a pass may save, in this order.                                    *)
Works == {<<>>, <<"metrics">>, <<"health">>, <<"metrics", "health">>}

Pass(work, isFinal) ==
  /\ step = "loop"
  /\ step' = "save"
  /\ jobs' = work
  /\ final' = isFinal
  /\ failed' = {}
  /\ UNCHANGED <<storeVars, stopVars, doc, diskVars>>

(* A pass of the loop saves what is due, the metrics before the health.    *)
LoopPass ==
  /\ ~stopFlag
  /\ \E work \in Works : Pass(work, FALSE)

(* Mutant: the last pass saves only what is due.                           *)
FinalPassOfTheDue == stopFlag /\ \E work \in Works : Pass(work, TRUE)

(* The pass after the loop saves both, due or not.                         *)
FinalPass == stopFlag /\ Pass(<<"metrics", "health">>, TRUE)

PassEnds ==
  /\ step = "save" /\ jobs = <<>>
  /\ step' = IF final THEN "ended" ELSE "loop"
  /\ UNCHANGED <<storeVars, stopVars, jobs, final, doc, failed, diskVars>>

AllHealthy ==
  /\ \E n \in Numbers : stats[n] # None
  /\ \A n \in Numbers : stats[n] # None => stats[n] \in Healthy

(* build_metrics_json() or build_health_json(): one look under the mutex.  *)
Build ==
  /\ step = "save" /\ jobs # <<>>
  /\ doc' = [file |-> Head(jobs), stats |-> stats, clock |-> clock,
             healthy |-> AllHealthy]
  /\ step' = "open"
  /\ UNCHANGED <<storeVars, stopVars, jobs, final, failed, diskVars>>

Saved(ok) ==
  /\ jobs' = Tail(jobs)
  /\ failed' = IF ok THEN failed ELSE failed \cup {doc.file}
  /\ step' = "save"
  /\ UNCHANGED <<storeVars, stopVars, final, doc>>

(* The stream truncates the temporary file when it opens it.               *)
Open ==
  /\ step = "open"
  /\ \/ tmp' = [tmp EXCEPT ![doc.file] = Partial] /\ step' = "write"
     \/ UNCHANGED tmp /\ step' = "remove"
  /\ UNCHANGED <<storeVars, stopVars, jobs, final, doc, failed, files>>

(* Mutant: what the close reports is not looked at.                        *)
WriteUnchecked ==
  /\ step = "write"
  /\ \/ tmp' = [tmp EXCEPT ![doc.file] = doc]
     \/ UNCHANGED tmp
  /\ step' = "replace"
  /\ UNCHANGED <<storeVars, stopVars, jobs, final, doc, failed, files>>

(* The content and the explicit close, which reports what went wrong.      *)
Write ==
  /\ step = "write"
  /\ \/ tmp' = [tmp EXCEPT ![doc.file] = doc] /\ step' = "replace"
     \/ UNCHANGED tmp /\ step' = "remove"
  /\ UNCHANGED <<storeVars, stopVars, jobs, final, doc, failed, files>>

(* MoveFileExW() or rename() over the old file, in one step of the system. *)
Replace ==
  /\ step = "replace"
  /\ files' = [files EXCEPT ![doc.file] = tmp[doc.file]]
  /\ tmp' = [tmp EXCEPT ![doc.file] = None]
  /\ Saved(TRUE)

(* Mutant: the old file is deleted first, to make room for the new one.    *)
ReplaceFailsAfterDelete ==
  /\ step = "replace"
  /\ step' = "remove"
  /\ files' = [files EXCEPT ![doc.file] = None]
  /\ UNCHANGED <<storeVars, stopVars, jobs, final, doc, failed, tmp>>

(* The system refuses, for instance because a reader has the file open.    *)
ReplaceFails ==
  /\ step = "replace"
  /\ step' = "remove"
  /\ UNCHANGED <<storeVars, stopVars, jobs, final, doc, failed, diskVars>>

(* The temporary file of a failed attempt is removed, if that succeeds.    *)
Remove ==
  /\ step = "remove"
  /\ \/ tmp' = [tmp EXCEPT ![doc.file] = None]
     \/ UNCHANGED tmp
  /\ UNCHANGED files
  /\ Saved(FALSE)

-----------------------------------------------------------------------------
(* The process is killed, or ends, and is started again.                   *)
Restart == Started /\ UNCHANGED <<clock, stoppedAt, diskVars>>

Writer ==
  \/ LoopPass \/ FinalPass \/ PassEnds \/ Build \/ Open \/ Write
  \/ Replace \/ ReplaceFails \/ Remove

Next ==
  \/ Writer \/ RequestStop \/ Restart
  \/ \E n \in Numbers, state \in States : SetState(n, state)

Spec == Init /\ [][Next]_vars

-----------------------------------------------------------------------------
(* Type invariant.  Readers see whole documents: the file itself is never  *)
(* Partial and never holds the document of the other file.                 *)
TypeOK ==
  /\ stats \in Stats
  /\ clock \in Nat
  /\ stopFlag \in BOOLEAN
  /\ stoppedAt \in Nat
  /\ step \in {"loop", "save", "open", "write", "replace", "remove", "ended"}
  /\ jobs \in Works
  /\ final \in BOOLEAN
  /\ doc \in Doc \cup {None}
  /\ failed \subseteq Files
  /\ tmp \in [Files -> Doc \cup {None, Partial}]
  /\ files \in [Files -> Doc \cup {None}]

(* docs/metrics.md, "readers never see a partial file" and "the previous   *)
(* file is kept": whatever fails, and whenever the process is killed and   *)
(* started again on what it left, a file that is there stays there and is  *)
(* replaced only by a whole document of its own, not older than the last.  *)
FilesOnlyImprove ==
  [][\A f \in Files :
       /\ files[f] # None => files'[f] # None
       /\ files'[f] # files[f] =>
            /\ files'[f] \in Doc /\ files'[f].file = f
            /\ files[f] # None => files[f].clock <= files'[f].clock]_vars

(* docs/metrics.md, "written one final time at shutdown": when the writer  *)
(* has ended, each file that could be written shows the statistics of a    *)
(* moment after the stop was requested.                                    *)
FinalFilesAreCurrent ==
  step = "ended" =>
    \A f \in Files \ failed :
      files[f] # None /\ stoppedAt <= files[f].clock

=============================================================================
