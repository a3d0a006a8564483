------------------------- MODULE MetricsStoreProofs -------------------------
(***************************************************************************)
(* Proofs of what docs/metrics.md promises to the readers of the files of  *)
(* MetricsStore, for every number of monitors and state names, every       *)
(* failure and any number of restarts.                                     *)
(*                                                                         *)
(* The argument: a rename happens only after the temporary file was closed *)
(* without an error, so what it brings in is the document of this attempt; *)
(* and there is one writer, so that document is the latest of all.         *)
(***************************************************************************)
EXTENDS MetricsStore, TLAPS

Busy == step \in {"open", "write", "replace", "remove"}

Left(work) == {work[i] : i \in 1 .. Len(work)}

(* An attempt has a document, for the first file left; when it comes to    *)
(* the rename, the temporary file holds it.                                *)
Attempt ==
  /\ Busy => jobs # <<>> /\ doc \in Doc /\ doc.file = Head(jobs)
  /\ step = "replace" => tmp[doc.file] = doc

(* Nothing is newer than now, and no file is newer than the document that  *)
(* may replace it.                                                         *)
Ages ==
  /\ \A f \in Files :
       files[f] # None => files[f].file = f /\ files[f].clock <= clock
  /\ Busy =>
       /\ doc.clock <= clock
       /\ files[doc.file] # None => files[doc.file].clock <= doc.clock
  /\ stopFlag => stoppedAt <= clock

(* The pass after the loop: what it has done already is current.           *)
LastPass ==
  /\ step = "ended" => final /\ jobs = <<>>
  /\ final =>
       /\ stopFlag
       /\ Busy => stoppedAt <= doc.clock
       /\ \A f \in Files \ (failed \cup Left(jobs)) :
            files[f] # None /\ stoppedAt <= files[f].clock

IInv == TypeOK /\ Attempt /\ Ages /\ LastPass

-----------------------------------------------------------------------------
(* The first job of a pass, and the others.                                *)
LEMMA Jobs ==
  ASSUME NEW work \in Works, work # <<>>
  PROVE  /\ Head(work) \in Files /\ Tail(work) \in Works
         /\ Left(work) = Left(Tail(work)) \cup {Head(work)}
<1>1. CASE work = <<"metrics", "health">>
  <2>1. Tail(work) = <<"health">> /\ Head(work) = "metrics"
    BY <1>1
  <2>2. Left(work) = {"metrics", "health"}
    BY <1>1 DEF Left
  <2>3. Left(<<"health">>) = {"health"}
    BY DEF Left
  <2> QED
    BY <2>1, <2>2, <2>3 DEF Works, Files
<1>2. \A x : Tail(<<x>>) = <<>> /\ Head(<<x>>) = x
  OBVIOUS
<1>3. \A x : Left(<<x>>) = {x} /\ Left(<<>>) = {}
  BY DEF Left
<1>4. CASE work = <<"metrics">>
  BY <1>2, <1>3, <1>4 DEF Works, Files
<1>5. CASE work = <<"health">>
  BY <1>2, <1>3, <1>5 DEF Works, Files
<1> QED
  BY <1>1, <1>4, <1>5 DEF Works

LEMMA AllLeft ==
  Left(<<"metrics", "health">>) = Files /\ Left(<<>>) = {}
BY DEF Left, Files

LEMMA InitHolds ==
  Init => IInv
<1> SUFFICES ASSUME Init PROVE IInv
  OBVIOUS
<1>1. TypeOK
  BY DEF Init, TypeOK, Stats, Works
<1>2. Attempt /\ LastPass
  BY DEF Init, Attempt, LastPass, Busy
<1>3. Ages
  BY DEF Init, Ages, Busy
<1> QED
  BY <1>1, <1>2, <1>3 DEF IInv

LEMMA TypeStep ==
  ASSUME TypeOK, Attempt, [Next]_vars
  PROVE  TypeOK'
<1> USE DEF storeVars, stopVars, writerVars, diskVars, Busy
<1>1. CASE UNCHANGED vars
  BY <1>1 DEF vars, TypeOK
<1>2. ASSUME NEW n \in Numbers, NEW s \in States, SetState(n, s)
      PROVE  TypeOK'
  BY <1>2 DEF SetState, TypeOK, Stats
<1>3. CASE RequestStop
  BY <1>3 DEF RequestStop, TypeOK
<1>4. CASE Restart
  BY <1>4 DEF Restart, Started, TypeOK, Stats, Works
<1>5. CASE LoopPass \/ FinalPass \/ PassEnds \/ ReplaceFails
  BY <1>5 DEF LoopPass, FinalPass, Pass, PassEnds, ReplaceFails, TypeOK, Works
<1>6. CASE Build
  <2>1. doc' \in Doc
    BY <1>6, Jobs DEF Build, TypeOK, Doc, AllHealthy
  <2> QED
    BY <1>6, <2>1 DEF Build, TypeOK
<1>7. CASE Open \/ Write
  BY <1>7 DEF Open, Write, TypeOK, Attempt
<1>8. CASE Replace \/ Remove
  <2>1. doc \in Doc /\ doc.file \in Files /\ jobs # <<>>
    BY <1>8 DEF Replace, Remove, Attempt, Doc
  <2>2. Tail(jobs) \in Works
    BY <2>1, Jobs DEF TypeOK
  <2> QED
    BY <1>8, <2>1, <2>2 DEF Replace, Remove, Saved, TypeOK, Attempt
<1> QED
  BY <1>1, <1>2, <1>3, <1>4, <1>5, <1>6, <1>7, <1>8 DEF Next, Writer

LEMMA AttemptStep ==
  ASSUME TypeOK, Attempt, [Next]_vars
  PROVE  Attempt'
<1> USE DEF storeVars, stopVars, writerVars, diskVars, Busy
<1>1. CASE UNCHANGED vars
  BY <1>1 DEF vars, Attempt
<1>2. ASSUME NEW n \in Numbers, NEW s \in States, SetState(n, s)
      PROVE  Attempt'
  BY <1>2 DEF SetState, Attempt
<1>3. CASE RequestStop \/ Restart
  BY <1>3 DEF RequestStop, Restart, Started, Attempt
<1>4. CASE LoopPass \/ FinalPass \/ PassEnds \/ ReplaceFails
  BY <1>4 DEF LoopPass, FinalPass, Pass, PassEnds, ReplaceFails, Attempt
<1>5. CASE Build
  <2>1. doc' \in Doc /\ doc'.file = Head(jobs)
    BY <1>5, Jobs DEF Build, TypeOK, Doc, AllHealthy
  <2> QED
    BY <1>5, <2>1 DEF Build, Attempt
<1>6. CASE Open \/ Write
  <2>1. doc.file \in Files
    BY <1>6 DEF Open, Write, Attempt, Doc
  <2> QED
    BY <1>6, <2>1 DEF Open, Write, Attempt, TypeOK
<1>7. CASE Replace \/ Remove
  BY <1>7 DEF Replace, Remove, Saved, Attempt
<1> QED
  BY <1>1, <1>2, <1>3, <1>4, <1>5, <1>6, <1>7 DEF Next, Writer

(* The one step that touches a file: it takes the document of its attempt. *)
LEMMA ReplaceStep ==
  ASSUME IInv, Replace
  PROVE  /\ doc \in Doc /\ doc.file \in Files
         /\ files' = [files EXCEPT ![doc.file] = doc]
         /\ files'[doc.file] = doc /\ doc # None
         /\ \A f \in Files \ {doc.file} : files'[f] = files[f]
<1>1. doc \in Doc /\ doc.file \in Files
  BY DEF Replace, IInv, Attempt, Busy, Doc
<1>2. files' = [files EXCEPT ![doc.file] = doc]
  BY DEF Replace, IInv, Attempt
<1> QED
  BY <1>1, <1>2, StoreAssumption DEF IInv, TypeOK

LEMMA AgesStep ==
  ASSUME IInv, [Next]_vars
  PROVE  Ages'
<1> USE DEF IInv, storeVars, stopVars, writerVars, diskVars, Busy
<1>0. /\ clock \in Nat /\ stoppedAt \in Nat
      /\ \A f \in Files : files[f] # None => files[f].clock \in Nat
      /\ doc \in Doc => doc.clock \in Nat /\ doc.file \in Files
  BY DEF TypeOK, Doc
<1>1. CASE UNCHANGED vars
  BY <1>1 DEF vars, Ages
<1>2. ASSUME NEW n \in Numbers, NEW s \in States, SetState(n, s)
      PROVE  Ages'
  BY <1>0, <1>2 DEF SetState, Ages, Attempt
<1>3. CASE RequestStop \/ Restart
  BY <1>0, <1>3 DEF RequestStop, Restart, Started, Ages
<1>4. CASE LoopPass \/ FinalPass \/ PassEnds \/ ReplaceFails
  BY <1>4 DEF LoopPass, FinalPass, Pass, PassEnds, ReplaceFails, Ages
<1>5. CASE Build
  <2>1. doc'.clock = clock /\ doc'.file \in Files
    BY <1>5, Jobs DEF Build, TypeOK
  <2> QED
    BY <1>0, <1>5, <2>1 DEF Build, Ages
<1>6. CASE Open \/ Write
  BY <1>6 DEF Open, Write, Ages
<1>7. CASE Replace
  <2>1. /\ UNCHANGED <<clock, stopFlag, stoppedAt>> /\ step' = "save"
        /\ doc.clock <= clock
    BY <1>7 DEF Replace, Saved, Ages
  <2> QED
    BY <1>7, <2>1, ReplaceStep DEF Ages
<1>8. CASE Remove
  BY <1>8 DEF Remove, Saved, Ages
<1> QED
  BY <1>1, <1>2, <1>3, <1>4, <1>5, <1>6, <1>7, <1>8 DEF Next, Writer

LEMMA LastPassStep ==
  ASSUME IInv, [Next]_vars
  PROVE  LastPass'
<1> USE DEF IInv, storeVars, stopVars, writerVars, diskVars, Busy
<1>1. CASE UNCHANGED vars
  BY <1>1 DEF vars, LastPass
<1>2. ASSUME NEW n \in Numbers, NEW s \in States, SetState(n, s)
      PROVE  LastPass'
  BY <1>2 DEF SetState, LastPass
<1>3. CASE RequestStop \/ Restart
  BY <1>3 DEF RequestStop, Restart, Started, LastPass
<1>4. CASE LoopPass
  BY <1>4 DEF LoopPass, Pass, LastPass
<1>5. CASE FinalPass
  BY <1>5, AllLeft DEF FinalPass, Pass, LastPass
<1>6. CASE PassEnds
  BY <1>6 DEF PassEnds, LastPass
<1>7. CASE ReplaceFails
  BY <1>7 DEF ReplaceFails, LastPass
<1>8. CASE Build
  <2>1. doc'.clock = clock /\ (final => stoppedAt <= clock)
    BY <1>8 DEF Build, Ages, LastPass
  <2> QED
    BY <1>8, <2>1 DEF Build, LastPass
<1>9. CASE Open \/ Write
  BY <1>9 DEF Open, Write, LastPass
<1>10. CASE Replace
  <2>1. Left(jobs) = Left(Tail(jobs)) \cup {doc.file}
    BY <1>10, Jobs DEF Replace, Attempt, TypeOK
  <2>2. /\ jobs' = Tail(jobs) /\ failed' = failed /\ step' = "save"
        /\ UNCHANGED <<stopFlag, stoppedAt, final, doc>>
    BY <1>10 DEF Replace, Saved
  <2>3. final => stoppedAt <= doc.clock
    BY <1>10 DEF Replace, LastPass
  <2> QED
    BY <1>10, <2>1, <2>2, <2>3, ReplaceStep DEF LastPass
<1>11. CASE Remove
  <2>1. Left(jobs) = Left(Tail(jobs)) \cup {doc.file}
    BY <1>11, Jobs DEF Remove, Attempt, TypeOK
  <2>2. /\ jobs' = Tail(jobs) /\ failed' = failed \cup {doc.file}
        /\ step' = "save" /\ UNCHANGED <<stopFlag, stoppedAt, final, files>>
    BY <1>11 DEF Remove, Saved
  <2> QED
    BY <2>1, <2>2 DEF LastPass
<1> QED
  BY <1>1, <1>2, <1>3, <1>4, <1>5, <1>6, <1>7, <1>8, <1>9, <1>10, <1>11
     DEF Next, Writer

-----------------------------------------------------------------------------
(* The inductive invariant holds in every reachable state.                 *)
THEOREM Invariance ==
  Spec => []IInv
<1>1. IInv /\ [Next]_vars => IInv'
  BY TypeStep, AttemptStep, AgesStep, LastPassStep DEF IInv
<1> QED
  BY <1>1, InitHolds, PTL DEF Spec

(* What readers see is whole at every moment.                              *)
THEOREM ReadersSeeWholeFiles ==
  Spec => []TypeOK
<1>1. IInv => TypeOK
  BY DEF IInv
<1> QED
  BY <1>1, Invariance, PTL

(* A file never goes missing, back in time, or to the other's content.     *)
THEOREM FilesImprove ==
  Spec => FilesOnlyImprove
<1> DEFINE Improves(f) ==
      /\ files[f] # None => files'[f] # None
      /\ files'[f] # files[f] =>
           /\ files'[f] \in Doc /\ files'[f].file = f
           /\ files[f] # None => files[f].clock <= files'[f].clock
<1>1. ASSUME IInv, [Next]_vars, NEW f \in Files PROVE Improves(f)
  <2> USE DEF storeVars, stopVars, writerVars, diskVars
  <2>1. CASE Replace
    <3>1. files[doc.file] # None => files[doc.file].clock <= doc.clock
      BY <1>1, <2>1 DEF Replace, IInv, Ages, Busy
    <3> QED
      BY <1>1, <2>1, <3>1, ReplaceStep
  <2>2. CASE UNCHANGED files
    BY <2>2
  <2>3. Replace \/ UNCHANGED files
    BY <1>1 DEF Next, Writer, vars, SetState, RequestStop, Restart, Started,
                LoopPass, FinalPass, Pass, PassEnds, Build, Open, Write,
                ReplaceFails, Remove, Saved
  <2> QED
    BY <2>1, <2>2, <2>3
<1>2. IInv /\ [Next]_vars => [\A f \in Files : Improves(f)]_vars
  BY <1>1
<1> QED
  BY <1>2, Invariance, PTL DEF Spec, FilesOnlyImprove

(* The final pass writes what holds after the stop.                        *)
THEOREM FinalFiles ==
  Spec => []FinalFilesAreCurrent
<1>1. IInv => FinalFilesAreCurrent
  BY AllLeft DEF IInv, LastPass, FinalFilesAreCurrent
<1> QED
  BY <1>1, Invariance, PTL

=============================================================================
