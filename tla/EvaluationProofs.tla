-------------------------- MODULE EvaluationProofs --------------------------
(***************************************************************************)
(* Theorems about Evaluation, for any argument lists, any cells, any size  *)
(* of the sampler's pipe and any number of scripts and processes.          *)
(***************************************************************************)
EXTENDS Evaluation, TLAPS

(***************************************************************************)
(* The window.  SamplesInWindow is not inductive: that no late line is     *)
(* appended rests on the reader's having taken every line it may still     *)
(* append while the event was not set, and the event is set first.         *)
(***************************************************************************)
\* The event is set from the first step of stop() to its last.
EventIsFirst == col \in {"set", "timed", "gone"} => stopEvt

\* Between windows nothing samples and nothing reads.
ClosedIsQuiet == col = "closed" => sampler = "none" /\ reader \in {"none", "done"}

\* Until the event is set every line, read or not, is of before t_stop.
UnsetIsInside ==
  ~stopEvt => pipe \in Seq({"inside"}) /\ (reader = "holding" => holding = "inside")

WInv ==
  /\ col \in {"closed", "open", "set", "timed", "gone"}
  /\ EventIsFirst
  /\ ClosedIsQuiet
  /\ UnsetIsInside
  /\ "late" \notin samples

WindowNext ==
  \/ StartWindow \/ StopSets \/ Stop \/ WindowDies
  \/ Sampler \/ Reader
  \/ UNCHANGED window

USE DEF WInv, EventIsFirst, ClosedIsQuiet, UnsetIsInside

LEMMA WindowStarts == WindowInit => WInv
  BY DEF WindowInit

LEMMA SamplerKeepsWInv == WInv /\ Sampler => WInv'
<1> SUFFICES ASSUME WInv, Sampler PROVE WInv'
  OBVIOUS
<1>1. CASE Emit
  <2>1. ~stopEvt => col = "open"
    BY <1>1 DEF Emit
  <2>2. ~stopEvt' => pipe' \in Seq({"inside"})
    BY <1>1, <2>1 DEF Emit
  <2> QED BY <1>1, <2>2 DEF Emit
<1>2. CASE SamplerEnds
  BY <1>2 DEF SamplerEnds
<1>3. CASE OrphansEnd
  BY <1>3 DEF OrphansEnd
<1> QED BY <1>1, <1>2, <1>3 DEF Sampler

LEMMA ReaderKeepsWInv == WInv /\ Reader => WInv'
<1> SUFFICES ASSUME WInv, Reader PROVE WInv'
  OBVIOUS
<1>1. CASE ReaderBegins
  BY <1>1 DEF ReaderBegins
<1>2. CASE ReaderTakes
  <2>1. ~stopEvt /\ pipe # <<>> => Head(pipe) = "inside" /\ Tail(pipe) \in Seq({"inside"})
    OBVIOUS
  <2> QED BY <1>2, <2>1 DEF ReaderTakes
<1>3. CASE ReaderStops
  BY <1>3 DEF ReaderStops
<1>4. CASE ReaderAppends
  <2>1. samples' = samples \union {"inside"}
    BY <1>4 DEF ReaderAppends
  <2> QED BY <1>4, <2>1 DEF ReaderAppends
<1> QED BY <1>1, <1>2, <1>3, <1>4 DEF Reader

LEMMA StopKeepsWInv == WInv /\ (StopSets \/ Stop) => WInv'
<1> SUFFICES ASSUME WInv, StopSets \/ Stop PROVE WInv'
  OBVIOUS
<1>1. CASE StopSets
  BY <1>1 DEF StopSets
<1>2. CASE StopTimes
  BY <1>2 DEF StopTimes
<1>3. CASE Terminate
  BY <1>3 DEF Terminate
<1>4. CASE Join
  BY <1>4 DEF Join
<1> QED BY <1>1, <1>2, <1>3, <1>4 DEF Stop

LEMMA WindowKeepsWInv == WInv /\ WindowNext => WInv'
<1> SUFFICES ASSUME WInv, WindowNext PROVE WInv'
  OBVIOUS
<1>1. CASE StartWindow
  BY <1>1 DEF StartWindow
<1>2. CASE StopSets \/ Stop
  BY <1>2, StopKeepsWInv
<1>3. CASE WindowDies
  BY <1>3 DEF WindowDies
<1>4. CASE Sampler
  BY <1>4, SamplerKeepsWInv
<1>5. CASE Reader
  BY <1>5, ReaderKeepsWInv
<1>6. CASE UNCHANGED window
  BY <1>6 DEF window
<1> QED BY <1>1, <1>2, <1>3, <1>4, <1>5, <1>6 DEF WindowNext

USE DEF WindowNext

\* Whatever the scripts do, the window takes a step of its own or none.
LEMMA NextIsWindowNext == [Next]_vars => WindowNext
<1> SUFFICES ASSUME [Next]_vars PROVE WindowNext
  OBVIOUS
<1>1. ASSUME NEW a \in Sweeps, BeginRun(a) PROVE WindowNext
  BY <1>1 DEF BeginRun
<1>2. CASE BeginV2
  BY <1>2 DEF BeginV2
<1>3. CASE Work
  BY <1>3 DEF Work, Skip, NextCell, BaselineReturns, RunSplitinfer, Measure, ProcessEnds,
              Leave, WrappedReturns, SaveBegins, SaveEnds, Ends, Idle
<1>4. CASE Again
  BY <1>4 DEF Again
<1>5. CASE Dies
  BY <1>5 DEF Dies, Idle
<1>6. CASE UNCHANGED vars
  BY <1>6 DEF vars
<1> QED BY <1>1, <1>2, <1>3, <1>4, <1>5, <1>6 DEF Next

\* For any program of windows, scripts killed at any point included: the
\* samples that stop() leaves were printed before t_stop and are final.
THEOREM SamplesTheorem == Spec => []SamplesInWindow
<1>1. Init => WInv
  BY WindowStarts DEF Init
<1>2. WInv /\ [Next]_vars => WInv'
  BY NextIsWindowNext, WindowKeepsWInv
<1>3. WInv => SamplesInWindow
  BY DEF SamplesInWindow
<1> QED BY <1>1, <1>2, <1>3, PTL DEF Spec


(***************************************************************************)
(* The statuses of e2_v2.  A process that broke ends its window, so that   *)
(* while one may still follow, none has broken; the status looks at the    *)
(* last one, and the file holds what the cells were given.                 *)
(***************************************************************************)
Good(records) == \A r \in records : r.status = "ok" => ~r.broke /\ r.last = "ok"

Ended == {"timeout", "ok", "mismatch", "no_json", "failed"}

\* A script that is not running has nothing in hand.
IdleIsClean == script = "none" => at = "idle" /\ proc = "none"

\* What a process of either script can come to.
ProcEnds ==
  /\ script = "e2_v2" => proc \in {"none", "running"} \cup Ended
  /\ at \in {"next", "splitinfer", "save", "writing"} => proc = "none"

\* No process of the window has broken as long as another one may follow.
BrokenIsLast ==
  script # "e2_v2" \/ proc \in {"none", "running"} \/ Accepted(proc) => ran.broke = FALSE

ResultsGood ==
  script = "e2_v2" => Good(results)

OkInv ==
  /\ script \in {"none", "e2_run", "e2_v2"}
  /\ file = [s \in {"e2_run", "e2_v2"} |-> file[s]]
  /\ IdleIsClean
  /\ ProcEnds
  /\ BrokenIsLast
  /\ ResultsGood
  /\ Good(file["e2_v2"].results)

USE DEF OkInv, IdleIsClean, ProcEnds, BrokenIsLast, ResultsGood

LEMMA OkStarts == Init => OkInv
  BY DEF Init, NoneRan, Absent, Good

LEMMA BeginKeepsOk ==
  ASSUME OkInv, BeginV2 \/ (\E a \in Sweeps : BeginRun(a)) PROVE OkInv'
<1>1. CASE BeginV2
  <2>1. Good(results')
    BY <1>1 DEF BeginV2, Good
  <2> QED BY <1>1, <2>1 DEF BeginV2
<1>2. ASSUME NEW a \in Sweeps, BeginRun(a) PROVE OkInv'
  BY <1>2 DEF BeginRun
<1> QED BY <1>1, <1>2

LEMMA RunKeepsOk ==
  ASSUME OkInv, Skip \/ NextCell \/ BaselineReturns \/ RunSplitinfer PROVE OkInv'
<1>1. CASE Skip
  BY <1>1 DEF Skip
<1>2. CASE NextCell
  BY <1>2 DEF NextCell
<1>3. CASE BaselineReturns
  BY <1>3 DEF BaselineReturns
<1>4. CASE RunSplitinfer
  BY <1>4 DEF RunSplitinfer
<1> QED BY <1>1, <1>2, <1>3, <1>4

LEMMA ProcessKeepsOk ==
  ASSUME OkInv, Measure \/ ProcessEnds \/ Again \/ Leave PROVE OkInv'
<1>1. CASE Measure
  BY <1>1 DEF Measure, sweep
<1>2. CASE ProcessEnds
  <2>1. CASE script = "e2_v2"
    <3>1. proc' \in Ended /\ ran.broke = FALSE
      BY <1>2, <2>1 DEF ProcessEnds, sweep, Ended
    <3>2. ran'.broke = (ran.broke \/ ~Accepted(proc'))
      BY <1>2, <2>1 DEF ProcessEnds
    <3>3. Accepted(proc') => ran'.broke = FALSE
      BY <3>1, <3>2
    <3> QED BY <1>2, <2>1, <3>1, <3>3 DEF ProcessEnds, sweep, Ended
  <2>2. CASE script # "e2_v2"
    BY <1>2, <2>2 DEF ProcessEnds, sweep
  <2> QED BY <2>1, <2>2
<1>3. CASE Again
  BY <1>3 DEF Again, Accepted, sweep
<1>4. CASE Leave
  BY <1>4 DEF Leave, sweep
<1> QED BY <1>1, <1>2, <1>3, <1>4

LEMMA WrappedKeepsOk ==
  ASSUME OkInv, WrappedReturns PROVE OkInv'
<1> DEFINE new == [cell |-> Head(todo), status |-> Status(proc), by |-> scripts,
                   broke |-> ran.broke, last |-> proc]
<1>1. results' = results \union {new}
  BY DEF WrappedReturns
<1>2. new.status = "ok" => ~new.broke /\ new.last = "ok"
  <2>1. proc \in Ended
    BY DEF WrappedReturns
  <2>2. Status(proc) = "ok" => proc = "ok"
    BY <2>1 DEF Status, Ended
  <2>3. Accepted("ok")
    BY DEF Accepted
  <2> QED BY <2>2, <2>3 DEF WrappedReturns
<1> HIDE DEF new
<1>3. Good(results)
  BY DEF WrappedReturns
<1>4. Good(results')
  BY <1>1, <1>2, <1>3 DEF Good
<1> QED BY <1>4 DEF WrappedReturns, NoneRan

LEMMA SaveKeepsOk ==
  ASSUME OkInv, SaveBegins \/ SaveEnds PROVE OkInv'
<1>1. script \in {"e2_run", "e2_v2"}
  BY DEF SaveBegins, SaveEnds
<1>2. CASE SaveBegins
  <2>1. Good(file'["e2_v2"].results)
    BY <1>1, <1>2 DEF SaveBegins, Torn, Good
  <2> QED BY <1>1, <1>2, <2>1 DEF SaveBegins
<1>3. CASE SaveEnds
  <2>1. script = "e2_v2" => file'["e2_v2"].results = results
    BY <1>1, <1>3 DEF SaveEnds, Written
  <2>2. script # "e2_v2" => file'["e2_v2"] = file["e2_v2"]
    BY <1>1, <1>3 DEF SaveEnds
  <2>3. Good(file'["e2_v2"].results)
    BY <2>1, <2>2
  <2> QED BY <1>1, <1>3, <2>3 DEF SaveEnds
<1> QED BY <1>2, <1>3

LEMMA IdleKeepsOk ==
  ASSUME OkInv, Idle PROVE OkInv'
  BY DEF Idle, NoneRan

LEMMA NextKeepsOk == OkInv /\ [Next]_vars => OkInv'
<1> SUFFICES ASSUME OkInv, [Next]_vars PROVE OkInv'
  OBVIOUS
<1>1. CASE BeginV2 \/ (\E a \in Sweeps : BeginRun(a))
  BY <1>1, BeginKeepsOk
<1>2. CASE Skip \/ NextCell \/ BaselineReturns \/ RunSplitinfer
  BY <1>2, RunKeepsOk
<1>3. CASE Measure \/ ProcessEnds \/ Again \/ Leave
  BY <1>3, ProcessKeepsOk
<1>4. CASE WrappedReturns
  BY <1>4, WrappedKeepsOk
<1>5. CASE SaveBegins \/ SaveEnds
  BY <1>5, SaveKeepsOk
<1>6. CASE Ends \/ Dies
  BY <1>6, IdleKeepsOk DEF Ends, Dies
<1>7. CASE UNCHANGED <<sweep, proc, ran>>
  BY <1>7 DEF sweep
<1>8. CASE UNCHANGED vars
  BY <1>8 DEF vars
<1> QED BY <1>1, <1>2, <1>3, <1>4, <1>5, <1>6, <1>7, <1>8 DEF Next, Work

\* However many processes fill a window, and whenever the script is killed,
\* a cell recorded as ok never hides a process that failed or timed out.
THEOREM OkTheorem == Spec => []NeverOkAfterFailure
<1>1. OkInv => NeverOkAfterFailure
  BY DEF NeverOkAfterFailure, Good, Holds
<1> QED BY <1>1, OkStarts, NextKeepsOk, PTL DEF Spec

(***************************************************************************)
(* The results.  What a script has in hand always holds what it has to     *)
(* keep; of what it measured itself the file holds all but between the     *)
(* cell's end and the end of its write.                                    *)
(***************************************************************************)
ToKeep == {r \in prior : r.cell \notin pairs}

MeasuredHere == {r \in results : r.by = scripts /\ r.status # "skipped"}

KeepInv ==
  /\ script = "e2_run" => ToKeep \subseteq results
  /\ script = "e2_run" /\ file["e2_run"].state = "whole" => ToKeep \subseteq Holds(file["e2_run"])
  /\ at \in {"next", "b1", "b2", "splitinfer", "cell"} => MeasuredHere \subseteq Holds(file[script])

USE DEF KeepInv, ToKeep, MeasuredHere, Holds

LEMMA NextKeepsFiles == OkInv /\ KeepInv /\ [Next]_vars => KeepInv'
<1> SUFFICES ASSUME OkInv, KeepInv, [Next]_vars PROVE KeepInv'
  OBVIOUS
<1>1. ASSUME NEW a \in Sweeps, BeginRun(a) PROVE KeepInv'
  BY <1>1 DEF BeginRun, Keep
<1>2. CASE BeginV2
  BY <1>2 DEF BeginV2
<1>3. CASE Skip
  <2>1. MeasuredHere' = MeasuredHere
    BY <1>3 DEF Skip, Skipped
  <2> QED BY <1>3, <2>1 DEF Skip
<1>4. CASE NextCell \/ BaselineReturns
  BY <1>4 DEF NextCell, BaselineReturns
<1>5. CASE RunSplitinfer \/ WrappedReturns
  BY <1>5 DEF RunSplitinfer, WrappedReturns
<1>6. CASE Measure \/ ProcessEnds \/ Again \/ Leave
  BY <1>6 DEF Measure, ProcessEnds, Again, Leave, sweep
<1>7. CASE SaveBegins
  <2>1. script \in {"e2_run", "e2_v2"}
    BY <1>7 DEF SaveBegins
  <2> QED BY <1>7, <2>1 DEF SaveBegins, Torn
<1>8. CASE SaveEnds
  <2>1. script \in {"e2_run", "e2_v2"}
    BY <1>8 DEF SaveEnds
  <2>2. file'[script] = Written(results)
    BY <1>8, <2>1 DEF SaveEnds
  <2> QED BY <1>8, <2>2 DEF SaveEnds, Written
<1>9. CASE Ends \/ Dies
  BY <1>9 DEF Ends, Dies, Idle
<1>10. CASE UNCHANGED <<sweep, proc, ran>> \/ UNCHANGED vars
  BY <1>10 DEF sweep, vars
<1> QED BY <1>1, <1>2, <1>3, <1>4, <1>5, <1>6, <1>7, <1>8, <1>9, <1>10 DEF Next, Work

LEMMA FilesKept == Spec => [](OkInv /\ KeepInv)
<1>1. Init => OkInv /\ KeepInv
  BY OkStarts DEF Init
<1> QED BY <1>1, NextKeepsOk, NextKeepsFiles, PTL DEF Spec

\* For any sweeps, in any order, each killed at any step, also in the middle of
\* a write: a summary that can be read still holds every cell that it held when
\* the script was started and that the script does not sweep.
THEOREM KeptTheorem == Spec => []KeptAcross
<1>1. KeepInv => KeptAcross
  BY DEF KeptAcross
<1> QED BY <1>1, FilesKept, PTL

\* Whatever a script has measured is in the file before it goes on to the next
\* cell, so that a crash costs at most the cell it interrupts and the file that
\* is being written.
THEOREM SavedTheorem == Spec => []DoneIsSaved
<1>1. KeepInv => DoneIsSaved
  BY DEF DoneIsSaved
<1> QED BY <1>1, FilesKept, PTL

=============================================================================
