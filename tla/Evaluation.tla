---------------------------- MODULE Evaluation ----------------------------
(* The two sweep drivers of evaluation/experiments over one results         *)
(* directory, each cell of them under a PowerWindow:                        *)
(*   e2_run.py  models x batches, merged into e2_summary.json;              *)
(*   e2_v2.py   one workload on every path, into its --out file.            *)
(* A script may die at any step and be started again. A measurement is its  *)
(* status, never its numbers, and the lists of them are sets: nothing reads *)
(* their order.                                                             *)
EXTENDS PowerWindow, FiniteSets

CONSTANTS
  Sweeps,      \* argument lists of e2_run.py: [models, batches], sequences
  Cells,       \* the cells of e2_v2.py that --skip leaves, in order
  MaxScripts,  \* bound: scripts started
  MaxLoops     \* bound: processes that fill --min-window-s

ASSUME EvaluationAssumption ==
  /\ \A s \in Sweeps : s.models # <<>> /\ s.batches # <<>>
  /\ Cells # <<>>
  /\ MaxScripts \in Nat \ {0}
  /\ MaxLoops \in Nat \ {0}

VARIABLES
  script,    \* "none", "e2_run" or "e2_v2"
  scripts,   \* scripts started so far
  at,        \* "idle", "next", "b1", "b2", "splitinfer", "save", "writing"
  pairs,     \* the (model, batch) pairs of the sweep
  todo,      \* the cells left
  results,   \* summary["results"], res["cells"]
  proc,      \* the measured process: "none", "running", or how it ended
  ran,       \* e2_v2: the processes of the cell's window, and if any broke
  prior,     \* what the file held when the script was started
  file       \* script -> its results file: [state, results]

vars == <<script, scripts, at, pairs, todo, results, proc, ran, prior, file, window>>

sweep == <<script, scripts, at, pairs, todo, results, prior, file>>

Elems(s) == {s[i] : i \in 1..Len(s)}

Absent == [state |-> "absent", results |-> {}]
Torn == [state |-> "torn", results |-> {}]
Written(r) == [state |-> "whole", results |-> r]

\* A path that cannot be parsed holds nothing.
Holds(f) == f.results

NoneRan == [loops |-> 0, broke |-> FALSE]

Init ==
  /\ WindowInit
  /\ script = "none"
  /\ scripts = 0
  /\ at = "idle"
  /\ pairs = {}
  /\ todo = <<>>
  /\ results = {}
  /\ proc = "none"
  /\ ran = NoneRan
  /\ prior = {}
  /\ file = [s \in {"e2_run", "e2_v2"} |-> Absent]

----------------------------------------------------------------------------
(* e2_run.py: the merge and the loop                                        *)

\* for model_name in args.models: for batch in args.batches.
Grid(a) ==
  [i \in 1..Len(a.models) * Len(a.batches) |->
     <<a.models[(i - 1) \div Len(a.batches) + 1],
       a.batches[((i - 1) % Len(a.batches)) + 1]>>]

Measured(cell) == [cell |-> cell, status |-> "measured", by |-> scripts]
Skipped(cell) == [cell |-> cell, status |-> "skipped", by |-> scripts]

\* cells_for_model: only dlrm takes every batch.
SupportsBatch(cell) == cell[1] = "dlrm" \/ cell[2] = 1

\* Mutant: a prior cell is dropped when its model is swept at any batch.
KeepModels(old, swept) ==
  {r \in old : r.cell[1] \notin {p[1] : p \in swept}}

\* The prior cells that the sweep does not measure again.
Keep(old, swept) == {r \in old : r.cell \notin swept}

\* main(): an existing summary is merged; one that does not parse is dropped.
BeginRun(a) ==
  /\ script = "none" /\ scripts < MaxScripts
  /\ script' = "e2_run"
  /\ scripts' = scripts + 1
  /\ at' = "next"
  /\ pairs' = Elems(a.models) \X Elems(a.batches)
  /\ todo' = Grid(a)
  /\ results' = Keep(Holds(file["e2_run"]), pairs')
  /\ prior' = Holds(file["e2_run"])
  /\ UNCHANGED <<proc, ran, file, window>>

\* A fixed-batch model: the cell is appended, and nothing is saved.
Skip ==
  /\ script = "e2_run" /\ at = "next" /\ todo # <<>>
  /\ ~SupportsBatch(Head(todo))
  /\ results' = results \union {Skipped(Head(todo))}
  /\ todo' = Tail(todo)
  /\ UNCHANGED <<script, scripts, at, pairs, proc, ran, prior, file, window>>

\* The model file is there or has been generated; a failed generation or a
\* missing file raises, and is one of the ways the script Dies.
NextCell ==
  /\ script = "e2_run" /\ at = "next" /\ todo # <<>>
  /\ SupportsBatch(Head(todo))
  /\ at' = "b1"
  /\ UNCHANGED <<script, scripts, pairs, todo, results, proc, ran, prior, file, window>>

\* run_baseline_b1 and run_baseline_b2 return their statuses.
BaselineReturns ==
  /\ script = "e2_run" /\ at \in {"b1", "b2"}
  /\ proc \in {"ended", "timeout"} /\ col = "closed"
  /\ proc' = "none"
  /\ UNCHANGED ran
  /\ at' = IF at = "b1" THEN "b2" ELSE "splitinfer"
  /\ UNCHANGED <<script, scripts, pairs, todo, results, prior, file, window>>

\* Mutant: the summary is not written after every cell.
RunSplitinferUnsaved ==
  /\ script = "e2_run" /\ at = "splitinfer"
  /\ results' = results \union {Measured(Head(todo))}
  /\ todo' = Tail(todo)
  /\ at' = "next"
  /\ UNCHANGED <<script, scripts, pairs, proc, ran, prior, file, window>>

\* run_splitinfer: the partition command passes options that cli.py does not
\* have, so the cell's splitinfer entry is always "partition_failed". The
\* cell is appended to the summary.
RunSplitinfer ==
  /\ script = "e2_run" /\ at = "splitinfer"
  /\ results' = results \union {Measured(Head(todo))}
  /\ todo' = Tail(todo)
  /\ at' = "save"
  /\ UNCHANGED <<script, scripts, pairs, proc, ran, prior, file, window>>

----------------------------------------------------------------------------
(* The measured process and its window                                      *)

\* The cell's window opens and its command is started.
Measure ==
  /\ at \in {"b1", "b2", "cell"}
  /\ proc = "none"
  /\ StartWindow
  /\ proc' = "running"
  /\ UNCHANGED <<sweep, ran>>

\* wrapped: returncode not in (0, 3) leaves the loop.
Accepted(p) == p \in {"ok", "mismatch", "no_json"}

\* subprocess.run comes back, or kills the command at its timeout. For e2_run
\* a command that came back is told apart only after the window, as ok, failed
\* or no_json. Of e2_v2's commands, status 3 is splitinfer_v2's mismatch.
ProcessEnds ==
  /\ proc = "running"
  /\ proc' \in IF script = "e2_run" THEN {"ended", "timeout"}
               ELSE {"ok", "mismatch", "no_json", "failed", "timeout"}
  /\ ran' = IF script = "e2_v2"
              THEN [loops |-> ran.loops + 1, broke |-> ran.broke \/ ~Accepted(proc')]
              ELSE ran
  /\ UNCHANGED <<sweep, window>>

\* The command came back before the window was long enough: once more.
Again ==
  /\ script = "e2_v2" /\ col = "open"
  /\ Accepted(proc) /\ ran.loops < MaxLoops
  /\ proc' = "running"
  /\ UNCHANGED <<sweep, ran, window>>

\* The with block is left, by its end or by a return inside it.
Leave ==
  /\ proc \notin {"none", "running"}
  /\ StopSets
  /\ UNCHANGED <<sweep, proc, ran>>

----------------------------------------------------------------------------
(* e2_v2.py                                                                 *)

BeginV2 ==
  /\ script = "none" /\ scripts < MaxScripts
  /\ script' = "e2_v2"
  /\ scripts' = scripts + 1
  /\ at' = "cell"
  /\ todo' = Cells
  /\ results' = {}
  /\ pairs' = {}
  /\ prior' = {}
  /\ UNCHANGED <<proc, ran, file, window>>

\* Mutant: the return code is not looked at, only the JSON that was printed.
StatusNoReturnCode(p) ==
  CASE p = "timeout" -> "timeout"
    [] p = "no_json" -> "parse_failed"
    [] OTHER         -> "ok"

\* The status of a cell, from the last process it ran.
Status(p) ==
  CASE p = "timeout"  -> "timeout"
    [] p = "failed"   -> "failed"
    [] p = "no_json"  -> "parse_failed"
    [] p = "mismatch" -> "output_mismatch"
    [] OTHER          -> "ok"

WrappedReturns ==
  /\ script = "e2_v2" /\ at = "cell"
  /\ proc \notin {"none", "running"} /\ col = "closed"
  /\ results' = results \union
                {[cell |-> Head(todo), status |-> Status(proc), by |-> scripts,
                  broke |-> ran.broke, last |-> proc]}
  /\ todo' = Tail(todo)
  /\ proc' = "none"
  /\ ran' = NoneRan
  /\ at' = "save"
  /\ UNCHANGED <<script, scripts, pairs, prior, file, window>>

----------------------------------------------------------------------------
(* The results file, and how a script ends                                  *)

\* write_text and open(.., "w") truncate the file before they write it.
SaveBegins ==
  /\ at = "save"
  /\ at' = "writing"
  /\ file' = [file EXCEPT ![script] = Torn]
  /\ UNCHANGED <<script, scripts, pairs, todo, results, proc, ran, prior, window>>

SaveEnds ==
  /\ at = "writing"
  /\ at' = IF script = "e2_run" \/ todo = <<>> THEN "next" ELSE "cell"
  /\ file' = [file EXCEPT ![script] = Written(results)]
  /\ UNCHANGED <<script, scripts, pairs, todo, results, proc, ran, prior, window>>

Idle ==
  /\ script' = "none"
  /\ at' = "idle"
  /\ pairs' = {}
  /\ todo' = <<>>
  /\ results' = {}
  /\ proc' = "none"
  /\ ran' = NoneRan
  /\ prior' = {}
  /\ WindowDies
  /\ UNCHANGED <<scripts, file>>

\* Every cell is done.
Ends == at = "next" /\ todo = <<>> /\ Idle

\* The script is killed, or an exception leaves main.
Dies == script # "none" /\ Idle

Work ==
  \/ Skip \/ NextCell \/ BaselineReturns \/ RunSplitinfer
  \/ Measure \/ ProcessEnds \/ Leave \/ WrappedReturns
  \/ SaveBegins \/ SaveEnds \/ Ends
  \/ Stop /\ UNCHANGED <<sweep, proc, ran>>

Next ==
  \/ \E a \in Sweeps : BeginRun(a)
  \/ BeginV2
  \/ Work
  \/ Again
  \/ Dies
  \/ (Sampler \/ Reader) /\ UNCHANGED <<sweep, proc, ran>>

(* A script's own steps, a thread that can run, and a sampler with room in  *)
(* its pipe all go on; subprocess.run's timeout bounds the process. Nothing *)
(* is fair about being started, dying, or ending early.                     *)
Spec ==
  /\ Init /\ [][Next]_vars
  /\ WF_vars(Work)
  /\ WF_vars(Emit /\ UNCHANGED <<sweep, proc, ran>>)
  /\ WF_vars(OrphansEnd /\ UNCHANGED <<sweep, proc, ran>>)
  /\ WF_vars(Reader /\ UNCHANGED <<sweep, proc, ran>>)

----------------------------------------------------------------------------
\* A re-run for some cells never costs the others ("prevents a targeted re-run
\* from clobbering data from a previous sweep"): a whole summary still holds
\* what it held when the script was started, outside the swept pairs.
KeptAcross ==
  script = "e2_run" /\ file["e2_run"].state = "whole"
    => {r \in prior : r.cell \notin pairs} \subseteq Holds(file["e2_run"])

\* "so we don't lose work": between two cells, whatever was measured is in a
\* whole file, of either script; a crash costs the cell it interrupts and, in
\* the middle of a write, the file.
DoneIsSaved ==
  at \in {"next", "b1", "b2", "splitinfer", "cell"}
    => {r \in results : r.by = scripts /\ r.status # "skipped"}
         \subseteq Holds(file[script])

\* A cell of e2_v2 is "ok" only if none of the processes of its window failed
\* or timed out and the last one agreed with the reference.
NeverOkAfterFailure ==
  \A r \in Holds(file["e2_v2"]) :
    r.status = "ok" => ~r.broke /\ r.last = "ok"

\* A sweep comes to its end: neither a sampler that ended by itself, nor one
\* that refuses the signal, nor a reader that starts late can hold stop() up.
SweepEnds == (script # "none") ~> (script = "none")

\* Every sampler that a window left running is gone in the end: at the latest
\* when the script that holds its pipe is over.
SamplersGo == (held \/ orphans) ~> ~(held \/ orphans)

=============================================================================
