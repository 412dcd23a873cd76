--------------------------- MODULE PowerWindow ---------------------------
(* TegraStatsCollector (evaluation/baselines/tegra_power.py): a tegrastats  *)
(* process writes a line per interval into a pipe, a daemon thread reads    *)
(* the lines into the samples, and the script that opened the window closes *)
(* it with stop(). Three actors: the sampler, the reader and the script.    *)
(*                                                                          *)
(* A line is only what the window tells apart: whether it was printed       *)
(* before t_stop was taken ("inside") or after ("late"). The samples are    *)
(* the set of the kinds appended; rails, milliwatts and energy are data.    *)
EXTENDS Naturals, Sequences

CONSTANT PipeSize   \* bound: lines the pipe holds before the sampler blocks

ASSUME PipeSizeAssumption == PipeSize \in Nat \ {0}

VARIABLES
  col,       \* the script in the collector: "closed", "open", "set", "timed", "gone"
  asRoot,    \* the script may signal the sampler (sudo's process is root's)
  sampler,   \* "none" or "up"
  pipe,      \* lines printed and not read
  reader,    \* "none", "starting", "waiting", "done", or "holding" a line
  holding,   \* the line the reader has taken from the pipe
  stopEvt,   \* _stop_evt
  samples,   \* _samples
  held,      \* some sampler refused the signal, its pipe open in this script
  orphans    \* some sampler's pipe has no reading end left

window == <<col, asRoot, sampler, pipe, reader, holding, stopEvt, samples, held, orphans>>

WindowInit ==
  /\ col = "closed"
  /\ asRoot \in BOOLEAN
  /\ sampler = "none"
  /\ pipe = <<>>
  /\ reader = "none"
  /\ holding = "inside"
  /\ stopEvt = FALSE
  /\ samples = {}
  /\ held = FALSE
  /\ orphans = FALSE

\* start(): Popen, a cleared event, no samples, a new reader thread.
StartWindow ==
  /\ col = "closed"
  /\ col' = "open"
  /\ sampler' = "up"
  /\ pipe' = <<>>
  /\ reader' = "starting"
  /\ stopEvt' = FALSE
  /\ samples' = {}
  /\ UNCHANGED <<asRoot, holding, held, orphans>>

----------------------------------------------------------------------------
\* tegrastats prints a line; a full pipe blocks it.
Emit ==
  /\ sampler = "up"
  /\ Len(pipe) < PipeSize
  /\ pipe' = Append(pipe, IF col = "open" \/ col = "set" THEN "inside" ELSE "late")
  /\ UNCHANGED <<col, asRoot, sampler, reader, holding, stopEvt, samples, held, orphans>>

\* tegrastats ends by itself: sudo -n was refused, or it crashed.
SamplerEnds ==
  /\ sampler = "up"
  /\ sampler' = "none"
  /\ UNCHANGED <<col, asRoot, pipe, reader, holding, stopEvt, samples, held, orphans>>

\* A write into a pipe that nobody can read any more ends its sampler: all of
\* them within an interval.
OrphansEnd ==
  /\ orphans
  /\ orphans' = FALSE
  /\ UNCHANGED <<col, asRoot, sampler, pipe, reader, holding, stopEvt, samples, held>>

----------------------------------------------------------------------------
\* _read_loop is entered: a thread that comes after stop() has dropped _proc
\* fails its assertion and ends.
ReaderBegins ==
  /\ reader = "starting"
  /\ reader' = IF col = "gone" THEN "done" ELSE "waiting"
  /\ UNCHANGED <<col, asRoot, sampler, pipe, holding, stopEvt, samples, held, orphans>>

\* Mutant: an empty read is taken for a line that has not come yet.
ReaderTakesNoEnd ==
  /\ reader = "waiting"
  /\ pipe # <<>>
  /\ reader' = "holding"
  /\ holding' = Head(pipe)
  /\ pipe' = Tail(pipe)
  /\ UNCHANGED <<col, asRoot, sampler, stopEvt, samples, held, orphans>>

\* `for line in self._proc.stdout`: the next line, or the end of the file.
ReaderTakes ==
  /\ reader = "waiting"
  /\ \/ /\ pipe # <<>>
        /\ reader' = "holding"
        /\ holding' = Head(pipe)
        /\ pipe' = Tail(pipe)
     \/ /\ pipe = <<>> /\ sampler = "none"
        /\ reader' = "done"
        /\ UNCHANGED <<holding, pipe>>
  /\ UNCHANGED <<col, asRoot, sampler, stopEvt, samples, held, orphans>>

\* The test of the event: break.
ReaderStops ==
  /\ reader = "holding"
  /\ stopEvt
  /\ reader' = "done"
  /\ UNCHANGED <<col, asRoot, sampler, pipe, holding, stopEvt, samples, held, orphans>>

\* Mutant: the loop goes on to the end of the file.
ReaderAppendsAll ==
  /\ reader = "holding"
  /\ reader' = "waiting"
  /\ samples' = samples \union {holding}
  /\ UNCHANGED <<col, asRoot, sampler, pipe, holding, stopEvt, held, orphans>>

\* The test of the event: go on, and the append.
ReaderAppends ==
  /\ reader = "holding"
  /\ ~stopEvt
  /\ reader' = "waiting"
  /\ samples' = samples \union {holding}
  /\ UNCHANGED <<col, asRoot, sampler, pipe, holding, stopEvt, held, orphans>>

----------------------------------------------------------------------------
\* stop(): _stop_evt.set().
StopSets ==
  /\ col = "open"
  /\ col' = "set"
  /\ stopEvt' = TRUE
  /\ UNCHANGED <<asRoot, sampler, pipe, reader, holding, samples, held, orphans>>

\* stop(): _t_stop = monotonic().
StopTimes ==
  /\ col = "set"
  /\ col' = "timed"
  /\ UNCHANGED <<asRoot, sampler, pipe, reader, holding, stopEvt, samples, held, orphans>>

\* Mutant: stop() waits until the sampler it signalled is gone.
TerminateWaits ==
  /\ col = "timed"
  /\ asRoot \/ sampler = "none"
  /\ col' = "gone"
  /\ sampler' = "none"
  /\ UNCHANGED <<asRoot, pipe, reader, holding, stopEvt, samples, held, orphans>>

\* stop(): terminate() and wait(), and _proc = None. A script that is not
\* root gets EPERM from terminate() and again from kill(): both are swallowed.
\* The Popen object that is dropped with its child running goes to
\* subprocess._active, which keeps the pipe's reading end open.
Terminate ==
  /\ col = "timed"
  /\ col' = "gone"
  /\ sampler' = IF asRoot THEN "none" ELSE sampler
  /\ held' = (held \/ (~asRoot /\ sampler = "up"))
  /\ UNCHANGED <<asRoot, pipe, reader, holding, stopEvt, samples, orphans>>

\* stop(): join(). Its two seconds are twenty sampling intervals: the reader
\* has its next line, or the end of the file, before they are over. The pipe
\* and the line go with the reader.
Join ==
  /\ col = "gone"
  /\ reader = "done"
  /\ col' = "closed"
  /\ sampler' = "none"
  /\ pipe' = <<>>
  /\ holding' = "inside"
  /\ UNCHANGED <<asRoot, reader, stopEvt, samples, held, orphans>>

\* The script's process is gone, and with it the reader and every pipe.
WindowDies ==
  /\ col' = "closed"
  /\ orphans' = (orphans \/ held \/ sampler = "up")
  /\ held' = FALSE
  /\ sampler' = "none"
  /\ pipe' = <<>>
  /\ reader' = "none"
  /\ samples' = {}
  /\ stopEvt' = FALSE
  /\ holding' = "inside"
  /\ UNCHANGED asRoot

Sampler == Emit \/ SamplerEnds \/ OrphansEnd
Reader == ReaderBegins \/ ReaderTakes \/ ReaderStops \/ ReaderAppends
Stop == StopTimes \/ Terminate \/ Join

----------------------------------------------------------------------------
\* The samples a caller summarises were all printed before t_stop, and no
\* reader can add to them any more: the event is set before the time is
\* taken, the reader looks at it once it has the line, and stop() joins.
SamplesInWindow ==
  col = "closed" => "late" \notin samples /\ reader \in {"none", "done"}

=============================================================================
