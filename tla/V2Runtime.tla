----------------------------- MODULE V2Runtime -----------------------------
(* splitinfer_v2: run a lowered program on the host, on the FPGA's engines  *)
(* (nmc), or on the host with the weights behind the cxlwin window (pool),  *)
(* and compare every output with the one the lowering expects.  The DDR2    *)
(* keeps its contents from one run to the next.                             *)
EXTENDS Lowering

CONSTANTS Warmup, Iterations, Runs, PageSize
ASSUME V2RuntimeAssumption ==
    /\ Warmup \in Nat /\ Iterations \in Nat \ {0} /\ Runs \in Nat
    /\ PageSize \in Nat \ {0}

\* A run's options: the mode is one of three (splitinfer_v2.cpp refuses others),
\* and the window prefetches at least its own page (cxlwin.c takes 0 for 1).
ASSUME OptionsAssumption ==
    \A j \in Jobs : \A o \in j.runs : /\ o.mode \in {"host", "nmc", "pool"}
                                      /\ o.prefetch \in Nat \ {0} /\ o.warm \in BOOLEAN

VARIABLES
    run,        \* options of this run and the Program it has loaded, or <<>>
    runs,       \* how many runs there have been
    ddr2,       \* the FPGA's memory
    arena,      \* the host executor's memory, or the pool executor's activations
    pages,      \* pages of the window that are in the host's memory
    fetched,    \* pages fetched in this iteration
    iteration,
    layer,      \* layers done in this iteration
    mismatches,
    touched,    \* pages read in this iteration
    exit        \* exit code of the last run; -1 before it ends

runtime == <<run, runs, ddr2, arena, pages, fetched, touched, iteration, layer, mismatches, exit>>

Doc   == run[1].doc
Image == run[1].image.bytes
Mode  == run[1].opts.mode

(***************************************************************************)
(* program.cpp                                                             *)
(***************************************************************************)
Loads == /\ program[1].doc # <<>> /\ program[1].image # <<>> /\ program[1].vectors # <<>>
         /\ program[1].image[1].size = program[1].doc[1].imagebytes

\* Segment s, copied from the image to where it belongs.
CopySegment(mem, image, s) ==
    (mem \ Touched(mem, s.addr, s.len))
        \cup {[e EXCEPT !.at = @ + s.addr] : e \in Loaded(image, s.off, s.len)}

CopySegments(mem, image, segments) ==
    FoldLeft(LAMBDA m, s : CopySegment(m, image, s), mem, segments)

(***************************************************************************)
(* executors.cpp.  How the three executors differ: where the weights are,  *)
(* where the activations are, how much of an input or a row is written.    *)
(***************************************************************************)
OnDevice   == Mode = "nmc"
Weights    == IF Mode = "host" THEN arena ELSE ddr2
Activations == IF OnDevice THEN ddr2 ELSE arena
InputWidth(len) == IF OnDevice THEN pad16(len) ELSE len
RowWidth(L)     == IF OnDevice THEN L.width ELSE L.dim

\* The host's loop copies a segment only if it is a table, once a program
\* streams; the link's (load_image) copies all but the weights and the biases.
Resident(doc, s) == ~doc.streaming \/ s.kind = "table"

\* Mutant: the bias of a streamed layer is taken for resident.
StreamedWeight(L, s) == L.stream /\ s.layer = L.name /\ s.kind = "weight"

Streamed(L, s) == L.stream /\ s.layer = L.name

InputsUpTo(mem, vec, n) ==
    LET upto[i \in 0..Len(Doc.inputs)] ==
          IF i = 0 THEN mem
          ELSE LET fed == CHOOSE x \in Range(vec.inputs) : x.name = Doc.inputs[i].name
               IN Store(upto[i - 1], Doc.inputs[i].addr, fed.count, InputWidth(fed.count), fed.tag)
    IN upto[n]

InputsWritten(mem, vec) == InputsUpTo(mem, vec, Len(Doc.inputs))

Row(L, idx) == L.table + (Mark(idx).vec % L.rows) * L.width

\* A row of the table is the table's as far as it can be told apart.
RowOf(L, mem, idx) ==
    LET table == Loaded(mem, L.table, L.rows * L.width) IN GatherResult(L, table, idx)

RunGather(L, weights, mem) ==
    Store(mem, L.out, L.dim, RowWidth(L), RowOf(L, weights, Loaded(mem, L.idx, 4)))

RunFc(L, weights, mem) ==
    LET acc  == FcAcc(L, Loaded(weights, L.w, L.mpad * L.kpad), Loaded(mem, L.in, L.kpad))
        left == Store(mem, L.acc, L.mpad * 4, L.mpad * 4, acc)
        bias == Loaded(weights, L.b, L.mpad * 4)
    IN IF L.final THEN left
       ELSE Store(left, L.out, L.n, L.mpad, Epilogue(L, Doc.gen, acc, bias))

RunLayer(L, weights, mem) ==
    CASE L.kind = "gather" -> RunGather(L, weights, mem)
      [] L.kind = "concat" -> mem
      [] L.kind = "fc"     -> RunFc(L, weights, mem)

\* The last layer's sum gets its bias on the host.
RunOutput ==
    LET L    == Doc.last
        read == Loaded(Activations, L.acc, L.n * 4)
        acc  == IF read = Whole(L.mpad * 4, Mark(read)) THEN Mark(read) ELSE Bad
        b    == IF OnDevice THEN SegmentOf(Doc, Image, L.name, "bias")
                ELSE Loaded(Weights, L.b, L.mpad * 4)
    IN WithBias(L, acc, b)

(***************************************************************************)
(* The pages of the window a layer reads, and those its faults bring in.   *)
(***************************************************************************)
PagesOf(at, len) == (at \div PageSize)..((at + len - 1) \div PageSize)
WindowPages == (Doc.layoutend + PageSize - 1) \div PageSize

LayerReads(L, mem) ==
    CASE L.kind = "gather" -> PagesOf(Row(L, Loaded(mem, L.idx, 4)), L.dim)
      [] L.kind = "concat" -> {}
      [] L.kind = "fc" -> PagesOf(L.w, L.mpad * L.kpad)
                            \cup IF L.final THEN {} ELSE PagesOf(L.b, L.mpad * 4)

\* Reads go upwards, and a fault fetches a run of pages from its own.
Faulted(reads) ==
    LET there[p \in 0..WindowPages] ==     \* once the pages below p have been read
          IF p = 0 THEN pages
          ELSE LET before == there[p - 1]
               IN IF p - 1 \notin reads \/ p - 1 \in before THEN before
                  ELSE before \cup {q \in (p - 1)..(p + run[1].opts.prefetch - 2) :
                                     q < WindowPages}
    IN there[WindowPages]

ReadWindow(reads) ==
    IF Mode = "pool"
    THEN /\ pages' = Faulted(reads)
         /\ fetched' = fetched \cup (pages' \ pages)
         /\ touched' = touched \cup reads
    ELSE UNCHANGED <<pages, fetched, touched>>

(***************************************************************************)
(* splitinfer_v2.cpp, main.                                                *)
(***************************************************************************)
RuntimeInit ==
    /\ run = <<>> /\ runs = 0 /\ ddr2 = {} /\ arena = {} /\ pages = {} /\ fetched = {}
    /\ touched = {} /\ iteration = 0 /\ layer = 0 /\ mismatches = 0 /\ exit = -1

Start ==      \* parse the options and load the program
    /\ stage = "lowered" /\ runs < Runs
    /\ \E opts \in job.runs :
         IF Loads
         THEN /\ run' = <<[opts |-> opts, doc |-> program[1].doc[1], image |-> program[1].image[1],
                           vectors |-> program[1].vectors[1]]>>
              /\ exit' = -1
              /\ stage' = "prepare"
         ELSE /\ run' = <<>>
              /\ exit' = 1
              /\ UNCHANGED stage
    /\ runs' = runs + 1
    /\ iteration' = 0 /\ mismatches' = 0 /\ arena' = {} /\ pages' = {}
    /\ UNCHANGED <<job, files, ddr2, fetched, touched, layer>>

Exit(code) == exit' = code /\ stage' = "lowered"

Prepare ==
    /\ stage = "prepare"
    /\ IF Mode = "pool" /\ Doc.streaming
       THEN Exit(1) /\ UNCHANGED <<ddr2, arena>>
       ELSE /\ LET Chosen(s) == Resident(Doc, s)
                   loaded(mem) == CopySegments(mem, Image, SelectSeq(Doc.segments, Chosen))
               IN IF Mode = "host" THEN arena' = loaded(arena) /\ UNCHANGED ddr2
                                   ELSE ddr2' = loaded(ddr2) /\ UNCHANGED arena
            /\ stage' = "iterate"
            /\ UNCHANGED exit
    /\ UNCHANGED <<job, files, run, runs, pages, fetched, touched, iteration, layer, mismatches>>

\* A message of the link is not answered while the image is loaded: a part of
\* it has arrived.
PrepareFails ==
    /\ stage = "prepare" /\ job.linkfails /\ Mode # "host"
    /\ ~(Mode = "pool" /\ Doc.streaming)
    /\ \E n \in 0..(Len(Doc.segments) - 1) :
         LET Chosen(s) == Resident(Doc, s) /\ \E k \in 1..n : Doc.segments[k] = s
         IN ddr2' = CopySegments(ddr2, Image, SelectSeq(Doc.segments, Chosen))
    /\ Exit(1)
    /\ UNCHANGED <<job, files, run, runs, arena, pages, fetched, touched, iteration, layer,
                   mismatches>>

CurrentVector == run[1].vectors[1 + (iteration % Len(run[1].vectors))]

\* Mutant: only a run's first iteration starts cold.
BeginIterationOnceCold ==
    /\ stage = "iterate"
    /\ pages' = IF Mode = "pool" /\ iteration = 0 THEN {} ELSE pages
    /\ fetched' = {} /\ touched' = {}
    /\ IF OnDevice THEN ddr2' = InputsWritten(ddr2, CurrentVector) /\ UNCHANGED arena
                    ELSE arena' = InputsWritten(arena, CurrentVector) /\ UNCHANGED ddr2
    /\ layer' = 0
    /\ stage' = "layers"
    /\ UNCHANGED <<job, files, run, runs, iteration, mismatches, exit>>

\* A cold pool forgets its pages; then the inputs are written.
BeginIteration ==
    /\ stage = "iterate"
    /\ pages' = IF Mode = "pool" /\ ~run[1].opts.warm THEN {} ELSE pages
    /\ fetched' = {} /\ touched' = {}
    /\ IF OnDevice THEN ddr2' = InputsWritten(ddr2, CurrentVector) /\ UNCHANGED arena
                    ELSE arena' = InputsWritten(arena, CurrentVector) /\ UNCHANGED ddr2
    /\ layer' = 0
    /\ stage' = "layers"
    /\ UNCHANGED <<job, files, run, runs, iteration, mismatches, exit>>

\* The memory of the weights after a streamed layer has been downloaded.
Downloaded(L) ==
    LET Chosen(s) == Streamed(L, s) IN CopySegments(Weights, Image, SelectSeq(Doc.segments, Chosen))

RunOneLayer ==
    /\ stage = "layers" /\ layer < Len(Doc.layers)
    /\ LET L == Doc.layers[layer + 1]
       IN /\ CASE Mode = "host" -> arena' = RunLayer(L, Downloaded(L), Downloaded(L)) /\ UNCHANGED ddr2
               [] Mode = "nmc"  -> ddr2' = RunLayer(L, Downloaded(L), Downloaded(L)) /\ UNCHANGED arena
               [] Mode = "pool" -> arena' = RunLayer(L, ddr2, arena) /\ UNCHANGED ddr2
          /\ ReadWindow(LayerReads(L, Activations))
    /\ layer' = layer + 1
    /\ UNCHANGED <<job, stage, files, run, runs, iteration, mismatches, exit>>

\* An answer of the link does not come, and the run ends: while the inputs are
\* written, while a streamed layer is downloaded or its engines run (its sum may
\* be there without its epilogue), or when the last sum is read back.
LinkFails ==
    /\ stage \in {"iterate", "layers"} /\ job.linkfails /\ OnDevice
    /\ \/ /\ stage = "iterate"
          /\ \E n \in 0..Len(Doc.inputs) : ddr2' = InputsUpTo(ddr2, CurrentVector, n)
       \/ /\ stage = "layers" /\ layer < Len(Doc.layers)
          /\ LET L    == Doc.layers[layer + 1]
                 full == Downloaded(L)
             IN \/ \E n \in 0..Len(Doc.segments) :
                     LET Chosen(s) == Streamed(L, s) /\ \E k \in 1..n : Doc.segments[k] = s
                     IN ddr2' = CopySegments(ddr2, Image, SelectSeq(Doc.segments, Chosen))
                \/ L.kind = "fc" /\ ddr2' = RunFc([L EXCEPT !.final = TRUE], full, full)
                \/ ddr2' = RunLayer(L, full, full)
       \/ /\ stage = "layers" /\ layer = Len(Doc.layers)
          /\ UNCHANGED ddr2
    /\ Exit(1)
    /\ UNCHANGED <<job, files, run, runs, arena, pages, fetched, touched, iteration, layer,
                   mismatches>>

ReadOutput ==
    /\ stage = "layers" /\ layer = Len(Doc.layers)
    /\ ReadWindow(PagesOf(Doc.last.b, Doc.last.n * 4))
    /\ stage' = "compare"
    /\ UNCHANGED <<job, files, run, runs, ddr2, arena, iteration, layer, mismatches, exit>>

Agrees == RunOutput = CurrentVector.expect

\* Mutant: the warmup is compared and the measured iterations are not.
CompareWarmupOnly ==
    /\ stage = "compare"
    /\ iteration' = iteration + 1
    /\ mismatches' = mismatches + IF iteration < Warmup /\ ~Agrees THEN 1 ELSE 0
    /\ IF iteration + 1 = Warmup + Iterations
       THEN Exit(IF mismatches' > 1 THEN 3 ELSE 0)
       ELSE stage' = "iterate" /\ UNCHANGED exit
    /\ UNCHANGED <<job, files, run, runs, ddr2, arena, pages, fetched, touched, layer>>

Compare ==
    /\ stage = "compare"
    /\ iteration' = iteration + 1
    /\ mismatches' = mismatches + IF iteration >= Warmup /\ ~Agrees THEN 1 ELSE 0
    /\ IF iteration + 1 = Warmup + Iterations
       THEN Exit(IF mismatches' > 0 THEN 3 ELSE 0)
       ELSE stage' = "iterate" /\ UNCHANGED exit
    /\ UNCHANGED <<job, files, run, runs, ddr2, arena, pages, fetched, touched, layer>>

Run == Start \/ Prepare \/ PrepareFails \/ BeginIteration \/ RunOneLayer \/ LinkFails
       \/ ReadOutput \/ Compare

(***************************************************************************)
(* Properties                                                              *)
(***************************************************************************)
Trainings(image) == {e.tag.gen : e \in image}
OneTraining == /\ Trainings(Image) = {Doc.gen}
               /\ \A v \in Range(run[1].vectors) : v.expect.gen = Doc.gen

\* Whatever executor runs the program a lowering has finished writing, every
\* iteration's output is the expected one, whatever earlier runs, earlier
\* iterations or a failed link have left in the DDR2, in the host's arena and
\* in the window ("so host and device produce the same integers",
\* lowering.py:17).
BitExact == stage = "compare" /\ OneTraining => Agrees

\* A run that reports success has not mixed two lowerings: a crash between
\* two of the three files leaves a directory
\* whose layout still loads and whose image has the size program.json says,
\* and only the comparison of every output shows it.  (A model of one layer
\* takes no number from program.json, so there its document may be newer.)
NoFalsePass ==
    exit = 0 => /\ \A v \in Range(run[1].vectors) : Trainings(Image) = {v.expect.gen}
                /\ OneTraining \/ Len(FcLayers(Doc)) = 1

\* A measurement of the cold pool pays for every page it reads, in every
\* iteration: none is left from the image load, from warmup or from the
\* iteration before (executors.cpp:220).
ColdIsCold ==
    stage = "compare" /\ Mode = "pool" /\ ~run[1].opts.warm => touched \subseteq fetched
=============================================================================
