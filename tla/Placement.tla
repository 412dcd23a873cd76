----------------------------- MODULE Placement -----------------------------
(* partitioner/cli.py: parse the model, place every layer on the GPU, in    *)
(* the pool or on the FPGA by dynamic programming (solver.py) under the     *)
(* cost model (cost_model.py), and write the manifest (manifest.py).  Time  *)
(* is counted in the time the link takes for one byte; divisions of the     *)
(* compute costs are integer.                                               *)
EXTENDS Artifacts, FiniteSets

VARIABLES
    hw,        \* HardwareParams: fpga_weights_resident is the only field that changes
    layers,    \* the LayerInfo of every node
    bucket,    \* the size of a bucket of each memory
    place_cost, \* cost of every layer under every placement
    at,        \* the last layer the dynamic programme has taken in
    dp,        \* best cost of the layers so far, by placement and memory use
    back,      \* the previous layer's placement in that best plan, by layer
    cursor,    \* backtracking: where the plan goes through the next layer up
    plan       \* the placement of every layer, filled from the end

solver == <<hw, layers, bucket, place_cost, at, dp, back, cursor, plan>>

PLACEMENTS == <<"gpu", "pool", "fpga">>
COMPUTE_LOCATION(p) == IF p = "fpga" THEN "fpga" ELSE "gpu"
FPGA_SUPPORTED_OPS == {"Gather", "MatMul", "Gemm", "Relu", "Add", "Mul"}
FpgaMemoryBound == {"Gather"}
PageBytes == 4096
ChunkBytes == 4096
DispatchBytes == 33
Inf == -1          \* no cost: infinite
Plus(x, y) == IF x = Inf \/ y = Inf THEN Inf ELSE x + y
Cheaper(x, y) == x # Inf /\ (y = Inf \/ x < y)
CeilDiv(x, y) == (x + y - 1) \div y
Larger(x, y) == IF x < y THEN y ELSE x

(***************************************************************************)
(* cost_model.py                                                           *)
(***************************************************************************)
flops(l) ==
    CASE l.op \in {"MatMul", "Gemm"} ->
           IF Len(l.wshape) = 2 /\ l.oshape # Unknown
           THEN 2 * Product(Front(l.oshape)) * Product(l.wshape)
           ELSE (2 * l.weight) \div 4
      [] l.op \in {"Relu", "Add", "Mul"} -> l.output \div 4
      [] OTHER -> 0

link_time(h, nbytes, messages) == nbytes + messages * h.rtt

gpu_compute(h, l) == IF flops(l) = 0 THEN h.launch ELSE flops(l) \div h.gpu

fpga_compute(h, l) ==
    CASE l.op \in FpgaMemoryBound -> (l.input + 2 * l.output) \div h.ddr
      [] l.op \notin FpgaMemoryBound /\ flops(l) = 0 -> 0
      [] OTHER -> Larger(flops(l) \div h.fpga, (l.weight \div 4 + l.input) \div h.ddr)

pool_weight_fault(h, l) ==
    IF l.weight = 0 THEN 0
    ELSE link_time(h, l.weight, CeilDiv(CeilDiv(l.weight, PageBytes), Larger(1, h.prefetch)))

nmc_weight_stream(h, l) ==
    IF h.resident \/ l.weight = 0 THEN 0
    ELSE link_time(h, l.weight, CeilDiv(l.weight, ChunkBytes))

nmc_dispatch(h) == link_time(h, DispatchBytes, 1)

activation_transfer(h, nbytes) ==
    IF nbytes = 0 THEN 0 ELSE link_time(h, nbytes, CeilDiv(nbytes, ChunkBytes))

placement_cost(h, l, p) ==
    CASE p = "gpu"  -> gpu_compute(h, l)
      [] p = "pool" -> pool_weight_fault(h, l) + gpu_compute(h, l)
      [] p = "fpga" -> nmc_weight_stream(h, l) + nmc_dispatch(h) + fpga_compute(h, l)

boundary_cost(h, prev, from, to) ==
    IF COMPUTE_LOCATION(from) = COMPUTE_LOCATION(to) THEN 0
    ELSE activation_transfer(h, prev.output)

Feasible(h, l, p) ==      \* fpga_feasible, pool_feasible
    CASE p = "gpu"  -> TRUE
      [] p = "pool" -> l.weight <= h.ddr2
      [] p = "fpga" -> l.op \in FPGA_SUPPORTED_OPS /\ l.weight <= h.ddr2

(***************************************************************************)
(* solver.py: memory is counted in buckets of a size chosen for each of    *)
(* the two memories so that the table stays small.                         *)
(***************************************************************************)
buckets(nbytes, size) == CeilDiv(nbytes, size)
Root(n) == CHOOSE r \in 0..n : r * r <= n /\ n < (r + 1) * (r + 1)

choose_buckets(h, fixed, max_states) ==
    CASE fixed # 0 -> [host |-> fixed, fpga |-> fixed]
      [] fixed = 0 /\ (~h.resident \/ h.ddr2 <= 0) ->
           [host |-> Larger(PageBytes, CeilDiv(h.host, max_states)), fpga |-> PageBytes]
      [] fixed = 0 /\ h.resident /\ h.ddr2 > 0 /\ h.host <= 0 ->
           [host |-> PageBytes, fpga |-> Larger(PageBytes, CeilDiv(h.ddr2, max_states))]
      [] OTHER -> [host |-> Larger(PageBytes, CeilDiv(h.host, Root(max_states))),
                   fpga |-> Larger(PageBytes, CeilDiv(h.ddr2, Root(max_states)))]

Allowed(j) == SelectSeq(PLACEMENTS, LAMBDA p : p \in j.allowed)
P == Allowed(job)
HostSlots == 0..buckets(hw.host, bucket.host)
FpgaSlots == IF hw.resident THEN 0..buckets(hw.ddr2, bucket.fpga) ELSE {0}
Cells == (DOMAIN P) \X HostSlots \X FpgaSlots

PlaceCosts == [i \in DOMAIN layers |-> [j \in DOMAIN P |->
                 IF Feasible(hw, layers[i], P[j]) THEN placement_cost(hw, layers[i], P[j])
                 ELSE Inf]]

\* How placing a layer moves the memory in use: <<host, FPGA>> buckets.
usage_shift(i, j) ==
    IF P[j] = "gpu" THEN <<buckets(layers[i].weight, bucket.host), 0>>
    ELSE <<0, IF hw.resident THEN buckets(layers[i].weight, bucket.fpga) ELSE 0>>

\* The cell the previous layer was in, if c is where layer i ends on.
Before(i, c, jp) == <<jp, c[2] - usage_shift(i, c[1])[1], c[3] - usage_shift(i, c[1])[2]>>

\* Mutant: the transfer at a placement boundary is charged the layer's own
\* output.
CandidateOwnOutput(i, c, jp) ==
    LET b == Before(i, c, jp)
    IN IF b[2] >= 0 /\ b[3] >= 0
       THEN Plus(Plus(dp[b], place_cost[i][c[1]]),
                 boundary_cost(hw, layers[i], P[jp], P[c[1]]))
       ELSE Inf

Candidate(i, c, jp) ==
    LET b == Before(i, c, jp)
    IN IF b[2] >= 0 /\ b[3] >= 0
       THEN Plus(Plus(dp[b], place_cost[i][c[1]]),
                 boundary_cost(hw, layers[i - 1], P[jp], P[c[1]]))
       ELSE Inf

\* The first of the cheapest: a later candidate must be strictly better.
FirstBest(i, c) ==
    CHOOSE jp \in DOMAIN P :
      \A k \in DOMAIN P : IF k < jp THEN Cheaper(Candidate(i, c, jp), Candidate(i, c, k))
                                       ELSE ~Cheaper(Candidate(i, c, k), Candidate(i, c, jp))

FirstLayer(c) == IF usage_shift(1, c[1]) = <<c[2], c[3]>> THEN place_cost[1][c[1]] ELSE Inf

Earlier(c, d) ==      \* in the order of the flattened table
    \/ c[1] < d[1]
    \/ c[1] = d[1] /\ c[2] < d[2]
    \/ c[1] = d[1] /\ c[2] = d[2] /\ c[3] < d[3]

FirstMinimum == CHOOSE c \in Cells : \A d \in Cells \ {c} :
                   Cheaper(dp[c], dp[d]) \/ (dp[c] = dp[d] /\ Earlier(c, d))

(***************************************************************************)
(* manifest.py, with the sums of solver._summarise                         *)
(***************************************************************************)
Names == [i \in DOMAIN plan |-> P[plan[i]]]
Sum(F(_)) == Total([i \in DOMAIN layers |-> F(i)], 1, Len(layers))
On(ps, i, x) == IF Names[i] \in ps THEN x ELSE 0
Crossing(i) == i > 1 /\ COMPUTE_LOCATION(Names[i - 1]) # COMPUTE_LOCATION(Names[i])
\* Mutant: the summary charges a boundary the transfer of the layer after it.
BoundaryAfter(i) == IF i = 1 THEN 0 ELSE boundary_cost(hw, layers[i], Names[i - 1], Names[i])
Boundary(i) == IF i = 1 THEN 0 ELSE boundary_cost(hw, layers[i - 1], Names[i - 1], Names[i])
Ddr2Weights == {i \in DOMAIN layers : Names[i] # "gpu"}

summarise ==
    [breakdown |->
       [gpu_compute  |-> Sum(LAMBDA i : On({"gpu", "pool"}, i, gpu_compute(hw, layers[i]))),
        fpga_compute |-> Sum(LAMBDA i : On({"fpga"}, i, fpga_compute(hw, layers[i]))),
        pool_fault   |-> Sum(LAMBDA i : On({"pool"}, i, pool_weight_fault(hw, layers[i]))),
        weight_stream |-> Sum(LAMBDA i : On({"fpga"}, i, nmc_weight_stream(hw, layers[i]))),
        dispatch     |-> Sum(LAMBDA i : On({"fpga"}, i, nmc_dispatch(hw))),
        activation_xfer |-> Sum(Boundary)],
     host |-> Sum(LAMBDA i : On({"gpu"}, i, layers[i].weight)),
     fpga |-> IF hw.resident THEN Sum(LAMBDA i : On({"pool", "fpga"}, i, layers[i].weight))
              ELSE Max({layers[i].weight : i \in Ddr2Weights} \cup {0}),
     traffic |-> IF hw.resident THEN 0
                 ELSE Sum(LAMBDA i : On({"fpga"}, i, layers[i].weight)),
     faulted |-> Sum(LAMBDA i : On({"pool"}, i, layers[i].weight)),
     moved   |-> Sum(LAMBDA i : IF Crossing(i) THEN layers[i - 1].output ELSE 0),
     crossings |-> Sum(LAMBDA i : IF Crossing(i) THEN 1 ELSE 0)]

transfer(i) == [after |-> layers[i - 1].name, before |-> layers[i].name,
                from |-> COMPUTE_LOCATION(Names[i - 1]),
                to |-> COMPUTE_LOCATION(Names[i]), bytes |-> layers[i - 1].output]

transfers ==
    LET upto[i \in 0..Len(layers)] ==
          IF i = 0 THEN <<>>
          ELSE IF Crossing(i) THEN Append(upto[i - 1], transfer(i)) ELSE upto[i - 1]
    IN upto[Len(layers)]

generate_manifest ==
    <<[layers |-> [i \in DOMAIN layers |->
                     [name |-> layers[i].name, placement |-> Names[i],
                      device |-> COMPUTE_LOCATION(Names[i]), weight |-> layers[i].weight]],
       transfers |-> transfers,
       latency |-> dp[FirstMinimum],
       summary |-> summarise,
       hardware |-> hw]>>

ZeroOutputs == {i \in DOMAIN layers : layers[i].output = 0 /\ layers[i].op # "Constant"}

Built(m) ==
    CASE m.kind = "dlrm" -> build_dlrm(m.tables, m.rows, m.cols, m.dense, m.batch)
      [] m.kind = "dlrm_streaming" ->
           build_dlrm_streaming(m.tables, m.rows, m.cols, m.dense, m.batch)
      [] m.kind = "mlp" ->
           build_dense_mlp_streaming(m.input, m.hidden, m.output, m.layers, m.batch)
      [] m.kind = "exported" ->
           Exported(build_dense_mlp_streaming(m.input, m.hidden, m.output,
                                              m.layers, m.batch), m.activation)

(***************************************************************************)
(* What a user may ask for: rates and sizes are numbers, some placement is *)
(* allowed, the model is one of the generators' with positive sizes (or    *)
(* one of theirs exported with another activation), and it parses to       *)
(* layers whose sizes are numbers.                                         *)
(***************************************************************************)
BuildOK(m) ==
    /\ m.kind \in {"dlrm", "dlrm_streaming", "mlp", "exported"} /\ m.batch \in Nat \ {0}
    /\ m.kind \in {"dlrm", "dlrm_streaming"} =>
         {m.tables, m.rows, m.cols, m.dense} \subseteq Nat \ {0}
    /\ m.kind \in {"mlp", "exported"} =>
         {m.input, m.hidden, m.output, m.layers} \subseteq Nat \ {0}
    /\ m.kind = "exported" => m.activation \notin {"Gather", "Concat", "MatMul"}

HardwareOK(h) == /\ {h.rtt, h.launch, h.ddr2, h.host, h.prefetch} \subseteq Nat
                 /\ {h.gpu, h.fpga, h.ddr} \subseteq Nat \ {0}
                 /\ h.resident \in BOOLEAN

LayerOK(l) == {l.weight, l.input, l.output, flops(l)} \subseteq Nat

JobOK(j) ==
    /\ HardwareOK(j.hw) /\ BuildOK(j.build) /\ j.bucket \in Nat /\ j.max_states \in Nat \ {0}
    /\ Allowed(j) \in Seq(Range(PLACEMENTS)) \ {<<>>}
    /\ LET parsed == parse_onnx_graph(Built(j.build), j.batch)
       IN /\ Len(parsed) \in Nat \ {0} /\ DOMAIN parsed = 1..Len(parsed)
          /\ \A i \in DOMAIN parsed : LayerOK(parsed[i])

ASSUME JobsAssumption == \A j \in Jobs : JobOK(j)

(***************************************************************************)
(* The steps of cli.main.  The model is written by a generator before.     *)
(***************************************************************************)
PlacementInit ==
    /\ job \in Jobs
    /\ stage = "generate"
    /\ model = <<>> /\ manifest = <<>> /\ program = <<>>
    /\ hw = job.hw
    /\ bucket = <<>> /\ place_cost = <<>>
    /\ layers = <<>> /\ at = 0 /\ dp = <<>> /\ back = <<>> /\ cursor = <<>> /\ plan = <<>>

Generate ==
    /\ stage = "generate"
    /\ model' = Built(job.build)
    /\ stage' = "parse"
    /\ UNCHANGED <<job, manifest, program, solver>>

Parse ==
    /\ stage = "parse" /\ job.tool = "place"
    /\ LET parsed == parse_onnx_graph(model, job.batch)
       IN \/ /\ ~job.permissive /\ ~ShapesResolved(parsed)
             /\ Fail("ShapeResolutionError")
             /\ UNCHANGED solver
          \/ /\ job.permissive \/ ShapesResolved(parsed)
             /\ layers' = parsed
             /\ stage' = "partition"
             /\ UNCHANGED <<job, files, hw, bucket, place_cost, at, dp, back, cursor, plan>>

SolveStart ==
    /\ stage = "partition"
    /\ bucket' = choose_buckets(hw, job.bucket, job.max_states)
    /\ place_cost' = PlaceCosts
    /\ stage' = "solve"
    /\ UNCHANGED <<job, files, hw, layers, at, dp, back, cursor, plan>>

SolveFirst ==
    /\ stage = "solve" /\ at = 0
    /\ at' = 1
    /\ dp' = [c \in Cells |-> FirstLayer(c)]
    /\ back' = <<[c \in Cells |-> c[1]]>>
    /\ UNCHANGED <<job, stage, files, hw, layers, bucket, place_cost, cursor, plan>>

SolveLayer ==
    /\ stage = "solve" /\ at \in 1..(Len(layers) - 1)
    /\ at' = at + 1
    /\ LET best == [c \in Cells |-> FirstBest(at + 1, c)]
       IN /\ dp' = [c \in Cells |-> Candidate(at + 1, c, best[c])]
          /\ back' = Append(back, best)
    /\ UNCHANGED <<job, stage, files, hw, layers, bucket, place_cost, cursor, plan>>

SolveEnd ==
    /\ stage = "solve" /\ at = Len(layers)
    /\ \/ /\ dp[FirstMinimum] = Inf
          /\ Fail("RuntimeError")
          /\ UNCHANGED <<cursor, plan>>
       \/ /\ dp[FirstMinimum] # Inf
          /\ cursor' = FirstMinimum
          /\ plan' = <<>>
          /\ stage' = "backtrack"
          /\ UNCHANGED <<job, files>>
    /\ UNCHANGED <<hw, layers, bucket, place_cost, at, dp, back>>

\* Mutant: the way back forgets that the FPGA's memory was charged.
BacktrackHostOnly ==
    /\ stage = "backtrack" /\ Len(plan) < Len(layers)
    /\ LET i == Len(layers) - Len(plan)
           b == Before(i, cursor, back[i][cursor])
       IN /\ plan' = <<cursor[1]>> \o plan
          /\ cursor' = [b EXCEPT ![3] = cursor[3]]
    /\ UNCHANGED <<job, stage, files, hw, layers, bucket, place_cost, at, dp, back>>

Backtrack ==
    /\ stage = "backtrack" /\ Len(plan) < Len(layers)
    /\ LET i == Len(layers) - Len(plan)
       IN /\ plan' = <<cursor[1]>> \o plan
          /\ cursor' = Before(i, cursor, back[i][cursor])
    /\ UNCHANGED <<job, stage, files, hw, layers, bucket, place_cost, at, dp, back>>

\* The file is opened, and so emptied, before its contents are put together.
WriteManifest ==
    /\ stage = "backtrack" /\ Len(plan) = Len(layers)
    /\ \/ /\ ZeroOutputs # {}
          /\ manifest' = <<>>
          /\ stage' = "ManifestValueError"
       \/ /\ ZeroOutputs = {}
          /\ manifest' = generate_manifest
          /\ stage' = "placed"
    /\ UNCHANGED <<job, model, program, solver>>

Place == Generate \/ Parse \/ SolveStart \/ SolveFirst \/ SolveLayer \/ SolveEnd \/ Backtrack \/ WriteManifest

(***************************************************************************)
(* Properties                                                              *)
(***************************************************************************)
Feasibles(n) == {a \in [1..n -> DOMAIN P] : \A i \in 1..n : place_cost[i][a[i]] # Inf}

\* What layer i adds to the cost of plan a, and to the memory it uses.
Charge(a, i) ==
    place_cost[i][a[i]]
      + IF i = 1 THEN 0 ELSE boundary_cost(hw, layers[i - 1], P[a[i - 1]], P[a[i]])

CostOf(a) == Total([i \in DOMAIN a |-> Charge(a, i)], 1, Len(a))
UseOf(a) == <<Total([i \in DOMAIN a |-> usage_shift(i, a[i])[1]], 1, Len(a)),
              Total([i \in DOMAIN a |-> usage_shift(i, a[i])[2]], 1, Len(a))>>

\* After every layer the table holds, for each placement of the last layer and
\* each memory use, the cost of the best of ALL ways to place the layers so
\* far that end there (solver._solve is "a genuine DP", as its module says):
\* greedy choices, a memory counted twice or a tie broken into an infeasible
\* cell would show here first.
DpIsBest ==
    stage = "solve" /\ at > 0 =>
      LET ways == {<<a[at], UseOf(a), CostOf(a)>> : a \in Feasibles(at)}
          Ending(c) == {w[3] : w \in {x \in ways : x[1] = c[1] /\ x[2] = <<c[2], c[3]>>}}
      IN \A c \in Cells : dp[c] = IF Ending(c) = {} THEN Inf ELSE Min(Ending(c))

\* The plan the backtracking recovers costs what the table says, place by
\* place, and uses the memory of the cell it started from: the argmin table
\* and the usage shifts undone agree with those applied.
PlanAttainsTotal ==
    stage \in {"backtrack", "placed"} /\ Len(plan) = Len(layers) =>
      /\ CostOf(plan) = dp[FirstMinimum]
      /\ UseOf(plan) = <<FirstMinimum[2], FirstMinimum[3]>>

\* The manifest can be reproduced from itself: the latency it promises is the
\* sum of its own breakdown and of its layers' costs under the hardware it
\* records, its transfers are where its devices change, and no layer of it
\* has a zero-byte output (manifest.py's docstring).
ManifestReproducible ==
    manifest # <<>> =>
      LET m == manifest[1]
          b == m.summary.breakdown
          PlaceAt(i) == m.layers[i].placement
      IN /\ m.latency = b.gpu_compute + b.fpga_compute + b.pool_fault + b.weight_stream
                        + b.dispatch + b.activation_xfer
         /\ m.latency = Sum(LAMBDA i : placement_cost(m.hardware, layers[i], PlaceAt(i))
                              + IF i = 1 THEN 0
                                ELSE boundary_cost(m.hardware, layers[i - 1],
                                                   PlaceAt(i - 1), PlaceAt(i)))
         /\ Len(m.transfers) = m.summary.crossings
         /\ Total([k \in DOMAIN m.transfers |-> m.transfers[k].bytes], 1, Len(m.transfers))
              = m.summary.moved
         /\ \A i \in DOMAIN layers : layers[i].output > 0 \/ layers[i].op = "Constant"

\* solver.partition_model's docstring: "Rounding is conservative (ceil), so a
\* plan the solver accepts always fits" in the host's budget and in the DDR2.
PlanFits ==
    manifest # <<>> => /\ manifest[1].summary.host <= hw.host
                       /\ manifest[1].summary.fpga <= hw.ddr2
=============================================================================
