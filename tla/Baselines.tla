----------------------------- MODULE Baselines -----------------------------
(* What else is done with a model: the offload baseline cuts it in two      *)
(* (jetson_cpu_offload.py), the disk-swap baseline writes every weight to a *)
(* file and reads it back for each inference (jetson_disk_swap.py), the     *)
(* profiler times one node at a time (profiler.py).  A tensor is right or   *)
(* missing: what a session computes is the set of tensors it has right.     *)
EXTENDS Artifacts, FiniteSets

VARIABLES
    parts,       \* the sub-models: nodes, inputs, outputs and initializers of each
    held,        \* tensors passed from one session to the next
    disk,        \* file name -> the weight in it
    profiled     \* <<node, inputs fed>>, one for each node timed so far

baselines == <<parts, held, disk, profiled>>

Initializers == DOMAIN model.shape
InputNames == {v.name : v \in Range(model.inputs)}
Consumed(nodes) == UNION {Range(n.ins) : n \in Range(nodes)}
OutputsOf(nodes) == {n.out : n \in Range(nodes)}

Part(nodes, inputs, outputs) ==
    [nodes |-> nodes, inputs |-> inputs, outputs |-> outputs,
     inits |-> Consumed(nodes) \cap Initializers]

\* onnxruntime: a node's output is right when its inputs are; InferenceSession
\* and run refuse a part that lacks something.
Computed(part, feeds, weights) ==
    LET right[i \in 0..Len(part.nodes)] ==
          IF i = 0 THEN (feeds \cap part.inputs) \cup (weights \cap part.inits)
          ELSE LET before == right[i - 1]
                   n == part.nodes[i]
               IN IF Range(n.ins) \subseteq before THEN before \cup {n.out} ELSE before
    IN right[Len(part.nodes)]

(***************************************************************************)
(* jetson_cpu_offload._split_model: the tensors that cross the cut, and    *)
(* the model's inputs that the second part needs, are outputs of the first *)
(* and inputs of the second.                                               *)
(***************************************************************************)
\* Mutant: the inputs of the model that only the second part reads are left out.
CutProducedOnly(gpu, cpu) == OutputsOf(gpu) \cap Consumed(cpu)

Cut(gpu, cpu) == (OutputsOf(gpu) \cap Consumed(cpu))
                    \cup ((Consumed(cpu) \cap InputNames) \ Initializers)

split_model(cpu_layers) ==
    LET total == Len(model.nodes)
        gpu == SubSeq(model.nodes, 1, total - cpu_layers)
        cpu == SubSeq(model.nodes, total - cpu_layers + 1, total)
    IN IF cpu_layers <= 0 \/ cpu_layers >= total
       THEN <<Part(model.nodes, InputNames, {Output})>>
       ELSE <<Part(gpu, InputNames, Cut(gpu, cpu)), Part(cpu, Cut(gpu, cpu), {Output})>>

BaselinesInit == parts = <<>> /\ held = {} /\ disk = <<>> /\ profiled = <<>>

Split ==
    /\ stage = "parse" /\ job.tool = "offload"
    /\ \E cpu_layers \in 0..(Len(model.nodes) + 1) : parts' = split_model(cpu_layers)
    /\ held' = InputNames           \* the dummy inputs of the first session
    /\ stage' = "offload"
    /\ UNCHANGED <<job, files, disk, profiled>>

\* run_once: the second session is fed what the first one returned.
RunPart ==
    /\ stage = "offload" /\ parts # <<>>
    /\ LET part == Head(parts)
           done == Computed(part, held, Initializers)
       IN IF part.outputs \subseteq done /\ part.inputs \subseteq held
          THEN held' = part.outputs
          ELSE held' = {}
    /\ parts' = Tail(parts)
    /\ stage' = IF Tail(parts) = <<>> THEN "offloaded" ELSE stage
    /\ UNCHANGED <<job, files, disk, profiled>>

(***************************************************************************)
(* jetson_disk_swap: a weight's file is its name with "/" replaced; in a   *)
(* job with slashed names a bias's file is then its weight's.              *)
(***************************************************************************)
FileOf(t) == IF job.slashed /\ t[1] = "b" THEN <<"w", t[2]>> ELSE t

\* A file written twice holds the weight written last.
dump_weights_to_disk ==
    [f \in {FileOf(t) : t \in Initializers} |-> CHOOSE t \in Initializers : FileOf(t) = f]

DumpWeights ==
    /\ stage = "parse" /\ job.tool = "swap"
    /\ disk' = dump_weights_to_disk
    /\ stage' = "swap"
    /\ UNCHANGED <<job, files, parts, held, profiled>>

\* run_once: load every file, put the arrays in for the initializers, run.
RunSwapped ==
    /\ stage = "swap"
    /\ LET loaded == {t \in Initializers : disk[FileOf(t)] = t}
           whole  == Part(model.nodes, InputNames, {Output})
       IN held' = Computed(whole, InputNames, loaded) \cap whole.outputs
    /\ stage' = "swapped"
    /\ UNCHANGED <<job, files, parts, disk, profiled>>

(***************************************************************************)
(* profiler.GpuProfiler                                                    *)
(***************************************************************************)
\* _value_info: tensors whose type the model, or shape inference, gives.
Typed == LET shapes == Inferred(model, 1)
         IN InputNames \cup {Output} \cup {t \in DOMAIN shapes : shapes[t] # Unknown}

\* _build_single_node_model gives up on an input it knows nothing about.
Buildable(n) == \A t \in Range(n.ins) : t \in Initializers \/ t \in Typed

\* Mutant: only the model's own inputs are fed.
FedInputs(n) == InputNames \cap (Range(n.ins) \ Initializers)

\* feed_vis: of the inputs and the inferred tensors, those the node reads.
Fed(n) == (Typed \ {Output}) \cap (Range(n.ins) \ Initializers)

ProfileNode ==
    /\ stage = "parse" /\ job.tool = "profile" /\ Len(profiled) < Len(model.nodes)
    /\ LET n == model.nodes[Len(profiled) + 1]
           fed == IF Buildable(n) THEN <<n.name, Fed(n)>> ELSE <<n.name>>
       IN profiled' = Append(profiled, fed)
    /\ UNCHANGED <<job, stage, files, parts, held, disk>>

ProfileEnd ==
    /\ stage = "parse" /\ job.tool = "profile" /\ Len(profiled) = Len(model.nodes)
    /\ stage' = "profiled"
    /\ UNCHANGED <<job, files, baselines>>

Baseline == Split \/ RunPart \/ DumpWeights \/ RunSwapped \/ ProfileNode \/ ProfileEnd

(***************************************************************************)
(* Properties                                                              *)
(***************************************************************************)
\* Both baselines compute the model whose latency they report: wherever the
\* graph is cut, every tensor and every input the second part reads reaches it;
\* and the rebuilt model has every weight it was dumped with, unless two names
\* of the model differ only by "/" and "_".
BaselinesComputeModel ==
    /\ stage = "offloaded" => Output \in held
    /\ stage = "swapped" =>
         (Output \in held \/ \E s, t \in Initializers : s # t /\ FileOf(s) = FileOf(t))

\* Every node is profiled or skipped, and a node whose session is built is fed
\* everything it reads: a missing feed would raise out of profile() and lose
\* the layers already measured.
ProfileFeedsAll ==
    \A i \in DOMAIN profiled :
      Len(profiled[i]) = 2 => profiled[i][2] = Range(model.nodes[i].ins) \ Initializers
=============================================================================
