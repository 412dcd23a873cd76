----------------------------- MODULE OnnxModel -----------------------------
(* The ONNX models the tools exchange: the two generators                   *)
(* (evaluation/models/gen_dlrm.py, gen_dense_mlp.py), the sidecar file they *)
(* stream weights to, and partitioner/graph.py, which resolves the size of  *)
(* every tensor.  A name is a pair <<family, index>>; a weight is known by  *)
(* the name it was generated under.                                         *)
EXTENDS Extents, Sequences, SequencesExt, TLC

Product(dims) ==
    LET p[i \in 0..Len(dims)] == IF i = 0 THEN 1 ELSE p[i - 1] * dims[i]
    IN p[Len(dims)]
Total(f, from, to) ==      \* f[from] + ... + f[to]
    LET s[i \in (from - 1)..to] == IF i < from THEN 0 ELSE s[i - 1] + f[i]
    IN s[to]

\* f with x mapped to v, and f with g where f says nothing: TLC.tla's :> and @@,
\* written out for the proofs.
Put(f, x, v) == [y \in DOMAIN f \cup {x} |-> IF y = x THEN v ELSE f[y]]
Over(f, g)   == [y \in DOMAIN f \cup DOMAIN g |-> IF y \in DOMAIN f THEN f[y] ELSE g[y]]

\* The elements of s that are in S, in order: SelectSeq, for a set.
Select(s, S) ==
    LET upto[i \in 0..Len(s)] == IF i = 0 THEN <<>>
                                 ELSE IF s[i] \in S THEN Append(upto[i - 1], s[i]) ELSE upto[i - 1]
    IN upto[Len(s)]

Node(op, i, ins, out) == [name |-> <<op, i>>, op |-> op, ins |-> ins, out |-> out]
Output == <<"output", 0>>
Dense  == <<"dense_input", 0>>
ConcatOut == <<"concat_out", 0>>
Absent == <<"absent", 0>>

Graph(nodes, inputs, outdims, shape, content) ==
    [nodes |-> nodes, inputs |-> inputs, outdims |-> outdims,
     shape |-> shape, content |-> content]

(***************************************************************************)
(* The sidecar: each tensor is padded to 8 bytes, written, and recorded    *)
(* under the offset and length a reader will use.                          *)
(***************************************************************************)
Align8(n) == IF n % 8 = 0 THEN n ELSE n + (8 - (n % 8))

write_tensor(file, name, nbytes) ==
    LET off == Align8(file.end)
    IN [end     |-> off + nbytes,
        bytes   |-> Store(file.bytes, off, nbytes, nbytes, name),
        offsets |-> Put(file.offsets, name, [at |-> off, len |-> nbytes])]

WriteAll(names, shape) ==
    FoldLeft(LAMBDA file, name : write_tensor(file, name, 4 * Product(shape[name])),
             [end |-> 0, bytes |-> {}, offsets |-> <<>>], names)

\* What a reader that follows the recorded offset finds.
ExternalTensor(file, name) ==
    LET rec == file.offsets[name]
        found == Loaded(file.bytes, rec.at, rec.len)
    IN IF \E e \in found : found = {[at |-> 0, len |-> rec.len, tag |-> e.tag]}
       THEN (CHOOSE e \in found : TRUE).tag
       ELSE Absent

(***************************************************************************)
(* MatMul, Add, Relu for every layer; the last one ends in an Identity     *)
(* that names the output.                                                  *)
(***************************************************************************)
DenseChain(first, dims, activation) ==
    LET layers == Len(dims) - 1
        Input(j) == IF j = 1 THEN first ELSE <<"relu", j - 1>>
    IN [i \in 1..(3 * layers) |->
          LET j == (i + 2) \div 3
          IN CASE i % 3 = 1 -> Node("MatMul", j, <<Input(j), <<"w", j>>>>, <<"mm", j>>)
               [] i % 3 = 2 -> Node("Add", j, <<<<"mm", j>>, <<"b", j>>>>, <<"add", j>>)
               [] j < layers /\ i % 3 = 0 ->
                    Node(activation, j, <<<<"add", j>>>>, <<"relu", j>>)
               [] OTHER -> Node("Identity", j, <<<<"add", j>>>>, Output)]

ChainNames(layers) == [k \in 1..(2 * layers) |->
                         <<IF k % 2 = 1 THEN "w" ELSE "b", (k + 1) \div 2>>]

ChainShapes(dims) ==
    [n \in {"w", "b"} \X (1..(Len(dims) - 1)) |->
       IF n[1] = "w" THEN <<dims[n[2]], dims[n[2] + 1]>> ELSE <<dims[n[2] + 1]>>]

MlpDims(tables, cols, dense) == <<tables * cols + dense, 1024, 256, 1>>

DlrmNodes(tables, dims) ==
    [i \in 1..tables |-> Node("Gather", i, <<<<"emb_table", i>>, <<"emb_idx", i>>>>,
                                           <<"emb_out", i>>)]
    \o <<Node("Concat", 0, [i \in 1..(tables + 1) |->
                              IF i <= tables THEN <<"emb_out", i>> ELSE Dense], ConcatOut)>>
    \o DenseChain(ConcatOut, dims, "Relu")

DlrmInputs(tables, dense, batch) ==
    <<[name |-> Dense, type |-> "float", dims |-> <<batch, dense>>]>>
    \o [i \in 1..tables |-> [name |-> <<"emb_idx", i>>, type |-> "int64", dims |-> <<batch>>]]

DlrmShapes(tables, rows, cols, dims) ==
    Over([n \in {"emb_table"} \X (1..tables) |-> <<rows, cols>>], ChainShapes(dims))

\* gen_dlrm.py without --streaming: the weights are in the model itself.
build_dlrm(tables, rows, cols, dense, batch) ==
    LET dims  == MlpDims(tables, cols, dense)
        shape == DlrmShapes(tables, rows, cols, dims)
    IN Graph(DlrmNodes(tables, dims), DlrmInputs(tables, dense, batch), <<batch, 1>>,
             shape, [n \in DOMAIN shape |-> n])

\* gen_dlrm.py --streaming: a first pass writes the sidecar, a second refers to it.
build_dlrm_streaming(tables, rows, cols, dense, batch) ==
    LET dims  == MlpDims(tables, cols, dense)
        shape == DlrmShapes(tables, rows, cols, dims)
        file  == WriteAll([i \in 1..tables |-> <<"emb_table", i>>] \o ChainNames(3), shape)
    IN Graph(DlrmNodes(tables, dims), DlrmInputs(tables, dense, batch), <<batch, 1>>,
             shape, [n \in DOMAIN shape |-> ExternalTensor(file, n)])

\* gen_dense_mlp.py: input -> hidden ... hidden -> output, weights in a sidecar.
build_dense_mlp_streaming(input, hidden, output, layers, batch) ==
    LET dims  == <<input>> \o [j \in 1..(layers - 1) |-> hidden] \o <<output>>
        shape == ChainShapes(dims)
        file  == WriteAll(ChainNames(layers), shape)
    IN Graph(DenseChain(Dense, dims, "Relu"),
             <<[name |-> Dense, type |-> "float", dims |-> <<batch, input>>]>>,
             <<batch, output>>, shape, [n \in DOMAIN shape |-> ExternalTensor(file, n)])

\* A model from elsewhere: symbolic leading dimensions (0), another activation,
\* one that shape inference knows ("Gelu") or not ("Custom"), or a first node
\* of its own ("Flatten").
Exported(m, op) ==
    LET nodes == [i \in DOMAIN m.nodes |-> IF m.nodes[i].op = "Relu" /\ op # "Flatten"
                                           THEN [m.nodes[i] EXCEPT !.op = op] ELSE m.nodes[i]]
        flat == <<"flat", 0>>
    IN [m EXCEPT !.inputs = [i \in DOMAIN @ |-> [@[i] EXCEPT !.dims[1] = 0]],
                 !.outdims[1] = 0,
                 !.nodes = IF op = "Flatten"
                           THEN <<Node(op, 0, <<Dense>>, flat)>> \o [nodes EXCEPT ![1].ins[1] = flat]
                           ELSE nodes]

(***************************************************************************)
(* graph.py                                                                *)
(***************************************************************************)
Unknown == <<>>

concretize(dims, batch) == [i \in DOMAIN dims |-> IF dims[i] = 0 THEN batch ELSE dims[i]]

IsKnown(dims) == dims # Unknown /\ \A i \in DOMAIN dims : dims[i] # 0

value_info_bytes(dims, type) ==
    IF IsKnown(dims) THEN Product(dims) * (IF type = "int64" THEN 8 ELSE 4) ELSE 0

\* onnx.shape_inference: the shape of a node's output from those of its inputs.
InferShape(m, known, node) ==
    LET In(k) == IF node.ins[k] \in DOMAIN m.shape THEN m.shape[node.ins[k]]
                 ELSE known[node.ins[k]]
        ready == \A k \in DOMAIN node.ins : IsKnown(In(k))
    IN CASE ~ready \/ node.op = "Custom" -> Unknown
         [] node.op = "Gather" -> In(2) \o Tail(In(1))
         [] node.op = "Concat" -> <<In(1)[1], Total([k \in DOMAIN node.ins |-> In(k)[2]],
                                                    1, Len(node.ins))>>
         [] node.op = "MatMul" -> <<In(1)[1], In(2)[2]>>
         [] OTHER -> In(1)

Inferred(m, batch) ==
    LET inputs == [t \in {m.inputs[i].name : i \in DOMAIN m.inputs} |->
                     concretize((CHOOSE v \in Range(m.inputs) : v.name = t).dims, batch)]
    IN FoldLeft(LAMBDA known, node : Put(known, node.out, InferShape(m, known, node)),
                inputs, m.nodes)

\* The declared output keeps its dimensions where inference finds none.
TensorShapes(m, batch) ==
    LET inferred == Inferred(m, batch)
    IN [t \in DOMAIN inferred |->
          IF t = Output /\ inferred[t] = Unknown THEN m.outdims ELSE inferred[t]]

InputType(m, t) == IF \E v \in Range(m.inputs) : v.name = t /\ v.type = "int64"
                   THEN "int64" ELSE "float"

parse_onnx_graph(m, batch) ==
    LET shapes == TensorShapes(m, batch)
        Weights(node) == SelectSeq(node.ins, LAMBDA t : t \in DOMAIN m.shape)
        Acts(node)    == SelectSeq(node.ins, LAMBDA t : t \notin DOMAIN m.shape)
        SumOver(ts, F(_)) == FoldLeft(LAMBDA sum, t : sum + F(t), 0, ts)
    IN [i \in DOMAIN m.nodes |->
          LET node == m.nodes[i]
              acts == Acts(node)
          IN [name    |-> node.name,
              op      |-> node.op,
              weight  |-> SumOver(Weights(node), LAMBDA t : 4 * Product(m.shape[t])),
              input   |-> SumOver(acts, LAMBDA t : value_info_bytes(shapes[t], InputType(m, t))),
              output  |-> value_info_bytes(shapes[node.out], "float"),
              wshape  |-> IF Weights(node) = <<>> THEN <<>> ELSE m.shape[Weights(node)[1]],
              oshape  |-> IF IsKnown(shapes[node.out]) THEN shapes[node.out] ELSE Unknown,
              resolved |-> \A t \in Range(acts) \cup {node.out} : IsKnown(shapes[t])]]

ShapesResolved(layers) == \A i \in DOMAIN layers : layers[i].resolved
=============================================================================
