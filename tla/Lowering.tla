------------------------------ MODULE Lowering ------------------------------
(* partitioner/lowering.py: lays a placed model out in the FPGA's DDR2 and  *)
(* writes the program directory.  Quantised numbers are known by what they  *)
(* are the numbers of: a tag names the tensor, the test vector, the tensor  *)
(* whose range gave the scale, and the training run of the weights.         *)
EXTENDS Artifacts, FiniteSets

CONSTANTS Ddr2Bytes,   \* DDR2_BYTES
          Vectors      \* test vectors written by a lowering

ASSUME LoweringAssumption == Ddr2Bytes \in Nat /\ Vectors \in Nat \ {0}

VARIABLES lw,          \* the Lowering object: the allocator and what it has emitted
          training     \* how often the model's weights have been replaced

pad16(n) == ((n + 15) \div 16) * 16
Tag(of, vec, scale, gen) == [of |-> of, vec |-> vec, scale |-> scale, gen |-> gen]
Bad == Tag(Absent, 0, Absent, 0)
Whole(len, tag) == {[at |-> 0, len |-> len, tag |-> tag]}

(***************************************************************************)
(* The graph as lower() sees it                                            *)
(***************************************************************************)
Nodes == model.nodes
IsInit(t) == t \in DOMAIN model.shape
Consumers(t) == {c \in (DOMAIN Nodes) \X (1..8) : /\ c[2] \in DOMAIN Nodes[c[1]].ins
                                                   /\ Nodes[c[1]].ins[c[2]] = t}
\* The one node that consumes t and is an op, or none.
OnlyConsumer(t, op) == {Nodes[c[1]] : c \in {x \in Consumers(t) :
                          Cardinality(Consumers(t)) = 1 /\ Nodes[x[1]].op = op}}

\* MatMul -> Add -> Relu chains: <<add, relu, the tensor the chain ends in>>.
Chain(n) ==
    LET add  == {a \in OnlyConsumer(n.out, "Add") : \E k \in DOMAIN a.ins : IsInit(a.ins[k])}
        mid  == IF add = {} THEN n.out ELSE (CHOOSE a \in add : TRUE).out
        relu == OnlyConsumer(mid, "Relu")
    IN [add |-> add, relu |-> relu,
        out |-> IF relu = {} THEN mid ELSE (CHOOSE r \in relu : TRUE).out]

MatMuls == {Nodes[i] : i \in {x \in DOMAIN Nodes : Nodes[x].op = "MatMul"}}
Fused == UNION {Chain(n).add \cup Chain(n).relu : n \in MatMuls}
Concats == SelectSeq(Nodes, LAMBDA n : n.op = "Concat")

\* Activation ranges are measured for every fc input, concat output and input.
Calibrated(t) ==
    \/ \E n \in MatMuls : n.ins[1] = t
    \/ \E i \in DOMAIN Concats : Concats[i].out = t
    \/ \E v \in Range(model.inputs) : v.name = t /\ v.type = "float"

\* Mutant: a tensor's own range wins over its concat's.
ScaleOfOwnFirst(t) ==
    LET in == SelectSeq(Concats, LAMBDA c : t \in Range(c.ins))
    IN CASE Calibrated(t) -> t
         [] ~Calibrated(t) /\ in # <<>> -> Last(in).out
         [] OTHER -> Absent

\* The tensor whose range a tensor is quantised with: that of the last concat
\* it is a part of, before its own.
ScaleOf(t) ==
    LET in == SelectSeq(Concats, LAMBDA c : t \in Range(c.ins))
    IN CASE in # <<>> -> Last(in).out
         [] in = <<>> /\ Calibrated(t) -> t
         [] OTHER -> Absent

\* The scale an fc's result is requantised to; Absent where no scale is found.
ResultScale(t) ==
    IF ScaleOf(t) # Absent THEN ScaleOf(t)
    ELSE LET known == {Nodes[c[1]].ins[1] : c \in {x \in Consumers(t) :
                                                     Calibrated(Nodes[x[1]].ins[1])}}
         IN IF known = {} THEN Absent ELSE CHOOSE x \in known : TRUE

IsFinal(t) == t = Output \/ (\E n \in OnlyConsumer(t, "Identity") : n.out = Output)

(***************************************************************************)
(* The allocator, the image and the emitted records                        *)
(***************************************************************************)
Alloc(s, nbytes) ==
    [s EXCEPT !.next = pad16(@ + (IF nbytes = 0 THEN 1 ELSE nbytes))]

\* _place: at addr, or where the allocator stands when addr is -1.
PlaceSegment(s, len, tag, layer, kind, addr) ==
    [(IF addr = -1 THEN Alloc(s, len) ELSE s) EXCEPT
       !.image = Store(@, s.end, len, len, tag),
       !.end = pad16(s.end + len),
       !.segments = Append(@, [addr |-> IF addr = -1 THEN s.next ELSE addr,
                               off |-> s.end, len |-> len, layer |-> layer, kind |-> kind])]

PartLen(t) ==
    LET producer == {Nodes[i] : i \in {x \in DOMAIN Nodes : Nodes[x].out = t}}
    IN CASE \E n \in producer : n.op = "Gather" ->
              model.shape[(CHOOSE n \in producer : TRUE).ins[1]][2]
         [] producer = {} ->
              Product(concretize((CHOOSE v \in Range(model.inputs) : v.name = t).dims, 1))
         [] OTHER -> -1

\* Every concat gets its buffer first and every part its place inside it.
PinConcat(s, c) ==
    LET lens == [k \in DOMAIN c.ins |-> IF IsInit(c.ins[k]) THEN 0 ELSE PartLen(c.ins[k])]
        At(k) == Total(lens, 1, k - 1)
        pins == [t \in Range(c.ins) |-> s.next + At(CHOOSE k \in DOMAIN c.ins : c.ins[k] = t)]
    IN CASE s.error # "" -> s
         [] s.error = "" /\ (\E k \in DOMAIN lens : IsInit(c.ins[k])) ->
              [s EXCEPT !.error = "NotImplementedError"]
         [] s.error = "" /\ (\E k \in DOMAIN lens : lens[k] < 0) ->
              [s EXCEPT !.error = "StopIteration"]
         [] s.error = "" /\ (\E k \in DOMAIN lens : At(k) % 16 # 0) ->
              [s EXCEPT !.error = "ValueError"]
         [] OTHER -> [Alloc(s, pad16(Total(lens, 1, Len(lens)))) EXCEPT
                        !.pinned = Put(Over(pins, @), c.out, s.next)]

WeightBytes(n) == LET w == model.shape[n.ins[2]] IN pad16(w[2]) * pad16(w[1])
BiasBytes(n)   == pad16(model.shape[n.ins[2]][2]) * 4

EmptyLowering ==
    [next |-> 0, end |-> 0, image |-> {}, segments |-> <<>>, inputs |-> <<>>, layers |-> <<>>,
     pinned |-> <<>>, slots |-> <<>>, fcs |-> 0, addr |-> <<>>, node |-> 1, error |-> ""]

PinConcats ==
    LET upto[i \in 0..Len(Nodes)] ==
          IF i = 0 THEN EmptyLowering
          ELSE IF Nodes[i].op = "Concat" THEN PinConcat(upto[i - 1], Nodes[i]) ELSE upto[i - 1]
    IN upto[Len(Nodes)]

\* Mutant: the slots are sized for the largest weights without their bias.
AddSlotsNoBias(s) ==
    LET size == Max({WeightBytes(n) : n \in MatMuls} \cup {0})
    IN IF job.streaming
       THEN [Alloc(Alloc(s, size), size) EXCEPT !.slots = <<s.next, s.next + pad16(size)>>]
       ELSE s

\* Streaming: two rotating slots, each fit for the largest fc layer.
AddSlots(s) ==
    LET size == Max({WeightBytes(n) + BiasBytes(n) : n \in MatMuls} \cup {0})
    IN IF job.streaming
       THEN [Alloc(Alloc(s, size), size) EXCEPT !.slots = <<s.next, s.next + pad16(size)>>]
       ELSE s

Produced(s, t, addr) == [s EXCEPT !.addr = Put(@, t, addr)]

LowerGather(s, n) ==
    LET shape == model.shape[n.ins[1]]
        width == pad16(shape[2])
        scale == IF ScaleOf(n.out) = Absent THEN n.ins[1] ELSE ScaleOf(n.out)
        table == PlaceSegment(s, shape[1] * width,
                              Tag(model.content[n.ins[1]], 0, scale, training),
                              n.name, "table", -1)
        idx   == Alloc(table, 16)
        out   == IF n.out \in DOMAIN s.pinned THEN s.pinned[n.out] ELSE idx.next
        done  == IF n.out \in DOMAIN s.pinned THEN idx ELSE Alloc(idx, width)
    IN Produced([done EXCEPT
         !.inputs = Append(@, [name |-> n.ins[2], kind |-> "index", addr |-> table.next,
                               count |-> 4, scale |-> Absent]),
         !.layers = Append(@, [name |-> n.name, kind |-> "gather", table |-> s.next,
                               rows |-> shape[1], dim |-> shape[2], width |-> width,
                               idx |-> table.next, out |-> out, scale |-> scale,
                               stream |-> FALSE])], n.out, out)

LowerConcat(s, n) ==
    LET dense == Select(n.ins, Range(n.ins) \ DOMAIN s.addr)
    IN Produced([s EXCEPT
         !.inputs = @ \o [k \in DOMAIN dense |->
                            [name |-> dense[k], kind |-> "dense", addr |-> s.pinned[dense[k]],
                             count |-> PartLen(dense[k]), scale |-> ScaleOf(dense[k])]],
         !.layers = Append(@, [name |-> n.name, kind |-> "concat",
                               parts |-> [k \in DOMAIN n.ins |->
                                  [tensor |-> n.ins[k], fed |-> n.ins[k] \notin DOMAIN s.addr,
                                   addr |-> IF n.ins[k] \in DOMAIN s.addr THEN s.addr[n.ins[k]]
                                            ELSE s.pinned[n.ins[k]]]],
                               lens |-> [k \in DOMAIN n.ins |-> PartLen(n.ins[k])],
                               out |-> s.pinned[n.out], stream |-> FALSE])],
         n.out, s.pinned[n.out])

\* A graph input that feeds an fc directly gets a buffer of its own.
FeedFc(s, x, k) ==
    IF x \in DOMAIN s.addr THEN s
    ELSE Produced([Alloc(s, pad16(k)) EXCEPT
           !.inputs = Append(@, [name |-> x, kind |-> "dense", addr |-> s.next,
                                 count |-> k, scale |-> ScaleOf(x)])], x, s.next)

LowerMatMul(s, n) ==
    LET chain == Chain(n)
        x     == n.ins[1]
        k     == model.shape[n.ins[2]][1]
        m     == model.shape[n.ins[2]][2]
        fed   == FeedFc(s, x, k)
        slot  == fed.slots[1 + (fed.fcs % 2)]
        bias  == IF chain.add = {} THEN Absent
                 ELSE LET a == CHOOSE a \in chain.add : TRUE
                      IN model.content[a.ins[CHOOSE i \in DOMAIN a.ins : IsInit(a.ins[i])]]
        w     == PlaceSegment(fed, WeightBytes(n), Tag(model.content[n.ins[2]], 0, Absent, training),
                              n.name, "weight", IF job.streaming THEN slot ELSE -1)
        b     == PlaceSegment(w, BiasBytes(n), Tag(bias, 0, ScaleOf(x), training), n.name, "bias",
                              IF job.streaming THEN slot + WeightBytes(n) ELSE -1)
        acc   == Alloc(b, pad16(m) * 4)
        final == IsFinal(chain.out)
        done  == IF final THEN acc ELSE Alloc(acc, pad16(m))
        out   == IF final THEN b.next ELSE acc.next
    IN Produced([done EXCEPT
         !.fcs = @ + 1,
         !.error = IF final \/ ResultScale(chain.out) # Absent THEN @ ELSE "StopIteration",
         !.layers = Append(@, [name |-> n.name, kind |-> "fc", in |-> fed.addr[x],
                               k |-> k, kpad |-> pad16(k), n |-> m, mpad |-> pad16(m),
                               w |-> IF job.streaming THEN slot ELSE fed.next,
                               b |-> IF job.streaming THEN slot + WeightBytes(n) ELSE w.next,
                               acc |-> b.next, out |-> out, relu |-> chain.relu # {},
                               final |-> final, inscale |-> ScaleOf(x),
                               outscale |-> ResultScale(chain.out),
                               stream |-> job.streaming])], chain.out, out)

LowerOther(s, n) ==
    CASE n \in Fused -> s
      [] n \notin Fused /\ n.op = "Identity" -> Produced(s, n.out, s.addr[n.ins[1]])
      [] OTHER -> [s EXCEPT !.error = "NotImplementedError"]

LowerNode(s, n) ==
    LET t == CASE n.op = "Gather" -> LowerGather(s, n)
               [] n.op = "Concat" -> LowerConcat(s, n)
               [] n.op = "MatMul" -> LowerMatMul(s, n)
               [] OTHER -> LowerOther(s, n)
    IN [t EXCEPT !.node = @ + 1]

(***************************************************************************)
(* What the kernels compute, shared by run_reference and the executors: a  *)
(* result is the tensor the model computes from these operands, or Bad     *)
(* when the operands are not all those of one node, vector, scale and      *)
(* training run.  A value is a set of extents relative to its start.       *)
(***************************************************************************)
LenOf(t) == Product(Inferred(model, 1)[t])
IsInput(t) == \E v \in Range(model.inputs) : v.name = t

\* The test inputs come from a fixed seed: a training run changes a quantised
\* input only where a concat it is a part of gives the scale.
TensorTag(t, vec, scale, gen) ==
    Tag(t, vec, scale, IF IsInput(t) /\ scale \in {t, Absent} THEN 0 ELSE gen)

Value(t, vec, scale, gen) ==      \* what a tensor's bytes should be
    LET at(c, k) == Total([i \in DOMAIN c.ins |-> LenOf(c.ins[i])], 1, k - 1)
        concat == {c \in Range(Concats) : c.out = t}
    IN IF concat = {} THEN Whole(LenOf(t), TensorTag(t, vec, scale, gen))
       ELSE LET c == CHOOSE c \in concat : TRUE
            IN {[at |-> at(c, k), len |-> LenOf(c.ins[k]),
                 tag |-> TensorTag(c.ins[k], vec, scale, gen)] : k \in DOMAIN c.ins}

\* The tag shared by what a value is made of; Bad for no value.
Mark(value) == IF value = {} THEN Bad ELSE (CHOOSE e \in value : TRUE).tag

GatherResult(L, table, idx) ==
    LET hits == {n \in Range(Nodes) :
                   /\ n.op = "Gather"
                   /\ table = Whole(L.rows * L.width, Tag(n.ins[1], 0, Mark(table).scale, Mark(table).gen))
                   /\ idx = Whole(4, Tag(n.ins[2], Mark(idx).vec, Absent, 0))}
    IN IF hits = {} THEN Bad
       ELSE Tag((CHOOSE n \in hits : TRUE).out, Mark(idx).vec, Mark(table).scale, Mark(table).gen)

FcAcc(L, w, x) ==
    LET gen  == Mark(w).gen
        hits == {n \in MatMuls :
                   /\ w = Whole(L.mpad * L.kpad, Tag(n.ins[2], 0, Absent, gen))
                   /\ x = Value(n.ins[1], Mark(x).vec, Mark(x).scale, gen)}
    IN IF hits = {} THEN Bad
       ELSE Tag((CHOOSE n \in hits : TRUE).out, Mark(x).vec, Mark(x).scale, gen)

\* Adding the bias (final), and the requantisation and ReLU of the others: its
\* multiplier was computed for the scales and the training of the document.
WithBias(L, acc, b) ==
    LET adds == {n \in Range(Nodes) : n.op = "Add" /\ n.ins[1] = acc.of
                   /\ b = Whole(L.mpad * 4, Tag(n.ins[2], 0, acc.scale, acc.gen))}
    IN IF acc = Bad \/ adds = {} THEN Bad
       ELSE Tag((CHOOSE n \in adds : TRUE).out, acc.vec, acc.scale, acc.gen)

Epilogue(L, gen, acc, b) ==
    LET sum   == WithBias(L, acc, b)
        relus == {n \in Range(Nodes) : n.op = "Relu" /\ n.ins[1] = sum.of}
        out   == IF L.relu = (relus # {}) THEN {n.out : n \in relus} ELSE {Absent}
    IN IF sum = Bad \/ sum.gen # gen \/ sum.scale # L.inscale \/ Absent \in out THEN Bad
       ELSE Tag(IF out = {} THEN sum.of ELSE CHOOSE t \in out : TRUE, sum.vec, L.outscale, gen)

\* The model's output, as the exact sum the last layer leaves.
OutputTensor == (CHOOSE n \in Range(Nodes) : n.out = Output).ins[1]
Answer(vec, gen) ==
    LET x == (CHOOSE n \in MatMuls : Chain(n).out = OutputTensor).ins[1]
    IN Tag(OutputTensor, vec, ScaleOf(x), gen)

SegmentOf(doc, image, layer, kind) ==
    LET s == CHOOSE s \in Range(doc.segments) : s.layer = layer /\ s.kind = kind
    IN Loaded(image, s.off, s.len)

InputTag(doc, i, vec) == TensorTag(doc.inputs[i].name, vec, doc.inputs[i].scale, doc.gen)

\* run_reference: activations are kept by address, weights come from the image.
ReferenceLayer(doc, image, vec, at, L) ==
    LET Held(addr) == IF addr \in DOMAIN at THEN at[addr] ELSE {}
        Feed(name) == {i \in DOMAIN doc.inputs : doc.inputs[i].name = name}
        InputNamed(name) == LET i == CHOOSE i \in Feed(name) : TRUE
                            IN Whole(doc.inputs[i].count, InputTag(doc, i, vec))
    IN CASE L.kind = "gather" ->
              Put(at, L.out, Whole(L.dim, GatherResult(L,
                 SegmentOf(doc, image, L.name, "table"),
                 InputNamed((CHOOSE v \in Range(doc.inputs) : v.addr = L.idx).name))))
         [] L.kind = "concat" ->
              Put(at, L.out, UNION {{[e EXCEPT !.at = @ + Total(L.lens, 1, k - 1)] :
                                     e \in IF L.parts[k].fed THEN InputNamed(L.parts[k].tensor)
                                           ELSE Held(L.parts[k].addr)} : k \in DOMAIN L.parts})
         [] L.kind = "fc" ->
              LET acc == FcAcc(L, SegmentOf(doc, image, L.name, "weight"), Held(L.in))
                  b   == SegmentOf(doc, image, L.name, "bias")
              IN Put(at, L.out, Whole(L.n, IF L.final THEN WithBias(L, acc, b)
                                           ELSE Epilogue(L, doc.gen, acc, b)))

run_reference(doc, image, vec) ==
    LET dense == {i \in DOMAIN doc.inputs : doc.inputs[i].kind = "dense"}
        fed == [a \in {doc.inputs[i].addr : i \in dense} |->
                  LET i == CHOOSE i \in dense : doc.inputs[i].addr = a
                  IN Whole(doc.inputs[i].count, InputTag(doc, i, vec))]
        done == FoldLeft(LAMBDA at, L : ReferenceLayer(doc, image, vec, at, L), fed, doc.layers)
    IN (CHOOSE e \in done[doc.last.out] : TRUE).tag

FcsOf(records) == Select(records, {L \in Range(records) : L.kind = "fc"})

Document(s) ==
    [streaming |-> job.streaming, layers |-> s.layers, segments |-> s.segments,
     inputs |-> s.inputs, imagebytes |-> s.end, layoutend |-> s.next, gen |-> training,
     last |-> Last(FcsOf(s.layers))]

TestVectors(doc, image) ==
    [v \in 1..Vectors |->
       [inputs |-> [i \in DOMAIN doc.inputs |->
                      [name |-> doc.inputs[i].name, count |-> doc.inputs[i].count,
                       tag |-> InputTag(doc, i, v)]],
        expect |-> run_reference(doc, image, v)]]

(***************************************************************************)
(* lower_model: lower node by node, then write three files one after the   *)
(* other; the process may die on the way.                                  *)
(***************************************************************************)
NoProgram == [doc |-> <<>>, image |-> <<>>, vectors |-> <<>>]

LoweringInit == lw = EmptyLowering /\ training = 1

LowerStart ==
    /\ stage = "placed" /\ job.lower
    /\ lw' = AddSlots(PinConcats)
    /\ program' = IF program = <<>> THEN <<NoProgram>> ELSE program
    /\ stage' = "lower"
    /\ UNCHANGED <<job, model, manifest, training>>

LowerStep ==
    /\ stage = "lower" /\ lw.error = "" /\ lw.next <= Ddr2Bytes
    /\ lw.node <= Len(Nodes)
    /\ lw' = LowerNode(lw, Nodes[lw.node])
    /\ UNCHANGED <<job, stage, files, training>>

LowerRaise ==
    /\ stage = "lower"
    /\ \E reason \in Errors :
         /\ reason = lw.error \/ (lw.error = "" /\ lw.next > Ddr2Bytes /\ reason = "MemoryError")
         /\ Fail(reason)
    /\ UNCHANGED <<lw, training>>

Lowered == stage = "lower" /\ lw.error = "" /\ lw.next <= Ddr2Bytes /\ lw.node > Len(Nodes)

WriteDoc ==
    /\ Lowered
    /\ program' = <<[program[1] EXCEPT !.doc = <<Document(lw)>>]>>
    /\ stage' = "write_image"
    /\ UNCHANGED <<job, model, manifest, lw, training>>

WriteImage ==
    /\ stage = "write_image"
    /\ program' = <<[program[1] EXCEPT !.image = <<[bytes |-> lw.image, size |-> lw.end]>>]>>
    /\ stage' = "write_vectors"
    /\ UNCHANGED <<job, model, manifest, lw, training>>

WriteVectors ==
    /\ stage = "write_vectors"
    /\ program' = <<[program[1] EXCEPT !.vectors = <<TestVectors(Document(lw), lw.image)>>]>>
    /\ stage' = "lowered"
    /\ UNCHANGED <<job, model, manifest, lw, training>>

\* The process dies between two files, or in the middle of one that its loader
\* then refuses; a torn vectors.bin, which no loader checks, is left out.
LowerDies ==
    /\ \/ /\ Lowered
          /\ program' = <<[program[1] EXCEPT !.doc = <<>>]>>
       \/ /\ stage = "write_image"
          /\ program' \in {program, <<[program[1] EXCEPT !.image = <<>>]>>}
       \/ /\ stage = "write_vectors"
          /\ UNCHANGED program
    /\ stage' = "lowered"
    /\ UNCHANGED <<job, model, manifest, lw, training>>

\* The weights are trained again and the same model is lowered into the same
\* directory.
Retrain ==
    /\ stage = "lowered" /\ job.retrain /\ training = 1
    /\ training' = 2
    /\ stage' = "placed"
    /\ UNCHANGED <<job, files, lw>>

Lower == LowerStart \/ LowerStep \/ LowerRaise \/ WriteDoc \/ WriteImage \/ WriteVectors
         \/ LowerDies \/ Retrain

(***************************************************************************)
(* Properties                                                              *)
(***************************************************************************)
Docs == IF program = <<>> THEN {} ELSE Range(program[1].doc)
FcLayers(doc) == FcsOf(doc.layers)

\* <<who, what, first byte, end>> of all that is ever in the DDR2.
Regions(doc) ==
    {<<s.layer, s.kind, s.addr, s.addr + s.len>> : s \in Range(doc.segments)}
    \cup {<<v.name, "input", v.addr, v.addr + pad16(v.count)>> : v \in Range(doc.inputs)}
    \cup {<<L.name, "acc", L.acc, L.acc + 4 * L.mpad>> : L \in Range(FcLayers(doc))}
    \cup {<<L.name, "out", L.out, L.out + L.mpad>> :
             L \in {x \in Range(FcLayers(doc)) : ~x.final}}
    \cup {<<L.name, "out", L.out, L.out + L.width>> :
             L \in {x \in Range(doc.layers) : x.kind = "gather"}}

\* Fc layers i and j of a streaming program take turns in one slot.
TakeTurns(doc, who, other) ==
    LET fc == FcLayers(doc)
    IN doc.streaming /\ \E i, j \in DOMAIN fc : /\ i # j /\ (i - j) % 2 = 0
                                               /\ fc[i].name = who /\ fc[j].name = other

\* Every region of the layout is 16-byte aligned and inside it, the layout is
\* inside the DDR2, and no two regions share a byte, save the weights of
\* layers that take turns in a slot: neither consecutive layers, so that one
\* can be downloaded while the other computes ("double-buffered",
\* lowering.py:98), nor a weight and an activation.
LayoutFits ==
    \A doc \in Docs :
      /\ doc.layoutend <= Ddr2Bytes
      /\ \A r \in Regions(doc) : r[3] % 16 = 0 /\ r[4] <= doc.layoutend
      /\ \A r, q \in Regions(doc) :
           r # q => \/ r[4] <= q[3] \/ q[4] <= r[3]
                    \/ /\ {r[2], q[2]} \subseteq {"weight", "bias"}
                       /\ TakeTurns(doc, r[1], q[1])

\* What the lowering writes as the expected output is what the model computes:
\* fusion, pinning, scales and addresses lead run_reference through the
\* operands of the ONNX graph, for every test vector.
ReferenceIsModel ==
    stage = "lowered" /\ program[1].vectors # <<>> =>
      \A v \in 1..Vectors : \E gen \in 1..training :
        program[1].vectors[1][v].expect = Answer(v, gen)
=============================================================================
