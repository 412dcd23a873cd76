-------------------------- MODULE BaselinesProofs --------------------------
(***************************************************************************)
(* Theorems about Baselines, for any models the generators build: every    *)
(* baseline computes what the whole model computes, and the profiler feeds *)
(* every node it times.  The first half states what graphs and weights the *)
(* generators build; the proofs about Lowering start from it too.          *)
(***************************************************************************)
EXTENDS PlacementProofs

\* A sequence of n elements.
Listed(a, n) == a = [i \in 1 .. n |-> a[i]]
Cat(a, b) == a \o b

\* Two sequences, one after the other.
LEMMA Joined ==
  ASSUME NEW m \in Nat, NEW n \in Nat, NEW a, NEW b, Listed(a, m), Listed(b, n)
  PROVE  /\ Listed(Cat(a, b), m + n)
         /\ \A i \in 1 .. m : Cat(a, b)[i] = a[i]
         /\ \A i \in 1 .. n : Cat(a, b)[m + i] = b[i]
<1> DEFINE S == {a[i] : i \in 1 .. m} \cup {b[i] : i \in 1 .. n}
<1>1. a \in Seq(S) /\ Len(a) = m
  <2>1. \A i \in 1 .. m : a[i] \in S
    OBVIOUS
  <2> HIDE DEF S
  <2>2. a \in [1 .. m -> S]
    BY <2>1 DEF Listed
  <2> QED BY <2>2
<1>2. b \in Seq(S) /\ Len(b) = n
  <2>1. \A i \in 1 .. n : b[i] \in S
    OBVIOUS
  <2> HIDE DEF S
  <2>2. b \in [1 .. n -> S]
    BY <2>1 DEF Listed
  <2> QED BY <2>2
<1> HIDE DEF S
<1>3. /\ a \o b \in Seq(S) /\ Len(a \o b) = m + n
      /\ \A i \in 1 .. m + n : (a \o b)[i] = IF i <= m THEN a[i] ELSE b[i - m]
  BY <1>1, <1>2, ConcatProperties
<1>4. Listed(a \o b, m + n)
  BY <1>3 DEF Listed
<1>5. \A i \in 1 .. m : (a \o b)[i] = a[i]
  BY <1>3
<1>6. ASSUME NEW i \in 1 .. n PROVE (a \o b)[m + i] = b[i]
  <2>1. m + i \in 1 .. m + n /\ ~ (m + i <= m) /\ (m + i) - m = i
    OBVIOUS
  <2> QED BY <1>3, <2>1
<1> QED BY <1>4, <1>5, <1>6 DEF Cat

\* The three nodes of dense layer j of n: layer 1 reads the tensor first.
MatMulNode(j, first) ==
  Node("MatMul", j, <<IF j = 1 THEN first ELSE <<"relu", j - 1>>, <<"w", j>>>>, <<"mm", j>>)
AddNode(j) == Node("Add", j, <<<<"mm", j>>, <<"b", j>>>>, <<"add", j>>)
LastNode(j, n, act) ==
  IF j < n THEN [Node("Relu", j, <<<<"add", j>>>>, <<"relu", j>>) EXCEPT !.op = act]
  ELSE Node("Identity", j, <<<<"add", j>>>>, Output)

\* A chain of n dense layers, after the first pre nodes, from the tensor first.
ChainForm(nodes, pre, n, first, act) ==
  \A j \in 1 .. n : /\ nodes[pre + 3 * j - 2] = MatMulNode(j, first)
                    /\ nodes[pre + 3 * j - 1] = AddNode(j)
                    /\ nodes[pre + 3 * j] = LastNode(j, n, act)

\* The length and the nodes of a chain of dense layers.
LEMMA ChainListed ==
  ASSUME NEW first, NEW dims, NEW act, NEW n \in Nat, Len(dims) = n + 1
  PROVE  Listed(DenseChain(first, dims, act), 3 * n)
<1>1. Len(dims) - 1 = n
  OBVIOUS
<1>2. DOMAIN DenseChain(first, dims, act) = 1 .. 3 * n
  BY <1>1 DEF DenseChain
<1>3. DenseChain(first, dims, act) =
        [i \in DOMAIN DenseChain(first, dims, act) |-> DenseChain(first, dims, act)[i]]
  BY DEF DenseChain
<1> QED BY <1>2, <1>3 DEF Listed

\* The nodes of a chain of dense layers are in the form the lowering expects.
LEMMA ChainNodes ==
  ASSUME NEW first, NEW dims, NEW n \in Nat, Len(dims) = n + 1
  PROVE  ChainForm(DenseChain(first, dims, "Relu"), 0, n, first, "Relu")
<1> SUFFICES ASSUME NEW j \in 1 .. n
             PROVE  LET N == DenseChain(first, dims, "Relu")
                    IN /\ N[3 * j - 2] = MatMulNode(j, first)
                       /\ N[3 * j - 1] = AddNode(j)
                       /\ N[3 * j] = LastNode(j, n, "Relu")
  <2>1. \A j \in 1 .. n : 0 + 3 * j - 2 = 3 * j - 2 /\ 0 + 3 * j - 1 = 3 * j - 1 /\ 0 + 3 * j = 3 * j
    OBVIOUS
  <2> QED BY <2>1 DEF ChainForm
<1> DEFINE act == "Relu"
           N == DenseChain(first, dims, act)
           Inp(k) == IF k = 1 THEN first ELSE <<"relu", k - 1>>
<1>0. Len(dims) - 1 = n
  OBVIOUS
<1> DEFINE M(k) == Node("MatMul", k, <<Inp(k), <<"w", k>>>>, <<"mm", k>>)
           A(k) == Node("Add", k, <<<<"mm", k>>, <<"b", k>>>>, <<"add", k>>)
           R(k) == Node(act, k, <<<<"add", k>>>>, <<"relu", k>>)
           I(k) == Node("Identity", k, <<<<"add", k>>>>, Output)
<1>1. \A i \in 1 .. 3 * n : N[i] = CASE i % 3 = 1 -> M((i + 2) \div 3)
                                    [] i % 3 = 2 -> A((i + 2) \div 3)
                                    [] (i + 2) \div 3 < n /\ i % 3 = 0 -> R((i + 2) \div 3)
                                    [] OTHER -> I((i + 2) \div 3)
  BY <1>0 DEF DenseChain
<1> HIDE DEF N, M, A, R, I
<1>2. ASSUME NEW i \in 1 .. 3 * n, NEW k, k = (i + 2) \div 3
      PROVE  /\ i % 3 = 1 => N[i] = M(k)
             /\ i % 3 = 2 => N[i] = A(k)
             /\ i % 3 = 0 /\ k < n => N[i] = R(k)
             /\ i % 3 = 0 /\ ~(k < n) => N[i] = I(k)
  BY <1>1, <1>2
<1>3. N[3 * j - 2] = M(j)
  <2>1. 3 * j - 2 \in 1 .. 3 * n /\ j = (3 * j - 2 + 2) \div 3 /\ (3 * j - 2) % 3 = 1
    OBVIOUS
  <2> QED BY <2>1, <1>2
<1>4. N[3 * j - 1] = A(j)
  <2>1. 3 * j - 1 \in 1 .. 3 * n /\ j = (3 * j - 1 + 2) \div 3 /\ (3 * j - 1) % 3 = 2
    OBVIOUS
  <2> QED BY <2>1, <1>2
<1>5. N[3 * j] = IF j < n THEN R(j) ELSE I(j)
  <2>1. 3 * j \in 1 .. 3 * n /\ j = (3 * j + 2) \div 3 /\ (3 * j) % 3 = 0
    OBVIOUS
  <2> QED BY <2>1, <1>2
<1>6. R(j) = [R(j) EXCEPT !.op = act]
  BY DEF R, Node
<1> QED BY <1>3, <1>4, <1>5, <1>6 DEF N, M, A, R, I, MatMulNode, AddNode, LastNode

\* A chain that starts after other nodes.
LEMMA ChainShifted ==
  ASSUME NEW nodes, NEW C, NEW pre \in Nat, NEW n \in Nat, NEW first, NEW act,
         ChainForm(C, 0, n, first, act), \A i \in 1 .. 3 * n : nodes[pre + i] = C[i]
  PROVE  ChainForm(nodes, pre, n, first, act)
<1> SUFFICES ASSUME NEW j \in 1 .. n
             PROVE  /\ nodes[pre + 3 * j - 2] = MatMulNode(j, first)
                    /\ nodes[pre + 3 * j - 1] = AddNode(j)
                    /\ nodes[pre + 3 * j] = LastNode(j, n, act)
  BY DEF ChainForm
<1>1. /\ 3 * j - 2 \in 1 .. 3 * n /\ pre + 3 * j - 2 = pre + (3 * j - 2)
      /\ 3 * j - 1 \in 1 .. 3 * n /\ pre + 3 * j - 1 = pre + (3 * j - 1)
      /\ 3 * j \in 1 .. 3 * n
      /\ 0 + 3 * j - 2 = 3 * j - 2 /\ 0 + 3 * j - 1 = 3 * j - 1 /\ 0 + 3 * j = 3 * j
  OBVIOUS
<1>2. /\ C[3 * j - 2] = MatMulNode(j, first)
      /\ C[3 * j - 1] = AddNode(j)
      /\ C[3 * j] = LastNode(j, n, act)
  BY <1>1 DEF ChainForm
<1> QED BY <1>1, <1>2


-----------------------------------------------------------------------------
Positive == Nat \ {0}

\* What comes before it: t tables and the concatenation of their rows with the
\* dense input, or nothing (pre = 0), or another first node (pre = 1).
StartForm(m, pre, t, first) ==
  \/ t = 0 /\ pre = 0 /\ first = Dense
  \/ t = 0 /\ pre = 1 /\ first = <<"flat", 0>>
     /\ m.nodes[1] = Node("Flatten", 0, <<Dense>>, first)
  \/ /\ t \in Positive /\ pre = t + 1 /\ first = ConcatOut
     /\ \A i \in 1 .. t : m.nodes[i] = Node("Gather", i, <<<<"emb_table", i>>, <<"emb_idx", i>>>>,
                                            <<"emb_out", i>>)
     /\ m.nodes[t + 1] = Node("Concat", 0, [i \in 1 .. t + 1 |->
                                IF i <= t THEN <<"emb_out", i>> ELSE Dense], ConcatOut)

\* The weights and the inputs.
WeightForm(m, n, t, d, rows, cols) ==
  /\ DOMAIN m.shape = ({"emb_table"} \X (1 .. t)) \cup ({"w", "b"} \X (1 .. n))
  /\ \A i \in 1 .. t : m.shape[<<"emb_table", i>>] = <<rows, cols>>
  /\ \A j \in 1 .. n : /\ m.shape[<<"w", j>>] = <<d[j], d[j + 1]>>
                       /\ m.shape[<<"b", j>>] = <<d[j + 1]>>
  /\ d \in [1 .. n + 1 -> Positive] /\ rows \in Positive /\ cols \in Positive

InputForm(m, t) ==
  /\ Listed(m.inputs, t + 1)
  /\ m.inputs[1].name = Dense /\ m.inputs[1].type = "float"
  /\ m.inputs[1].dims = <<m.inputs[1].dims[1], m.inputs[1].dims[2]>>
  /\ m.inputs[1].dims[1] \in Nat /\ m.inputs[1].dims[2] \in Positive
  /\ \A i \in 1 .. t : /\ m.inputs[i + 1].name = <<"emb_idx", i>>
                       /\ m.inputs[i + 1].type = "int64"

\* What a model looks like, whatever built it.
Form(m, pre, n, t, first, act, d, rows, cols) ==
  /\ n \in Positive
  /\ Listed(m.nodes, pre + 3 * n)
  /\ act \notin {"Gather", "Concat", "MatMul"}
  /\ ChainForm(m.nodes, pre, n, first, act)
  /\ StartForm(m, pre, t, first)
  /\ WeightForm(m, n, t, d, rows, cols)
  /\ InputForm(m, t)

\* The weights of a chain.
ChainWeights(g, d, n) ==
  /\ DOMAIN g = {"w", "b"} \X (1 .. n)
  /\ \A j \in 1 .. n : g[<<"w", j>>] = <<d[j], d[j + 1]>> /\ g[<<"b", j>>] = <<d[j + 1]>>

\* Every weight and bias of a chain has the dimensions of its layer.
LEMMA ChainShapesAre ==
  ASSUME NEW d, NEW n \in Nat, Len(d) = n + 1
  PROVE  ChainWeights(ChainShapes(d), d, n)
<1>1. Len(d) - 1 = n
  OBVIOUS
<1>2. ChainShapes(d) = [x \in {"w", "b"} \X (1 .. n) |->
           IF x[1] = "w" THEN <<d[x[2]], d[x[2] + 1]>> ELSE <<d[x[2] + 1]>>]
  BY <1>1 DEF ChainShapes
<1>3. ASSUME NEW x \in {"w", "b"} \X (1 .. n), NEW j, x[2] = j
      PROVE  /\ x[1] = "w" => ChainShapes(d)[x] = <<d[j], d[j + 1]>>
             /\ x[1] # "w" => ChainShapes(d)[x] = <<d[j + 1]>>
  BY <1>2, <1>3
<1>4. ASSUME NEW j \in 1 .. n
      PROVE  ChainShapes(d)[<<"w", j>>] = <<d[j], d[j + 1]>>
  <2>1. <<"w", j>> \in {"w", "b"} \X (1 .. n) /\ <<"w", j>>[2] = j /\ <<"w", j>>[1] = "w"
    OBVIOUS
  <2> QED BY <2>1, <1>3
<1>5. ASSUME NEW j \in 1 .. n
      PROVE  ChainShapes(d)[<<"b", j>>] = <<d[j + 1]>>
  <2>1. <<"b", j>> \in {"w", "b"} \X (1 .. n) /\ <<"b", j>>[2] = j /\ <<"b", j>>[1] # "w"
    OBVIOUS
  <2> QED BY <2>1, <1>3
<1> QED BY <1>2, <1>4, <1>5 DEF ChainWeights

\* The embedding tables and the dense layers over them.
LEMMA DlrmForm ==
  ASSUME NEW t \in Positive, NEW rows \in Positive, NEW cols \in Positive,
         NEW dense \in Positive, NEW batch \in Positive, NEW content,
         NEW shape, shape = DlrmShapes(t, rows, cols, MlpDims(t, cols, dense)),
         NEW m, m = Graph(DlrmNodes(t, MlpDims(t, cols, dense)), DlrmInputs(t, dense, batch),
                          <<batch, 1>>, shape, content)
  PROVE  \E d : Form(m, t + 1, 3, t, ConcatOut, "Relu", d, rows, cols)
<1> DEFINE d == MlpDims(t, cols, dense)
           C == DenseChain(ConcatOut, d, "Relu")
           G == [i \in 1 .. t |-> Node("Gather", i, <<<<"emb_table", i>>, <<"emb_idx", i>>>>,
                                       <<"emb_out", i>>)]
           K == Node("Concat", 0, [i \in 1 .. t + 1 |->
                                IF i <= t THEN <<"emb_out", i>> ELSE Dense], ConcatOut)
<1>1. d \in [1 .. 4 -> Positive] /\ Len(d) = 4
  <2>1. t * cols + dense \in Positive
    <3>1. t * cols \in Nat
      BY DEF Positive
    <3> QED BY <3>1 DEF Positive
  <2> QED BY <2>1 DEF MlpDims, Positive
<1>2. m.nodes = (G \o <<K>>) \o C
  BY DEF Graph, DlrmNodes
<1> HIDE DEF d
<1>3. Listed(C, 9)
  <2>1. Len(d) = 3 + 1 /\ 3 \in Nat /\ 3 * 3 = 9
    BY <1>1
  <2> QED BY <2>1, ChainListed
<1> HIDE DEF C, G, K
<1>4. /\ Listed(m.nodes, t + 1 + 9)
      /\ \A i \in 1 .. t : m.nodes[i] = G[i]
      /\ m.nodes[t + 1] = K
      /\ \A i \in 1 .. 9 : m.nodes[t + 1 + i] = C[i]
  <2>1. t \in Nat /\ 1 \in Nat /\ t + 1 \in Nat /\ 9 \in Nat
    BY DEF Positive
  <2> DEFINE D == <<K>>
             a == Cat(G, D)
  <2>2. Listed(G, t) /\ Listed(D, 1) /\ D[1] = K
    BY DEF G, Listed
  <2>a. m.nodes = Cat(a, C)
    BY <1>2 DEF Cat
  <2> HIDE DEF D
  <2>3. /\ Listed(a, t + 1)
        /\ \A i \in 1 .. t : a[i] = G[i]
        /\ \A i \in 1 .. 1 : a[t + i] = D[i]
    BY ONLY <2>1, <2>2, Joined
  <2> HIDE DEF a
  <2>4. /\ Listed(Cat(a, C), t + 1 + 9)
        /\ \A i \in 1 .. t + 1 : Cat(a, C)[i] = a[i]
        /\ \A i \in 1 .. 9 : Cat(a, C)[t + 1 + i] = C[i]
    BY ONLY <2>1, <2>3, <1>3, Joined
  <2>5. a[t + 1] = K
    BY <2>2, <2>3
  <2>6. \A i \in 1 .. t : i \in 1 .. t + 1
    BY <2>1
  <2>7. t + 1 \in 1 .. t + 1
    BY <2>1
  <2> QED BY ONLY <2>3, <2>4, <2>5, <2>6, <2>7, <2>a
<1>5. ChainForm(m.nodes, t + 1, 3, ConcatOut, "Relu")
  <2>1. Len(d) = 3 + 1 /\ 3 \in Nat /\ 3 * 3 = 9 /\ t + 1 \in Nat
    BY <1>1 DEF Positive
  <2>2. ChainForm(C, 0, 3, ConcatOut, "Relu")
    BY <2>1, ChainNodes DEF C
  <2> QED BY <1>4, <2>1, <2>2, ChainShifted
<1>6. StartForm(m, t + 1, t, ConcatOut)
  BY <1>4 DEF StartForm, G, K
<1>7. WeightForm(m, 3, t, d, rows, cols)
  <2> DEFINE E == {"emb_table"} \X (1 .. t)
             f == [n \in E |-> <<rows, cols>>]
             g == ChainShapes(d)
  <2>1. m.shape = Over(f, g)
    BY DEF Graph, DlrmShapes, d
  <2>2. ChainWeights(g, d, 3)
    <3>1. Len(d) = 3 + 1 /\ 3 \in Nat
      BY <1>1
    <3> QED BY <3>1, ChainShapesAre
  <2> HIDE DEF g
  <2>3. DOMAIN m.shape = E \cup DOMAIN g /\ \A n \in E : m.shape[n] = <<rows, cols>>
    BY <2>1 DEF Over
  <2>4. \A n \in (DOMAIN g) \ E : m.shape[n] = g[n]
    BY <2>1 DEF Over
  <2>5. \A i \in 1 .. t : <<"emb_table", i>> \in E
    OBVIOUS
  <2>6. \A j \in 1 .. 3 : <<"w", j>> \in (DOMAIN g) \ E /\ <<"b", j>> \in (DOMAIN g) \ E
    BY <2>2 DEF ChainWeights
  <2> HIDE DEF E
  <2>7. \A i \in 1 .. t : m.shape[<<"emb_table", i>>] = <<rows, cols>>
    BY <2>3, <2>5
  <2>8. \A j \in 1 .. 3 : /\ m.shape[<<"w", j>>] = <<d[j], d[j + 1]>>
                          /\ m.shape[<<"b", j>>] = <<d[j + 1]>>
    BY <2>2, <2>4, <2>6 DEF ChainWeights
  <2>9. d \in [1 .. 3 + 1 -> Positive]
    BY <1>1
  <2> QED BY <2>2, <2>3, <2>7, <2>8, <2>9 DEF WeightForm, E, ChainWeights
<1>8. InputForm(m, t)
  <2> DEFINE V == [name |-> Dense, type |-> "float", dims |-> <<batch, dense>>]
             X == [i \in 1 .. t |-> [name |-> <<"emb_idx", i>>, type |-> "int64", dims |-> <<batch>>]]
  <2>1. m.inputs = <<V>> \o X
    BY DEF Graph, DlrmInputs
  <2>2. X = [i \in 1 .. t |-> X[i]] /\ \A i \in 1 .. t : X[i].name = <<"emb_idx", i>> /\ X[i].type = "int64"
    OBVIOUS
  <2>3. V.name = Dense /\ V.type = "float" /\ V.dims = <<batch, dense>>
    OBVIOUS
  <2> HIDE DEF V, X
  <2> DEFINE D == <<V>>
  <2>4. t \in Nat /\ 1 \in Nat /\ 1 + t = t + 1 /\ Listed(D, 1) /\ Listed(X, t) /\ D[1] = V
    BY <2>2 DEF Positive, Listed
  <2>a. m.inputs = Cat(D, X)
    BY <2>1 DEF Cat
  <2> HIDE DEF D
  <2>5. /\ Listed(Cat(D, X), 1 + t)
        /\ \A i \in 1 .. 1 : Cat(D, X)[i] = D[i]
        /\ \A i \in 1 .. t : Cat(D, X)[1 + i] = X[i]
    BY ONLY <2>4, Joined
  <2>6. Listed(m.inputs, t + 1) /\ m.inputs[1] = V
    BY <2>a, <2>4, <2>5
  <2>7. \A i \in 1 .. t : m.inputs[i + 1] = X[i]
    <3>1. \A i \in 1 .. t : 1 + i = i + 1
      OBVIOUS
    <3> QED BY <2>a, <2>5, <3>1
  <2>8. V.dims[1] = batch /\ V.dims[2] = dense
    BY <2>3
  <2>9. V.dims = <<V.dims[1], V.dims[2]>>
    BY <2>3, <2>8
  <2>10. V.dims[1] \in Nat /\ V.dims[2] \in Positive
    BY <2>8 DEF Positive
  <2>11. /\ m.inputs[1].name = Dense /\ m.inputs[1].type = "float"
         /\ m.inputs[1].dims = <<m.inputs[1].dims[1], m.inputs[1].dims[2]>>
         /\ m.inputs[1].dims[1] \in Nat /\ m.inputs[1].dims[2] \in Positive
    BY <2>3, <2>6, <2>9, <2>10
  <2>12. \A i \in 1 .. t : /\ m.inputs[i + 1].name = <<"emb_idx", i>>
                          /\ m.inputs[i + 1].type = "int64"
    BY <2>2, <2>7
  <2> QED BY <2>6, <2>11, <2>12 DEF InputForm
<1>9. t + 1 + 9 = t + 1 + 3 * 3
  OBVIOUS
<1> QED
  BY <1>4, <1>5, <1>6, <1>7, <1>8, <1>9 DEF Form, Positive

\* Dense layers alone.
LEMMA MlpForm ==
  ASSUME NEW input \in Positive, NEW hidden \in Positive, NEW output \in Positive,
         NEW n \in Positive, NEW batch \in Positive, NEW content, NEW d,
         d = <<input>> \o [j \in 1 .. (n - 1) |-> hidden] \o <<output>>,
         NEW m, m = Graph(DenseChain(Dense, d, "Relu"),
                          <<[name |-> Dense, type |-> "float", dims |-> <<batch, input>>]>>,
                          <<batch, output>>, ChainShapes(d), content)
  PROVE  Form(m, 0, n, 0, Dense, "Relu", d, 1, 1)
<1> DEFINE H == [j \in 1 .. (n - 1) |-> hidden]
           I == <<input>>
           O == <<output>>
           a == Cat(I, H)
<1>1. d = Cat(a, O)
  BY DEF Cat
<1>2. /\ 1 \in Nat /\ n \in Nat /\ n - 1 \in Nat /\ 1 + (n - 1) = n
      /\ Listed(I, 1) /\ I[1] = input /\ Listed(O, 1) /\ O[1] = output
      /\ Listed(H, n - 1) /\ \A j \in 1 .. n - 1 : H[j] = hidden
  BY DEF Positive, Listed
<1> HIDE DEF H, I, O
<1>3. /\ Listed(a, 1 + (n - 1))
      /\ \A i \in 1 .. 1 : a[i] = I[i]
      /\ \A i \in 1 .. n - 1 : a[1 + i] = H[i]
  BY ONLY <1>2, Joined
<1>4. Listed(a, n)
  BY <1>2, <1>3
<1>5. \A i \in 1 .. n : a[i] \in Positive
  <2> TAKE i \in 1 .. n
  <2>1. CASE i = 1
    BY <2>1, <1>2, <1>3
  <2>2. CASE i # 1
    <3>1. i - 1 \in 1 .. n - 1 /\ 1 + (i - 1) = i
      BY <2>2, <1>2
    <3> QED BY <3>1, <1>2, <1>3
  <2> QED BY <2>1, <2>2
<1> HIDE DEF a
<1>6. /\ Listed(Cat(a, O), n + 1)
      /\ \A i \in 1 .. n : Cat(a, O)[i] = a[i]
      /\ \A i \in 1 .. 1 : Cat(a, O)[n + i] = O[i]
  BY ONLY <1>2, <1>4, Joined
<1>7. \A i \in 1 .. n + 1 : d[i] \in Positive
  <2> TAKE i \in 1 .. n + 1
  <2>1. CASE i = n + 1
    BY <2>1, <1>1, <1>2, <1>6
  <2>2. CASE i # n + 1
    <3>1. i \in 1 .. n
      BY <2>2, <1>2
    <3> QED BY <3>1, <1>1, <1>5, <1>6
  <2> QED BY <2>1, <2>2
<1>8. Listed(d, n + 1)
  BY <1>1, <1>6
<1>9. d \in [1 .. n + 1 -> Positive] /\ Len(d) = n + 1
  <2>1. d \in [1 .. n + 1 -> Positive]
    BY <1>7, <1>8 DEF Listed
  <2>2. n + 1 \in Nat
    BY <1>2
  <2> QED BY ONLY <2>1, <2>2
<1>10. /\ m.nodes = DenseChain(Dense, d, "Relu") /\ m.shape = ChainShapes(d)
       /\ m.inputs = <<[name |-> Dense, type |-> "float", dims |-> <<batch, input>>]>>
  BY DEF Graph
<1>11. Listed(m.nodes, 0 + 3 * n) /\ ChainForm(m.nodes, 0, n, Dense, "Relu")
  <2>1. 0 + 3 * n = 3 * n
    BY <1>2
  <2>2. Listed(m.nodes, 3 * n)
    BY <1>2, <1>9, <1>10, ChainListed
  <2> QED BY <2>1, <2>2, <1>2, <1>9, <1>10, ChainNodes
<1>12. WeightForm(m, n, 0, d, 1, 1)
  <2>1. ChainWeights(m.shape, d, n)
    BY <1>2, <1>9, <1>10, ChainShapesAre
  <2>2. {"emb_table"} \X (1 .. 0) = {}
    OBVIOUS
  <2>3. 1 \in Positive /\ 1 .. 0 = {}
    BY DEF Positive
  <2> QED BY <2>1, <2>2, <2>3, <1>9 DEF WeightForm, ChainWeights
<1>13. InputForm(m, 0)
  <2> DEFINE V == [name |-> Dense, type |-> "float", dims |-> <<batch, input>>]
  <2>1. V.name = Dense /\ V.type = "float" /\ V.dims = <<batch, input>>
    OBVIOUS
  <2> DEFINE D == <<V>>
  <2>2. m.inputs = D
    BY <1>10
  <2> HIDE DEF V
  <2>a. Listed(D, 1) /\ D[1] = V /\ 0 + 1 = 1
    BY DEF Listed
  <2> HIDE DEF D
  <2>3. Listed(m.inputs, 0 + 1) /\ m.inputs[1] = V
    BY <2>2, <2>a
  <2>4. V.dims[1] = batch /\ V.dims[2] = input
    BY <2>1
  <2>5. V.dims = <<V.dims[1], V.dims[2]>> /\ V.dims[1] \in Nat /\ V.dims[2] \in Positive
    BY <2>1, <2>4 DEF Positive
  <2>6. \A i \in 1 .. 0 : FALSE
    OBVIOUS
  <2> QED BY <2>1, <2>3, <2>5, <2>6 DEF InputForm
<1> QED BY <1>11, <1>12, <1>13 DEF Form, StartForm

\* An exported chain, with another activation or another first node.
LEMMA ExportedForm ==
  ASSUME NEW n \in Positive, NEW d, NEW k, Form(k, 0, n, 0, Dense, "Relu", d, 1, 1),
         k = Graph(k.nodes, k.inputs, k.outdims, k.shape, k.content),
         NEW op, op \notin {"Gather", "Concat", "MatMul"}, NEW m, m = Exported(k, op)
  PROVE  \E pre, first, act : Form(m, pre, n, 0, first, act, d, 1, 1)
<1> DEFINE N == [i \in DOMAIN k.nodes |-> IF k.nodes[i].op = "Relu" /\ op # "Flatten"
                                          THEN [k.nodes[i] EXCEPT !.op = op] ELSE k.nodes[i]]
           flat == <<"flat", 0>>
           F == Node("Flatten", 0, <<Dense>>, flat)
           A == [N EXCEPT ![1].ins[1] = flat]
           D == <<F>>
           act == IF op = "Flatten" THEN "Relu" ELSE op
<1>1. /\ m.nodes = IF op = "Flatten" THEN Cat(D, A) ELSE N
      /\ m.shape = k.shape
      /\ m.inputs = [i \in DOMAIN k.inputs |-> [k.inputs[i] EXCEPT !.dims[1] = 0]]
  BY DEF Exported, Graph, Cat
<1>2. n \in Nat /\ Listed(k.nodes, 3 * n) /\ ChainForm(k.nodes, 0, n, Dense, "Relu")
  BY DEF Form, Positive
<1>3. Listed(N, 3 * n)
  BY <1>2 DEF Listed
<1>4. WeightForm(m, n, 0, d, 1, 1)
  BY <1>1 DEF Form, WeightForm
<1>5. InputForm(m, 0)
  <2>1. Listed(k.inputs, 0 + 1) /\ InputForm(k, 0)
    BY DEF Form, InputForm
  <2>2. DOMAIN k.inputs = 1 .. 1
    BY <2>1 DEF Listed
  <2>3. Listed(m.inputs, 0 + 1)
    BY <1>1, <2>2 DEF Listed
  <2>4. m.inputs[1] = [k.inputs[1] EXCEPT !.dims[1] = 0]
    BY <1>1, <2>2
  <2> QED BY <2>1, <2>3, <2>4 DEF InputForm
<1>6. ChainForm(N, 0, n, Dense, act)
  <2> SUFFICES ASSUME NEW j \in 1 .. n
               PROVE  /\ N[0 + 3 * j - 2] = MatMulNode(j, Dense)
                      /\ N[0 + 3 * j - 1] = AddNode(j)
                      /\ N[0 + 3 * j] = LastNode(j, n, act)
    BY DEF ChainForm
  <2>1. /\ k.nodes[0 + 3 * j - 2] = MatMulNode(j, Dense)
        /\ k.nodes[0 + 3 * j - 1] = AddNode(j)
        /\ k.nodes[0 + 3 * j] = LastNode(j, n, "Relu")
    BY <1>2 DEF ChainForm
  <2>2. {0 + 3 * j - 2, 0 + 3 * j - 1, 0 + 3 * j} \subseteq DOMAIN k.nodes
    BY <1>2 DEF Listed
  <2>3. MatMulNode(j, Dense).op = "MatMul" /\ AddNode(j).op = "Add"
    BY DEF MatMulNode, AddNode, Node
  <2>4. CASE j < n
    <3>1. LastNode(j, n, "Relu").op = "Relu"
      BY <2>4 DEF LastNode, Node
    <3>2. LastNode(j, n, op) = [LastNode(j, n, "Relu") EXCEPT !.op = op]
      BY <2>4 DEF LastNode, Node
    <3> QED BY <2>1, <2>2, <2>3, <3>1, <3>2
  <2>5. CASE ~ (j < n)
    <3>1. LastNode(j, n, "Relu").op = "Identity" /\ LastNode(j, n, act) = LastNode(j, n, "Relu")
      BY <2>5 DEF LastNode, Node
    <3> QED BY <2>1, <2>2, <2>3, <3>1
  <2> QED BY <2>4, <2>5
<1>7. act \notin {"Gather", "Concat", "MatMul"}
  OBVIOUS
<1> HIDE DEF N, act
<1>8. CASE op # "Flatten"
  <2>1. Form(m, 0, n, 0, Dense, act, d, 1, 1)
    BY <1>1, <1>2, <1>3, <1>4, <1>5, <1>6, <1>7, <1>8 DEF Form, StartForm
  <2> QED BY <2>1
<1>9. CASE op = "Flatten"
  <2>1. Listed(A, 3 * n) /\ \A i \in 1 .. 3 * n : i # 1 => A[i] = N[i]
    BY <1>3 DEF Listed
  <2>2. A[1] = MatMulNode(1, flat)
    <3>1. 1 \in 1 .. n /\ 1 \in 1 .. 3 * n /\ 0 + 3 * 1 - 2 = 1
      BY DEF Positive
    <3>2. N[1] = MatMulNode(1, Dense)
      BY <3>1, <1>6 DEF ChainForm
    <3>3. A[1] = [N[1] EXCEPT !.ins[1] = flat]
      BY <3>1, <1>3 DEF Listed
    <3> QED BY <3>2, <3>3 DEF MatMulNode, Node
  <2>3. ChainForm(A, 0, n, flat, act)
    <3> SUFFICES ASSUME NEW j \in 1 .. n
                 PROVE  /\ A[0 + 3 * j - 2] = MatMulNode(j, flat)
                        /\ A[0 + 3 * j - 1] = AddNode(j)
                        /\ A[0 + 3 * j] = LastNode(j, n, act)
      BY DEF ChainForm
    <3>1. /\ N[0 + 3 * j - 2] = MatMulNode(j, Dense)
          /\ N[0 + 3 * j - 1] = AddNode(j)
          /\ N[0 + 3 * j] = LastNode(j, n, act)
      BY <1>6 DEF ChainForm
    <3>2. /\ {0 + 3 * j - 2, 0 + 3 * j - 1, 0 + 3 * j} \subseteq 1 .. 3 * n
          /\ 0 + 3 * j - 1 # 1 /\ 0 + 3 * j # 1 /\ (j # 1 => 0 + 3 * j - 2 # 1)
          /\ (j = 1 => 0 + 3 * j - 2 = 1)
      BY <1>2
    <3>3. j # 1 => MatMulNode(j, Dense) = MatMulNode(j, flat)
      BY DEF MatMulNode
    <3> HIDE DEF A
    <3> QED BY <3>1, <3>2, <3>3, <2>1, <2>2
  <2> HIDE DEF A
  <2>4. /\ 1 \in Nat /\ 3 * n \in Nat /\ Listed(D, 1) /\ D[1] = F
    BY <1>2 DEF Listed
  <2> HIDE DEF D
  <2>5. /\ Listed(Cat(D, A), 1 + 3 * n)
        /\ \A i \in 1 .. 1 : Cat(D, A)[i] = D[i]
        /\ \A i \in 1 .. 3 * n : Cat(D, A)[1 + i] = A[i]
    BY ONLY <2>1, <2>4, Joined
  <2>6. ChainForm(m.nodes, 1, n, flat, act)
    <3>1. m.nodes = Cat(D, A)
      BY <1>1, <1>9 DEF D
    <3>2. \A i \in 1 .. 3 * n : m.nodes[1 + i] = A[i]
      BY <2>5, <3>1
    <3> QED BY <2>3, <2>4, <3>2, <1>2, ChainShifted
  <2>7. m.nodes[1] = F /\ Listed(m.nodes, 1 + 3 * n)
    BY <2>4, <2>5, <1>1, <1>9
  <2>8. Form(m, 1, n, 0, flat, act, d, 1, 1)
    BY <2>6, <2>7, <1>2, <1>4, <1>5, <1>7 DEF Form, StartForm
  <2> QED BY <2>8
<1> QED BY <1>8, <1>9

\* Every model a user may ask for has this form.
LEMMA BuiltForm ==
  ASSUME NEW j \in Jobs
  PROVE  \E pre, n, t, first, act, d, rows, cols :
            Form(Built(j.build), pre, n, t, first, act, d, rows, cols)
<1> DEFINE b == j.build
<1>1. BuildOK(b)
  BY JobsAssumption DEF JobOK
<1> HIDE DEF b
<1>2. CASE b.kind = "dlrm"
  <2>1. /\ b.tables \in Positive /\ b.rows \in Positive /\ b.cols \in Positive
        /\ b.dense \in Positive /\ b.batch \in Positive
    BY <1>1, <1>2 DEF BuildOK, Positive
  <2> DEFINE shape == DlrmShapes(b.tables, b.rows, b.cols, MlpDims(b.tables, b.cols, b.dense))
  <2>2. Built(b) = Graph(DlrmNodes(b.tables, MlpDims(b.tables, b.cols, b.dense)),
                         DlrmInputs(b.tables, b.dense, b.batch), <<b.batch, 1>>, shape,
                         [n \in DOMAIN shape |-> n])
    BY <1>2 DEF Built, build_dlrm
  <2> HIDE DEF shape
  <2>3. \E d : Form(Built(b), b.tables + 1, 3, b.tables, ConcatOut, "Relu", d, b.rows, b.cols)
    BY <2>1, <2>2, DlrmForm DEF shape
  <2> QED BY <2>3 DEF b
<1>3. CASE b.kind = "dlrm_streaming"
  <2>1. /\ b.tables \in Positive /\ b.rows \in Positive /\ b.cols \in Positive
        /\ b.dense \in Positive /\ b.batch \in Positive
    BY <1>1, <1>3 DEF BuildOK, Positive
  <2> DEFINE shape == DlrmShapes(b.tables, b.rows, b.cols, MlpDims(b.tables, b.cols, b.dense))
             file == WriteAll([i \in 1 .. b.tables |-> <<"emb_table", i>>] \o ChainNames(3), shape)
  <2>2. Built(b) = Graph(DlrmNodes(b.tables, MlpDims(b.tables, b.cols, b.dense)),
                         DlrmInputs(b.tables, b.dense, b.batch), <<b.batch, 1>>, shape,
                         [n \in DOMAIN shape |-> ExternalTensor(file, n)])
    BY <1>3 DEF Built, build_dlrm_streaming
  <2> HIDE DEF shape, file
  <2>3. \E d : Form(Built(b), b.tables + 1, 3, b.tables, ConcatOut, "Relu", d, b.rows, b.cols)
    BY <2>1, <2>2, DlrmForm DEF shape
  <2> QED BY <2>3 DEF b
<1>4. CASE b.kind \in {"mlp", "exported"}
  <2> DEFINE d == <<b.input>> \o [i \in 1 .. (b.layers - 1) |-> b.hidden] \o <<b.output>>
             shape == ChainShapes(d)
             content == [n \in DOMAIN shape |->
                           ExternalTensor(WriteAll(ChainNames(b.layers), shape), n)]
             ins == <<[name |-> Dense, type |-> "float", dims |-> <<b.batch, b.input>>]>>
             k == Graph(DenseChain(Dense, d, "Relu"), ins, <<b.batch, b.output>>, shape, content)
  <2>1. /\ b.input \in Positive /\ b.hidden \in Positive /\ b.output \in Positive
        /\ b.layers \in Positive /\ b.batch \in Positive
    BY <1>1, <1>4 DEF BuildOK, Positive
  <2>2. build_dense_mlp_streaming(b.input, b.hidden, b.output, b.layers, b.batch) = k
    BY DEF build_dense_mlp_streaming
  <2> HIDE DEF d, content
  <2>3. Form(k, 0, b.layers, 0, Dense, "Relu", d, 1, 1)
    BY <2>1, MlpForm DEF d
  <2>4. CASE b.kind = "mlp"
    <3>1. Built(b) = k
      BY <2>2, <2>4 DEF Built
    <3> QED BY <3>1, <2>3 DEF b
  <2>5. CASE b.kind = "exported"
    <3>1. Built(b) = Exported(k, b.activation)
      BY <2>2, <2>5 DEF Built
    <3>2. b.activation \notin {"Gather", "Concat", "MatMul"}
      BY <1>1, <2>5 DEF BuildOK
    <3>3. k = Graph(k.nodes, k.inputs, k.outdims, k.shape, k.content)
      BY DEF Graph
    <3> HIDE DEF k
    <3>4. \E pre, first, act : Form(Built(b), pre, b.layers, 0, first, act, d, 1, 1)
      BY <2>1, <2>3, <3>1, <3>2, <3>3, ExportedForm
    <3> QED BY <3>4 DEF b
  <2> QED BY <1>4, <2>4, <2>5
<1> QED BY <1>1, <1>2, <1>3, <1>4 DEF BuildOK

-----------------------------------------------------------------------------
\* A node of such a model is one of those before the chain, or a dense layer's.
LEMMA NodeCases ==
  ASSUME NEW m, NEW pre, NEW n, NEW t, NEW first, NEW act, NEW d, NEW rows, NEW cols,
         Form(m, pre, n, t, first, act, d, rows, cols), NEW i \in DOMAIN m.nodes
  PROVE  /\ pre \in Nat /\ n \in Positive /\ i \in 1 .. pre + 3 * n
         /\ \/ t = 0 /\ pre = 1 /\ i = 1 /\ first = <<"flat", 0>>
               /\ m.nodes[i] = Node("Flatten", 0, <<Dense>>, first)
            \/ /\ t \in Positive /\ i \in 1 .. t /\ pre = t + 1 /\ first = ConcatOut
               /\ m.nodes[i] = Node("Gather", i, <<<<"emb_table", i>>, <<"emb_idx", i>>>>,
                                    <<"emb_out", i>>)
            \/ /\ t \in Positive /\ i = t + 1 /\ pre = t + 1 /\ first = ConcatOut
               /\ m.nodes[i] = Node("Concat", 0, [k \in 1 .. t + 1 |->
                                IF k <= t THEN <<"emb_out", k>> ELSE Dense], ConcatOut)
            \/ \E j \in 1 .. n : i = pre + 3 * j - 2 /\ m.nodes[i] = MatMulNode(j, first)
            \/ \E j \in 1 .. n : i = pre + 3 * j - 1 /\ m.nodes[i] = AddNode(j)
            \/ \E j \in 1 .. n : i = pre + 3 * j /\ m.nodes[i] = LastNode(j, n, act)
<1>1. pre \in Nat /\ n \in Nat /\ n \in Positive
  BY DEF Form, StartForm, Positive
<1>2. i \in 1 .. pre + 3 * n
  BY DEF Form, Listed
<1>3. CASE i <= pre
  <2>1. pre # 0
    BY <1>1, <1>2, <1>3
  <2>2. CASE t = 0 /\ pre = 1
    BY <1>1, <1>2, <1>3, <2>2 DEF Form, StartForm, Positive
  <2>3. CASE t \in Positive /\ pre = t + 1
    <3>1. i \in 1 .. t \/ i = t + 1
      BY <1>2, <1>3, <2>3 DEF Positive
    <3>2. ~ (t = 0)
      BY <2>3 DEF Positive
    <3> QED BY <1>1, <1>2, <2>3, <3>1, <3>2 DEF Form, StartForm
  <2> QED BY <2>1, <2>2, <2>3 DEF Form, StartForm
<1>4. CASE ~ (i <= pre)
  <2> DEFINE j == (i - pre + 2) \div 3
  <2>1. j \in 1 .. n /\ (i = pre + 3 * j - 2 \/ i = pre + 3 * j - 1 \/ i = pre + 3 * j)
    BY <1>1, <1>2, <1>4
  <2> HIDE DEF j
  <2> QED BY <1>1, <1>2, <2>1 DEF Form, ChainForm
<1> QED BY <1>3, <1>4

\* Every node reads weights, inputs of the model and outputs of earlier nodes,
\* and none reads the model's output, which is what the last node computes.
LEMMA GraphOrdered ==
  ASSUME NEW m, NEW pre, NEW n, NEW t, NEW first, NEW act, NEW d, NEW rows, NEW cols,
         Form(m, pre, n, t, first, act, d, rows, cols)
  PROVE  /\ \A i \in DOMAIN m.nodes : \A x \in Range(m.nodes[i].ins) :
              /\ x # Output
              /\ \/ x \in DOMAIN m.shape
                 \/ x \in {v.name : v \in Range(m.inputs)}
                 \/ \E k \in 1 .. i - 1 : m.nodes[k].out = x
         /\ pre + 3 * n \in DOMAIN m.nodes /\ m.nodes[pre + 3 * n].out = Output
<1>1. pre \in Nat /\ n \in Nat /\ n \in 1 .. n /\ DOMAIN m.nodes = 1 .. pre + 3 * n
  BY DEF Form, StartForm, Positive, Listed
<1>2. pre + 3 * n \in DOMAIN m.nodes /\ m.nodes[pre + 3 * n].out = Output
  <2>1. m.nodes[pre + 3 * n] = LastNode(n, n, act)
    BY <1>1 DEF Form, ChainForm
  <2> QED BY <1>1, <2>1 DEF LastNode, Node
<1>3. /\ \A j \in 1 .. n : <<"w", j>> \in DOMAIN m.shape /\ <<"b", j>> \in DOMAIN m.shape
      /\ \A k \in 1 .. t : <<"emb_table", k>> \in DOMAIN m.shape
  BY DEF Form, WeightForm
<1> DEFINE names == {v.name : v \in Range(m.inputs)}
<1>4. Dense \in names /\ \A k \in 1 .. t : <<"emb_idx", k>> \in names
  <2>1. t \in Nat /\ DOMAIN m.inputs = 1 .. t + 1
    BY DEF Form, StartForm, InputForm, Listed, Positive
  <2>2. \A k \in 1 .. t + 1 : m.inputs[k].name \in names
    BY <2>1 DEF Range
  <2>3. 1 \in 1 .. t + 1 /\ \A k \in 1 .. t : k + 1 \in 1 .. t + 1
    BY <2>1
  <2>4. m.inputs[1].name = Dense /\ \A k \in 1 .. t : m.inputs[k + 1].name = <<"emb_idx", k>>
    BY DEF Form, InputForm
  <2> HIDE DEF names
  <2> QED BY <2>2, <2>3, <2>4
<1> HIDE DEF names
<1> DEFINE Read(i, x) ==
             /\ x # Output
             /\ x \in DOMAIN m.shape \/ x \in names \/ \E k \in 1 .. i - 1 : m.nodes[k].out = x
<1>5. \A j \in 1 .. n : j # 1 => LastNode(j - 1, n, act).out = <<"relu", j - 1>>
  BY <1>1 DEF LastNode, Node
<1>6. ASSUME NEW i \in DOMAIN m.nodes, NEW x \in Range(m.nodes[i].ins)
      PROVE  Read(i, x)
  <2>1. CASE t = 0 /\ pre = 1 /\ i = 1 /\ m.nodes[i] = Node("Flatten", 0, <<Dense>>, first)
    <3>1. m.nodes[i].ins = <<Dense>>
      BY <2>1 DEF Node
    <3>2. x = Dense
      BY <3>1 DEF Range
    <3> QED BY <3>2, <1>4 DEF Dense, Output
  <2>2. CASE /\ t \in Positive /\ i \in 1 .. t
             /\ m.nodes[i] = Node("Gather", i, <<<<"emb_table", i>>, <<"emb_idx", i>>>>,
                                  <<"emb_out", i>>)
    <3>1. m.nodes[i].ins = <<<<"emb_table", i>>, <<"emb_idx", i>>>>
      BY <2>2 DEF Node
    <3>2. x = <<"emb_table", i>> \/ x = <<"emb_idx", i>>
      BY <3>1 DEF Range
    <3> QED BY <3>2, <2>2, <1>3, <1>4 DEF Output
  <2>3. CASE /\ t \in Positive /\ i = t + 1 /\ pre = t + 1
             /\ m.nodes[i] = Node("Concat", 0, [k \in 1 .. t + 1 |->
                                IF k <= t THEN <<"emb_out", k>> ELSE Dense], ConcatOut)
    <3>1. m.nodes[i].ins = [k \in 1 .. t + 1 |-> IF k <= t THEN <<"emb_out", k>> ELSE Dense]
      BY <2>3 DEF Node
    <3>2. PICK k \in 1 .. t + 1 : x = IF k <= t THEN <<"emb_out", k>> ELSE Dense
      BY <3>1 DEF Range
    <3>3. CASE k <= t
      <4>1. k \in 1 .. t /\ k \in 1 .. i - 1 /\ t # 0
        BY <3>3, <2>3 DEF Positive
      <4>2. m.nodes[k].out = <<"emb_out", k>>
        <5>1. m.nodes[k] = Node("Gather", k, <<<<"emb_table", k>>, <<"emb_idx", k>>>>,
                                <<"emb_out", k>>)
          BY <4>1, <2>3 DEF Form, StartForm
        <5> QED BY <5>1 DEF Node
      <4> QED BY <3>2, <3>3, <4>1, <4>2 DEF Output
    <3>4. CASE ~ (k <= t)
      BY <3>2, <3>4, <1>4 DEF Dense, Output
    <3> QED BY <3>3, <3>4
  <2>4. ASSUME NEW j \in 1 .. n, i = pre + 3 * j - 2, m.nodes[i] = MatMulNode(j, first)
        PROVE  Read(i, x)
    <3>1. m.nodes[i].ins = <<IF j = 1 THEN first ELSE <<"relu", j - 1>>, <<"w", j>>>>
      BY <2>4 DEF MatMulNode, Node
    <3>2. x = <<"w", j>> \/ x = IF j = 1 THEN first ELSE <<"relu", j - 1>>
      BY <3>1 DEF Range
    <3>3. CASE x = <<"w", j>>
      BY <3>3, <1>3 DEF Output
    <3>4. CASE j # 1 /\ x = <<"relu", j - 1>>
      <4>1. j - 1 \in 1 .. n /\ pre + 3 * (j - 1) \in 1 .. i - 1
        BY <3>4, <2>4, <1>1
      <4>2. m.nodes[pre + 3 * (j - 1)] = LastNode(j - 1, n, act)
        BY <4>1 DEF Form, ChainForm
      <4>3. m.nodes[pre + 3 * (j - 1)].out = x
        BY <4>2, <1>5, <3>4
      <4> QED BY <4>1, <4>3, <3>4 DEF Output
    <3>5. CASE j = 1 /\ x = first
      <4>1. i = pre + 1
        BY <3>5, <2>4, <1>1
      <4>2. CASE pre = 0 /\ first = Dense
        BY <3>5, <4>2, <1>4 DEF Dense, Output
      <4>3. CASE pre = 1 /\ first = <<"flat", 0>> /\ m.nodes[1] = Node("Flatten", 0, <<Dense>>, first)
        <5>1. m.nodes[1].out = first /\ 1 \in 1 .. i - 1
          BY <4>1, <4>3 DEF Node
        <5> QED BY <5>1, <3>5, <4>3 DEF Output
      <4>4. CASE /\ t \in Positive /\ pre = t + 1 /\ first = ConcatOut
                 /\ m.nodes[t + 1] = Node("Concat", 0, [k \in 1 .. t + 1 |->
                                IF k <= t THEN <<"emb_out", k>> ELSE Dense], ConcatOut)
        <5>1. m.nodes[t + 1].out = first /\ t + 1 \in 1 .. i - 1
          BY <4>1, <4>4 DEF Node, Positive
        <5> QED BY <5>1, <3>5, <4>4 DEF Output, ConcatOut
      <4> QED BY <4>2, <4>3, <4>4 DEF Form, StartForm
    <3> QED BY <3>2, <3>3, <3>4, <3>5
  <2>5. ASSUME NEW j \in 1 .. n, i = pre + 3 * j - 1, m.nodes[i] = AddNode(j)
        PROVE  Read(i, x)
    <3>1. m.nodes[i].ins = <<<<"mm", j>>, <<"b", j>>>>
      BY <2>5 DEF AddNode, Node
    <3>2. x = <<"mm", j>> \/ x = <<"b", j>>
      BY <3>1 DEF Range
    <3>3. pre + 3 * j - 2 \in 1 .. i - 1
      BY <2>5, <1>1
    <3>4. m.nodes[pre + 3 * j - 2].out = <<"mm", j>>
      <4>1. m.nodes[pre + 3 * j - 2] = MatMulNode(j, first)
        BY DEF Form, ChainForm
      <4> QED BY <4>1 DEF MatMulNode, Node
    <3>5. x # Output
      BY <3>2 DEF Output
    <3>6. x \in DOMAIN m.shape \/ \E k \in 1 .. i - 1 : m.nodes[k].out = x
      BY <3>2, <3>3, <3>4, <1>3
    <3> QED BY <3>5, <3>6
  <2>6. ASSUME NEW j \in 1 .. n, i = pre + 3 * j, m.nodes[i] = LastNode(j, n, act)
        PROVE  Read(i, x)
    <3>1. m.nodes[i].ins = <<<<"add", j>>>>
      BY <2>6 DEF LastNode, Node
    <3>2. x = <<"add", j>>
      BY <3>1 DEF Range
    <3>3. pre + 3 * j - 1 \in 1 .. i - 1
      BY <2>6, <1>1
    <3>4. m.nodes[pre + 3 * j - 1].out = <<"add", j>>
      <4>1. m.nodes[pre + 3 * j - 1] = AddNode(j)
        BY DEF Form, ChainForm
      <4> QED BY <4>1 DEF AddNode, Node
    <3>5. x # Output
      BY <3>2 DEF Output
    <3>6. \E k \in 1 .. i - 1 : m.nodes[k].out = x
      BY <3>2, <3>3, <3>4
    <3> QED BY <3>5, <3>6
  <2> HIDE DEF Read
  <2>7. CASE \E j \in 1 .. n : i = pre + 3 * j - 2 /\ m.nodes[i] = MatMulNode(j, first)
    BY <2>7, <2>4
  <2>8. CASE \E j \in 1 .. n : i = pre + 3 * j - 1 /\ m.nodes[i] = AddNode(j)
    BY <2>8, <2>5
  <2>9. CASE \E j \in 1 .. n : i = pre + 3 * j /\ m.nodes[i] = LastNode(j, n, act)
    BY <2>9, <2>6
  <2> QED BY SMTT(30), <2>1, <2>2, <2>3, <2>7, <2>8, <2>9, NodeCases
<1> QED BY <1>2, <1>6 DEF names

-----------------------------------------------------------------------------
(***************************************************************************)
(* Which tensors a session has right.                                      *)
(***************************************************************************)
\* r is what Computed computes on the way to the n-th node.
IsRight(r, nodes, base, n) ==
  r = [i \in 0 .. n |->
         IF i = 0 THEN base
         ELSE LET before == r[i - 1]
                  k == nodes[i]
              IN IF Range(k.ins) \subseteq before THEN before \cup {k.out} ELSE before]

\* It has a value for every number of nodes.
LEMMA RightExists ==
  ASSUME NEW nodes, NEW base
  PROVE  \A n \in Nat : \E r : IsRight(r, nodes, base, n)
<1> DEFINE S == {n \in Nat : \E r : IsRight(r, nodes, base, n)}
           Step(before, i) == IF Range(nodes[i].ins) \subseteq before
                              THEN before \cup {nodes[i].out} ELSE before
<1>1. 0 \in S
  <2>1. IsRight([i \in 0 .. 0 |-> base], nodes, base, 0)
    BY DEF IsRight
  <2> QED BY <2>1
<1>2. ASSUME NEW n \in Nat, n \in S PROVE n + 1 \in S
  <2>1. PICK r : IsRight(r, nodes, base, n)
    BY <1>2
  <2> DEFINE q == [i \in 0 .. n + 1 |-> IF i <= n THEN r[i] ELSE Step(r[n], n + 1)]
  <2>2. ASSUME NEW i \in 0 .. n + 1
        PROVE  q[i] = IF i = 0 THEN base ELSE Step(q[i - 1], i)
    <3>1. CASE i = n + 1
      <4>1. q[i] = Step(r[n], n + 1) /\ q[i - 1] = r[n] /\ i # 0
        BY <3>1
      <4> HIDE DEF q, Step
      <4> QED BY <4>1, <3>1
    <3>2. CASE i # n + 1
      <4>1. i \in 0 .. n /\ q[i] = r[i] /\ (i # 0 => q[i - 1] = r[i - 1])
        BY <3>2
      <4>2. r[i] = IF i = 0 THEN base ELSE Step(r[i - 1], i)
        BY <2>1, <4>1 DEF IsRight
      <4> HIDE DEF q, Step
      <4> QED BY <4>1, <4>2
    <3> QED BY <3>1, <3>2
  <2>3. IsRight(q, nodes, base, n + 1)
    BY <2>2 DEF IsRight
  <2> QED BY <2>3
<1> HIDE DEF S
<1>3. \A n \in Nat : n \in S
  BY <1>1, <1>2, Induction
<1> QED BY <1>3 DEF S

\* What a session has right: everything it is given and, for every node whose
\* inputs it has by then, the node's output.
Growth(r, part, base, right, n) ==
  /\ r[0] = base /\ right = r[n]
  /\ \A i \in 1 .. n : /\ r[i - 1] \subseteq r[i]
                       /\ Range(part.nodes[i].ins) \subseteq r[i - 1] =>
                            part.nodes[i].out \in r[i]

\* What Computed returns is the last of a growing sequence of sets of tensors,
\* one per node.
LEMMA ComputedGrows ==
  ASSUME NEW part, NEW feeds, NEW weights, NEW n \in Nat, Len(part.nodes) = n
  PROVE  \E r : Growth(r, part, (feeds \cap part.inputs) \cup (weights \cap part.inits),
                       Computed(part, feeds, weights), n)
<1> DEFINE base == (feeds \cap part.inputs) \cup (weights \cap part.inits)
           r == CHOOSE r : IsRight(r, part.nodes, base, n)
<1>1. IsRight(r, part.nodes, base, n)
  <2>1. \E q : IsRight(q, part.nodes, base, n)
    BY RightExists
  <2> HIDE DEF base
  <2> QED BY <2>1
<1>2. Computed(part, feeds, weights) = r[n]
  BY DEF Computed, IsRight
<1> HIDE DEF r, base
<1>3. r[0] = base
  BY <1>1 DEF IsRight
<1>4. ASSUME NEW i \in 1 .. n
      PROVE  /\ r[i - 1] \subseteq r[i]
             /\ Range(part.nodes[i].ins) \subseteq r[i - 1] => part.nodes[i].out \in r[i]
  <2>1. i \in 0 .. n /\ i # 0
    OBVIOUS
  <2>2. r[i] = IF Range(part.nodes[i].ins) \subseteq r[i - 1]
               THEN r[i - 1] \cup {part.nodes[i].out} ELSE r[i - 1]
    BY <1>1, <2>1 DEF IsRight
  <2> QED BY <2>2
<1>5. Growth(r, part, base, Computed(part, feeds, weights), n)
  BY <1>2, <1>3, <1>4 DEF Growth
<1> QED BY <1>5 DEF base

\* A session that is given whatever its nodes do not compute themselves
\* computes the outputs of all of them.
LEMMA ComputedAll ==
  ASSUME NEW part, NEW feeds, NEW weights, NEW n \in Nat, Len(part.nodes) = n,
         \A i \in 1 .. n : \A x \in Range(part.nodes[i].ins) :
            \/ x \in (feeds \cap part.inputs) \cup (weights \cap part.inits)
            \/ \E k \in 1 .. i - 1 : part.nodes[k].out = x
  PROVE  LET right == Computed(part, feeds, weights)
         IN /\ (feeds \cap part.inputs) \cup (weights \cap part.inits) \subseteq right
            /\ \A i \in 1 .. n : part.nodes[i].out \in right
<1> DEFINE base == (feeds \cap part.inputs) \cup (weights \cap part.inits)
           right == Computed(part, feeds, weights)
<1>0. \E r : Growth(r, part, base, right, n)
  BY ComputedGrows
<1> HIDE DEF base, right
<1>1. PICK r : Growth(r, part, base, right, n)
  BY <1>0
<1> DEFINE S == {i \in Nat : i <= n =>
                   base \subseteq r[i] /\ \A k \in 1 .. i : part.nodes[k].out \in r[i]}
<1>2. 0 \in S
  BY <1>1 DEF Growth
<1>3. ASSUME NEW i \in Nat, i \in S PROVE i + 1 \in S
  <2> SUFFICES ASSUME i + 1 <= n
               PROVE  /\ base \subseteq r[i + 1]
                      /\ \A k \in 1 .. i + 1 : part.nodes[k].out \in r[i + 1]
    OBVIOUS
  <2>1. base \subseteq r[i] /\ \A k \in 1 .. i : part.nodes[k].out \in r[i]
    BY <1>3
  <2>2. i + 1 \in 1 .. n /\ (i + 1) - 1 = i
    OBVIOUS
  <2>3. Range(part.nodes[i + 1].ins) \subseteq r[i]
    <3> SUFFICES ASSUME NEW x \in Range(part.nodes[i + 1].ins) PROVE x \in r[i]
      OBVIOUS
    <3>1. x \in base \/ \E k \in 1 .. i : part.nodes[k].out = x
      BY <2>2 DEF base
    <3> QED BY <3>1, <2>1
  <2>4. r[i] \subseteq r[i + 1] /\ part.nodes[i + 1].out \in r[i + 1]
    BY <1>1, <2>2, <2>3 DEF Growth
  <2>5. \A k \in 1 .. i + 1 : k \in 1 .. i \/ k = i + 1
    OBVIOUS
  <2> QED BY <2>1, <2>4, <2>5
<1> HIDE DEF S
<1>4. n \in S
  BY <1>2, <1>3, Induction
<1>5. base \subseteq r[n] /\ \A k \in 1 .. n : part.nodes[k].out \in r[n]
  BY <1>4 DEF S
<1> QED BY <1>1, <1>5 DEF base, right, Growth

-----------------------------------------------------------------------------
(***************************************************************************)
(* The model all the tools read.                                           *)
(***************************************************************************)
\* Before it is generated nothing has been made of it; then it stays as built.
ModelKept ==
  /\ job \in Jobs
  /\ stage = "generate" => /\ program = <<>> /\ parts = <<>> /\ profiled = <<>>
                           /\ run = <<>> /\ exit = -1
  /\ stage # "generate" => model = Built(job.build)

\* The first step generates the model, and no other one writes it or goes back.
LEMMA GenerateFirst ==
  ASSUME Next, stage = "generate"
  PROVE  Generate /\ UNCHANGED <<lw, training, runtime, baselines>>
<1>1. ~Lower
  BY DEF Lower, LowerStart, LowerStep, LowerRaise, Lowered, WriteDoc, WriteImage, WriteVectors,
         LowerDies, Retrain
<1>2. ~Run
  BY DEF Run, Start, Prepare, PrepareFails, BeginIteration, RunOneLayer, LinkFails,
         ReadOutput, Compare
<1>3. ~Baseline
  BY DEF Baseline, Split, RunPart, DumpWeights, RunSwapped, ProfileNode, ProfileEnd
<1>4. Place => Generate
  BY DEF Place, Parse, SolveStart, SolveFirst, SolveLayer, SolveEnd, Backtrack, WriteManifest
<1> QED BY <1>1, <1>2, <1>3, <1>4 DEF Next

\* After the generator no step changes the job or the model.
LEMMA ModelStep ==
  ASSUME Next, stage # "generate"
  PROVE  job' = job /\ model' = model /\ stage' # "generate"
<1>1. ASSUME Place PROVE job' = job /\ model' = model /\ stage' # "generate"
  BY <1>1 DEF Place, Generate, Parse, SolveStart, SolveFirst, SolveLayer, SolveEnd, Backtrack,
              WriteManifest, Fail, files
<1>2. ASSUME Lower PROVE job' = job /\ model' = model /\ stage' # "generate"
  BY <1>2 DEF Lower, LowerStart, LowerStep, LowerRaise, Lowered, WriteDoc, WriteImage,
              WriteVectors, LowerDies, Retrain, Fail, Errors, files
<1>3. ASSUME Run PROVE job' = job /\ model' = model /\ stage' # "generate"
  BY <1>3 DEF Run, Start, Prepare, PrepareFails, BeginIteration, RunOneLayer, LinkFails,
              ReadOutput, Compare, Exit, files
<1>4. ASSUME Baseline PROVE job' = job /\ model' = model /\ stage' # "generate"
  BY <1>4 DEF Baseline, Split, RunPart, DumpWeights, RunSwapped, ProfileNode, ProfileEnd, files
<1> QED BY <1>1, <1>2, <1>3, <1>4 DEF Next

\* The model is the generator's from the first state on (none yet).
LEMMA ModelInit ==
  ASSUME Init
  PROVE  ModelKept
BY DEF Init, PlacementInit, RuntimeInit, BaselinesInit, ModelKept

\* The model stays the one the generator builds for the job.
LEMMA ModelKeeps ==
  ASSUME ModelKept, [Next]_vars
  PROVE  ModelKept'
<1>1. CASE UNCHANGED vars
  BY <1>1 DEF ModelKept, vars, files, runtime, baselines
<1>2. CASE Next /\ stage = "generate"
  BY <1>2, GenerateFirst DEF ModelKept, Generate
<1>3. CASE Next /\ stage # "generate"
  BY <1>3, ModelStep DEF ModelKept
<1> QED BY <1>1, <1>2, <1>3

\* A model that has been generated has the form of the generators.
LEMMA ModelForm ==
  ASSUME ModelKept, stage # "generate"
  PROVE  \E pre, n, t, first, act, d, rows, cols :
            Form(model, pre, n, t, first, act, d, rows, cols)
BY BuiltForm DEF ModelKept

-----------------------------------------------------------------------------
(***************************************************************************)
(* The profiler.                                                           *)
(***************************************************************************)
\* A list that grows by one.
LEMMA Appended ==
  ASSUME NEW n \in Nat, NEW a, Listed(a, n), NEW x
  PROVE  /\ Len(a) = n /\ DOMAIN Append(a, x) = 1 .. n + 1
         /\ Listed(Append(a, x), n + 1)
         /\ \A i \in 1 .. n : Append(a, x)[i] = a[i]
         /\ Append(a, x)[n + 1] = x
<1> DEFINE S == {a[i] : i \in 1 .. n} \cup {x}
<1>1. a \in Seq(S) /\ Len(a) = n /\ x \in S
  <2>1. \A i \in 1 .. n : a[i] \in S
    OBVIOUS
  <2>2. x \in S
    OBVIOUS
  <2> HIDE DEF S
  <2>3. a \in [1 .. n -> S]
    BY <2>1 DEF Listed
  <2> QED BY <2>2, <2>3
<1> HIDE DEF S
<1>2. /\ Append(a, x) \in Seq(S) /\ Len(Append(a, x)) = n + 1
      /\ \A i \in 1 .. n + 1 : Append(a, x)[i] = IF i <= n THEN a[i] ELSE x
  BY <1>1
<1>3. Append(a, x) \in [1 .. n + 1 -> S]
  <2> DEFINE q == Append(a, x)
  <2>1. q \in Seq(S) /\ Len(q) = n + 1
    BY <1>2
  <2> HIDE DEF q
  <2>2. q \in [1 .. Len(q) -> S]
    BY <2>1, LenProperties
  <2> QED BY <2>1, <2>2 DEF q
<1>4. (\A i \in 1 .. n : i \in 1 .. n + 1 /\ i <= n) /\ n + 1 \in 1 .. n + 1 /\ ~(n + 1 <= n)
  OBVIOUS
<1> QED BY <1>1, <1>2, <1>3, <1>4 DEF Listed

\* The nodes that have been timed or skipped so far.
Profiling ==
  /\ \E n \in Nat : Listed(profiled, n)
  /\ ProfileFeedsAll

\* A node whose session is built is fed all it reads: nothing reads the output.
LEMMA FedAll ==
  ASSUME ModelKept, stage # "generate", NEW i \in DOMAIN model.nodes,
         Buildable(model.nodes[i])
  PROVE  Fed(model.nodes[i]) = Range(model.nodes[i].ins) \ Initializers
<1> DEFINE ins == Range(model.nodes[i].ins)
<1>1. \A x \in ins : x # Output
  BY ModelForm, GraphOrdered
<1>2. \A x \in ins : x \in Initializers \/ x \in Typed
  BY DEF Buildable
<1> HIDE DEF ins
<1>3. (Typed \ {Output}) \cap (ins \ Initializers) = ins \ Initializers
  BY <1>1, <1>2
<1> QED BY <1>3 DEF Fed, ins

\* Profiling a node keeps the invariant: the node's inputs are all fed.
LEMMA ProfileNodeKeeps ==
  ASSUME ModelKept, Profiling, ProfileNode
  PROVE  Profiling'
<1>1. PICK n \in Nat : Listed(profiled, n)
  BY DEF Profiling
<1> DEFINE k == model.nodes[n + 1]
           x == IF Buildable(k) THEN <<k.name, Fed(k)>> ELSE <<k.name>>
<1>2. Len(profiled) = n /\ DOMAIN profiled = 1 .. n
  BY <1>1, Appended DEF Listed
<1>3. profiled' = Append(profiled, x) /\ model' = model /\ stage = "parse" /\ n < Len(model.nodes)
  BY <1>2 DEF ProfileNode, files
<1>4. n + 1 \in DOMAIN model.nodes
  <2>1. PICK m \in Nat : Listed(model.nodes, m)
    <3>1. PICK pre, r, t, first, act, d, rows, cols :
             Form(model, pre, r, t, first, act, d, rows, cols)
      BY <1>3, ModelForm
    <3>2. pre + 3 * r \in Nat
      BY <3>1 DEF Form, StartForm, Positive
    <3> QED BY <3>1, <3>2 DEF Form
  <2>2. Len(model.nodes) = m /\ DOMAIN model.nodes = 1 .. m
    BY <2>1, Appended DEF Listed
  <2> QED BY <1>3, <2>2
<1>5. Len(x) = 2 => x[2] = Range(k.ins) \ Initializers
  <2>1. CASE Buildable(k)
    <3>1. Fed(k) = Range(k.ins) \ Initializers
      BY <1>3, <1>4, <2>1, FedAll
    <3> QED BY <2>1, <3>1
  <2>2. CASE ~Buildable(k)
    BY <2>2
  <2> QED BY <2>1, <2>2
<1> HIDE DEF x
<1>6. /\ Listed(profiled', n + 1) /\ DOMAIN profiled' = 1 .. n + 1
      /\ \A i \in 1 .. n : profiled'[i] = profiled[i]
      /\ profiled'[n + 1] = x
  BY <1>1, <1>3, Appended
<1>7. Initializers' = Initializers
  BY <1>3 DEF Initializers
<1>8. ASSUME NEW i \in 1 .. n + 1, Len(profiled'[i]) = 2
      PROVE  profiled'[i][2] = Range(model.nodes[i].ins) \ Initializers
  <2>1. CASE i = n + 1
    BY <1>5, <1>6, <1>8, <2>1
  <2>2. CASE i \in 1 .. n
    <3>1. profiled'[i] = profiled[i] /\ i \in DOMAIN profiled
      BY <1>2, <1>6, <2>2
    <3> QED BY <1>8, <3>1 DEF Profiling, ProfileFeedsAll
  <2> QED BY <2>1, <2>2
<1>9. ProfileFeedsAll'
  BY <1>3, <1>6, <1>7, <1>8 DEF ProfileFeedsAll
<1> QED BY <1>6, <1>9 DEF Profiling

\* Every step keeps the invariant of the profiler.
LEMMA ProfilingStep ==
  ASSUME ModelKept, Profiling, [Next]_vars
  PROVE  Profiling'
<1>1. CASE UNCHANGED vars
  BY <1>1 DEF Profiling, ProfileFeedsAll, Initializers, vars, files, baselines
<1>2. CASE Next /\ stage = "generate"
  <2>1. profiled' = <<>>
    BY <1>2, GenerateFirst DEF ModelKept, baselines
  <2>2. Listed(profiled', 0) /\ DOMAIN profiled' = {}
    BY <2>1 DEF Listed
  <2> QED BY <2>2 DEF Profiling, ProfileFeedsAll
<1>3. CASE Next /\ stage # "generate" /\ ~ProfileNode
  <2>1. profiled' = profiled
    BY <1>3 DEF Next, Baseline, Split, RunPart, DumpWeights, RunSwapped, ProfileEnd, baselines
  <2> QED BY <1>3, <2>1, ModelStep DEF Profiling, ProfileFeedsAll, Initializers
<1>4. CASE ProfileNode
  BY <1>4, ProfileNodeKeeps
<1> QED BY <1>1, <1>2, <1>3, <1>4

\* Every node the profiler times is fed everything it reads (profiler.profile).
THEOREM ProfileTheorem == Spec => []ProfileFeedsAll
<1>1. Init => ModelKept /\ Profiling
  <2> SUFFICES ASSUME Init PROVE ModelKept /\ Profiling
    OBVIOUS
  <2>1. profiled = <<>>
    BY DEF Init, BaselinesInit
  <2>2. Listed(profiled, 0) /\ DOMAIN profiled = {}
    BY <2>1 DEF Listed
  <2> QED BY <2>2, ModelInit DEF Profiling, ProfileFeedsAll
<1>2. (ModelKept /\ Profiling) /\ [Next]_vars => (ModelKept /\ Profiling)'
  BY ModelKeeps, ProfilingStep
<1>3. Profiling => ProfileFeedsAll
  BY DEF Profiling
<1> QED BY <1>1, <1>2, <1>3, PTL DEF Spec

-----------------------------------------------------------------------------
(***************************************************************************)
(* The baselines.                                                          *)
(***************************************************************************)
\* A part of a list.
LEMMA Sliced ==
  ASSUME NEW n \in Nat, NEW a, Listed(a, n), NEW lo \in 1 .. n + 1, NEW hi \in (lo - 1) .. n
  PROVE  LET q == SubSeq(a, lo, hi) IN
         /\ Len(q) = hi - lo + 1 /\ DOMAIN q = 1 .. hi - lo + 1
         /\ \A i \in 1 .. hi - lo + 1 : q[i] = a[lo + i - 1]
<1> DEFINE S == {a[i] : i \in 1 .. n}
<1>1. a \in Seq(S) /\ Len(a) = n
  <2>1. \A i \in 1 .. n : a[i] \in S
    OBVIOUS
  <2> HIDE DEF S
  <2>2. a \in [1 .. n -> S]
    BY <2>1 DEF Listed
  <2> QED BY <2>2
<1> HIDE DEF S
<1>2. lo \in 1 .. Len(a) + 1 /\ hi \in lo - 1 .. Len(a)
  BY <1>1
<1> DEFINE q == SubSeq(a, lo, hi)
<1>3. /\ q \in Seq(S) /\ Len(q) = hi - lo + 1
      /\ \A i \in 1 .. hi - lo + 1 : q[i] = a[lo + i - 1]
  BY <1>1, <1>2, SubSeqProperties
<1>4. DOMAIN q = 1 .. Len(q)
  <2> HIDE DEF q
  <2> QED BY <1>3, LenProperties
<1> QED BY <1>3, <1>4

\* The nodes of the model.
LEMMA ModelNodes ==
  ASSUME ModelKept, stage # "generate"
  PROVE  \E n \in Nat : /\ Listed(model.nodes, n) /\ Len(model.nodes) = n
                        /\ DOMAIN model.nodes = 1 .. n
                        /\ n \in 1 .. n /\ model.nodes[n].out = Output
                        /\ \A i \in 1 .. n : \A x \in Range(model.nodes[i].ins) :
                              \/ x \in Initializers \/ x \in InputNames
                              \/ \E k \in 1 .. i - 1 : model.nodes[k].out = x
<1>1. PICK pre, r, t, first, act, d, rows, cols :
         Form(model, pre, r, t, first, act, d, rows, cols)
  BY ModelForm
<1> DEFINE n == pre + 3 * r
<1>2. n \in Nat /\ Listed(model.nodes, n)
  BY <1>1 DEF Form, StartForm, Positive
<1>3. /\ \A i \in DOMAIN model.nodes : \A x \in Range(model.nodes[i].ins) :
              \/ x \in DOMAIN model.shape
              \/ x \in {v.name : v \in Range(model.inputs)}
              \/ \E k \in 1 .. i - 1 : model.nodes[k].out = x
      /\ n \in DOMAIN model.nodes /\ model.nodes[n].out = Output
  BY <1>1, GraphOrdered
<1> HIDE DEF n
<1>4. Len(model.nodes) = n /\ DOMAIN model.nodes = 1 .. n
  BY <1>2, Appended DEF Listed
<1>5. \A i \in 1 .. n : \A x \in Range(model.nodes[i].ins) :
         \/ x \in Initializers \/ x \in InputNames
         \/ \E k \in 1 .. i - 1 : model.nodes[k].out = x
  BY <1>3, <1>4 DEF Initializers, InputNames
<1> QED BY <1>2, <1>3, <1>4, <1>5

\* A part that may run: it is fed its inputs, and gets its outputs right.
Sound(part, feeds) ==
  part.inputs \subseteq feeds /\ part.outputs \subseteq Computed(part, feeds, Initializers)

\* The nodes from the lo-th on, fed what they read and do not compute.
LEMMA PartComputes ==
  ASSUME ModelKept, stage # "generate", NEW lo, NEW hi, NEW feeds, NEW outputs, NEW nodes,
         lo \in 1 .. Len(model.nodes), hi \in lo .. Len(model.nodes),
         Len(nodes) = hi - lo + 1, DOMAIN nodes = 1 .. hi - lo + 1,
         \A i \in 1 .. hi - lo + 1 : nodes[i] = model.nodes[lo + i - 1],
         \A i \in lo .. hi : \A x \in Range(model.nodes[i].ins) :
            \/ x \in Initializers \/ x \in feeds
            \/ \E k \in lo .. i - 1 : model.nodes[k].out = x
  PROVE  LET right == Computed(Part(nodes, feeds, outputs), feeds, Initializers)
         IN feeds \subseteq right /\ \A i \in lo .. hi : model.nodes[i].out \in right
<1> DEFINE part == Part(nodes, feeds, outputs)
           n == hi - lo + 1
<1>1. PICK m \in Nat : Len(model.nodes) = m
  BY ModelNodes
<1>2. n \in Nat /\ lo \in Int /\ hi \in Int /\ \A i \in 1 .. n : lo + i - 1 \in lo .. hi
  BY <1>1
<1>3. /\ part.nodes = nodes /\ part.inputs = feeds
      /\ part.inits = Consumed(nodes) \cap Initializers
  BY DEF Part
<1>4. ASSUME NEW i \in 1 .. n, NEW x \in Range(nodes[i].ins)
      PROVE  \/ x \in (feeds \cap part.inputs) \cup (Initializers \cap part.inits)
             \/ \E k \in 1 .. i - 1 : nodes[k].out = x
  <2>1. nodes[i] = model.nodes[lo + i - 1] /\ nodes[i] \in Range(nodes)
    BY DEF Range
  <2>2. x \in Consumed(nodes)
    BY <2>1 DEF Consumed
  <2>3. \/ x \in Initializers \/ x \in feeds
        \/ \E k \in lo .. (lo + i - 1) - 1 : model.nodes[k].out = x
    BY <1>2, <2>1
  <2>4. CASE \E k \in lo .. (lo + i - 1) - 1 : model.nodes[k].out = x
    <3>1. PICK k \in lo .. (lo + i - 1) - 1 : model.nodes[k].out = x
      BY <2>4
    <3>2. k - lo + 1 \in 1 .. i - 1 /\ k - lo + 1 \in 1 .. n /\ lo + (k - lo + 1) - 1 = k
      BY <1>2
    <3>3. nodes[k - lo + 1] = model.nodes[k]
      BY <3>2
    <3> QED BY <3>1, <3>2, <3>3
  <2> QED BY <1>3, <2>2, <2>3, <2>4
<1> HIDE DEF part, n
<1>5. Len(part.nodes) = n
  BY <1>3 DEF n
<1>6. LET right == Computed(part, feeds, Initializers)
      IN /\ (feeds \cap part.inputs) \cup (Initializers \cap part.inits) \subseteq right
         /\ \A i \in 1 .. n : part.nodes[i].out \in right
  <2>1. \A i \in 1 .. n : \A x \in Range(part.nodes[i].ins) :
           \/ x \in (feeds \cap part.inputs) \cup (Initializers \cap part.inits)
           \/ \E k \in 1 .. i - 1 : part.nodes[k].out = x
    BY <1>3, <1>4
  <2>2. n \in Nat
    BY <1>2
  <2> QED BY ONLY <2>1, <2>2, <1>5, ComputedAll
<1>7. ASSUME NEW i \in lo .. hi
      PROVE  model.nodes[i].out \in Computed(part, feeds, Initializers)
  <2>1. i - lo + 1 \in 1 .. n /\ lo + (i - lo + 1) - 1 = i
    BY <1>2 DEF n
  <2>2. part.nodes[i - lo + 1] = model.nodes[i]
    BY <1>3, <2>1 DEF n
  <2> QED BY <1>6, <2>1, <2>2
<1> QED BY <1>3, <1>6, <1>7 DEF part

\* The model in one part.
LEMMA WholeComputes ==
  ASSUME ModelKept, stage # "generate"
  PROVE  Sound(Part(model.nodes, InputNames, {Output}), InputNames)
<1>1. PICK n \in Nat : /\ Len(model.nodes) = n /\ DOMAIN model.nodes = 1 .. n
                       /\ n \in 1 .. n /\ model.nodes[n].out = Output
                       /\ \A i \in 1 .. n : \A x \in Range(model.nodes[i].ins) :
                              \/ x \in Initializers \/ x \in InputNames
                              \/ \E k \in 1 .. i - 1 : model.nodes[k].out = x
  BY ModelNodes
<1> DEFINE part == Part(model.nodes, InputNames, {Output})
<1>2. /\ 1 \in 1 .. n /\ n - 1 + 1 = n /\ n \in 1 .. n
      /\ \A i \in 1 .. n : 1 + i - 1 = i
  BY <1>1
<1>3. \A i \in 1 .. n : model.nodes[i].out \in Computed(part, InputNames, Initializers)
  BY ZenonT(60), <1>1, <1>2, PartComputes
<1>4. part.inputs = InputNames /\ part.outputs = {Output}
  BY DEF Part
<1> HIDE DEF part
<1>5. Sound(part, InputNames)
  BY <1>1, <1>3, <1>4 DEF Sound
<1> QED BY <1>5 DEF part

\* The model in two: what crosses the cut is computed before it, and enough
\* after it.
LEMMA HalvesCompute ==
  ASSUME ModelKept, stage # "generate", NEW c \in Nat, c \in 1 .. Len(model.nodes) - 1
  PROVE  LET gpu == SubSeq(model.nodes, 1, Len(model.nodes) - c)
             cpu == SubSeq(model.nodes, Len(model.nodes) - c + 1, Len(model.nodes))
         IN /\ Sound(Part(gpu, InputNames, Cut(gpu, cpu)), InputNames)
            /\ Sound(Part(cpu, Cut(gpu, cpu), {Output}), Cut(gpu, cpu))
<1>1. PICK n \in Nat : /\ Listed(model.nodes, n) /\ Len(model.nodes) = n
                       /\ DOMAIN model.nodes = 1 .. n
                       /\ n \in 1 .. n /\ model.nodes[n].out = Output
                       /\ \A i \in 1 .. n : \A x \in Range(model.nodes[i].ins) :
                              \/ x \in Initializers \/ x \in InputNames
                              \/ \E k \in 1 .. i - 1 : model.nodes[k].out = x
  BY ModelNodes
<1> DEFINE h == n - c
           gpu == SubSeq(model.nodes, 1, h)
           cpu == SubSeq(model.nodes, h + 1, n)
<1>2. h \in 1 .. n - 1 /\ h \in Nat /\ c = n - h
  BY <1>1
<1> HIDE DEF h
<1>3. /\ Len(gpu) = h /\ DOMAIN gpu = 1 .. h
      /\ \A i \in 1 .. h : gpu[i] = model.nodes[i]
  <2>1. 1 \in 1 .. n + 1 /\ h \in (1 - 1) .. n /\ h - 1 + 1 = h /\ \A i \in 1 .. h : 1 + i - 1 = i
    BY <1>2
  <2> QED BY <1>1, <2>1, Sliced
<1>4. /\ Len(cpu) = n - (h + 1) + 1 /\ DOMAIN cpu = 1 .. n - (h + 1) + 1
      /\ \A i \in 1 .. n - (h + 1) + 1 : cpu[i] = model.nodes[h + 1 + i - 1]
  <2>1. h + 1 \in 1 .. n + 1 /\ n \in (h + 1 - 1) .. n
    BY <1>2
  <2> QED BY <1>1, <2>1, Sliced
<1> HIDE DEF gpu, cpu
<1> DEFINE cut == Cut(gpu, cpu)
           G == Part(gpu, InputNames, cut)
           C == Part(cpu, cut, {Output})
<1>5. /\ G.inputs = InputNames /\ G.outputs = cut /\ C.inputs = cut /\ C.outputs = {Output}
  BY DEF Part
<1>6. /\ InputNames \subseteq Computed(G, InputNames, Initializers)
      /\ \A i \in 1 .. h : model.nodes[i].out \in Computed(G, InputNames, Initializers)
  <2> DEFINE lo == 1
  <2>1. /\ lo \in 1 .. n /\ h \in lo .. n /\ Len(gpu) = h - lo + 1 /\ DOMAIN gpu = 1 .. h - lo + 1
        /\ \A i \in 1 .. h - lo + 1 : gpu[i] = model.nodes[lo + i - 1]
    <3>1. h - lo + 1 = h /\ \A i \in 1 .. h : lo + i - 1 = i
      BY <1>2
    <3> QED BY <1>2, <1>3, <3>1
  <2>2. \A i \in lo .. h : \A x \in Range(model.nodes[i].ins) :
            \/ x \in Initializers \/ x \in InputNames
            \/ \E k \in lo .. i - 1 : model.nodes[k].out = x
    <3>1. \A i \in 1 .. h : i \in 1 .. n
      BY <1>2
    <3> QED BY <1>1, <3>1
  <2> HIDE DEF lo, cut
  <2>3. /\ InputNames \subseteq Computed(G, InputNames, Initializers)
        /\ \A i \in lo .. h : model.nodes[i].out \in Computed(G, InputNames, Initializers)
    BY <1>1, <2>1, <2>2, PartComputes
  <2> QED BY <2>3 DEF lo
<1>7. OutputsOf(gpu) = {model.nodes[i].out : i \in 1 .. h}
  BY <1>3 DEF OutputsOf, Range
<1>8. cut \subseteq Computed(G, InputNames, Initializers)
  BY <1>6, <1>7 DEF Cut
<1>9. \A i \in h + 1 .. n : Range(model.nodes[i].ins) \subseteq Consumed(cpu)
  <2> SUFFICES ASSUME NEW i \in h + 1 .. n PROVE model.nodes[i] \in Range(cpu)
    BY DEF Consumed
  <2>1. i - h \in 1 .. n - (h + 1) + 1 /\ h + 1 + (i - h) - 1 = i
    BY <1>2
  <2>2. cpu[i - h] = model.nodes[i] /\ i - h \in DOMAIN cpu
    BY <1>4, <2>1
  <2> QED BY <2>2 DEF Range
<1>10. ASSUME NEW i \in h + 1 .. n, NEW x \in Range(model.nodes[i].ins)
       PROVE  \/ x \in Initializers \/ x \in cut
              \/ \E k \in h + 1 .. i - 1 : model.nodes[k].out = x
  <2>1. x \in Consumed(cpu)
    BY <1>9
  <2>2. \/ x \in Initializers \/ x \in InputNames
        \/ \E k \in 1 .. i - 1 : model.nodes[k].out = x
    BY <1>1, <1>2
  <2>3. CASE x \in InputNames
    BY <2>1, <2>3 DEF Cut
  <2>4. CASE \E k \in 1 .. i - 1 : model.nodes[k].out = x
    <3>1. PICK k \in 1 .. i - 1 : model.nodes[k].out = x
      BY <2>4
    <3>2. CASE k \in 1 .. h
      BY <1>7, <2>1, <3>1, <3>2 DEF Cut
    <3>3. CASE k \in h + 1 .. i - 1
      BY <3>1, <3>3
    <3> QED BY <1>2, <3>2, <3>3
  <2> QED BY <2>2, <2>3, <2>4
<1>11. Output \in Computed(C, cut, Initializers)
  <2>1. /\ h + 1 \in 1 .. n /\ n \in h + 1 .. n
    BY <1>2
  <2> HIDE DEF cut
  <2> DEFINE lo == h + 1
  <2>2. \A i \in lo .. n : \A x \in Range(model.nodes[i].ins) :
            \/ x \in Initializers \/ x \in cut
            \/ \E k \in lo .. i - 1 : model.nodes[k].out = x
    BY <1>10
  <2> HIDE DEF lo
  <2>3. \A i \in lo .. n : model.nodes[i].out \in Computed(C, cut, Initializers)
    <3>1. /\ lo \in 1 .. n /\ n \in lo .. n
          /\ Len(cpu) = n - lo + 1 /\ DOMAIN cpu = 1 .. n - lo + 1
          /\ \A i \in 1 .. n - lo + 1 : cpu[i] = model.nodes[lo + i - 1]
      BY <1>4, <2>1 DEF lo
    <3> QED BY <1>1, <2>2, <3>1, PartComputes
  <2> QED BY <1>1, <2>1, <2>3 DEF lo
<1> HIDE DEF cut, G, C
<1>12. Sound(G, InputNames) /\ Sound(C, cut)
  BY <1>5, <1>8, <1>11 DEF Sound
<1> QED BY <1>1, <1>12 DEF cut, G, C, gpu, cpu, h

\* What is left to run gets it right; what is on the disk is what was dumped.
Computing ==
  /\ stage = "offload" =>
       \/ \E p : parts = <<p>> /\ p.outputs = {Output} /\ Sound(p, held)
       \/ \E g, c : /\ parts = <<g, c>> /\ Sound(g, held)
                    /\ c.outputs = {Output} /\ Sound(c, g.outputs)
  /\ stage = "swap" => disk = dump_weights_to_disk
  /\ BaselinesComputeModel

\* A split into any number of parts computes what the model computes.
LEMMA SplitComputes ==
  ASSUME ModelKept, Split
  PROVE  Computing'
<1>1. /\ stage = "parse" /\ stage' = "offload" /\ held' = InputNames
      /\ job' = job /\ model' = model
  BY DEF Split, files
<1>2. PICK c \in 0 .. Len(model.nodes) + 1 : parts' = split_model(c)
  BY DEF Split
<1>3. Initializers' = Initializers /\ (\A p, f : Sound(p, f)' <=> Sound(p, f))
  BY <1>1 DEF Sound, Initializers, Computed
<1>4. Len(model.nodes) \in Nat
  BY <1>1, ModelNodes
<1>5. CASE c <= 0 \/ c >= Len(model.nodes)
  <2> DEFINE p == Part(model.nodes, InputNames, {Output})
  <2>1. parts' = <<p>> /\ p.outputs = {Output}
    BY <1>2, <1>5 DEF split_model, Part
  <2>2. Sound(p, InputNames)
    BY <1>1, WholeComputes
  <2> HIDE DEF p
  <2>3. \E q : parts' = <<q>> /\ q.outputs = {Output} /\ Sound(q, held)'
    BY <1>1, <1>3, <2>1, <2>2
  <2> QED BY <1>1, <2>3 DEF Computing, BaselinesComputeModel
<1>6. CASE ~(c <= 0 \/ c >= Len(model.nodes))
  <2> DEFINE gpu == SubSeq(model.nodes, 1, Len(model.nodes) - c)
             cpu == SubSeq(model.nodes, Len(model.nodes) - c + 1, Len(model.nodes))
             G == Part(gpu, InputNames, Cut(gpu, cpu))
             C == Part(cpu, Cut(gpu, cpu), {Output})
  <2>1. /\ parts' = <<G, C>> /\ C.outputs = {Output} /\ G.outputs = Cut(gpu, cpu)
    BY <1>2, <1>6 DEF split_model, Part
  <2>2. Sound(G, InputNames) /\ Sound(C, Cut(gpu, cpu))
    <3>1. c \in Nat /\ c \in 1 .. Len(model.nodes) - 1
      BY <1>4, <1>6
    <3> QED BY <1>1, <3>1, HalvesCompute
  <2> HIDE DEF G, C
  <2>3. \E g, k : /\ parts' = <<g, k>> /\ Sound(g, held)'
                  /\ k.outputs = {Output} /\ Sound(k, g.outputs)'
    BY <1>1, <1>3, <2>1, <2>2
  <2> QED BY <1>1, <2>3 DEF Computing, BaselinesComputeModel
<1> QED BY <1>5, <1>6

\* Running the next part leaves its outputs in the tensors fed forward.
LEMMA RunPartComputes ==
  ASSUME Computing, RunPart
  PROVE  Computing'
<1>1. stage = "offload" /\ job' = job /\ model' = model
  BY DEF RunPart, files
<1>2. Initializers' = Initializers /\ (\A p, f : Sound(p, f)' <=> Sound(p, f))
  BY <1>1 DEF Sound, Initializers, Computed
<1>3. CASE \E p : parts = <<p>> /\ p.outputs = {Output} /\ Sound(p, held)
  <2>1. PICK p : parts = <<p>> /\ p.outputs = {Output} /\ Sound(p, held)
    BY <1>3
  <2>2. Head(parts) = p /\ Tail(parts) = <<>>
    BY <2>1
  <2>3. held' = {Output} /\ stage' = "offloaded"
    BY <2>1, <2>2 DEF RunPart, Sound
  <2> QED BY <2>3 DEF Computing, BaselinesComputeModel
<1>4. CASE \E g, c : /\ parts = <<g, c>> /\ Sound(g, held)
                     /\ c.outputs = {Output} /\ Sound(c, g.outputs)
  <2>1. PICK g, c : /\ parts = <<g, c>> /\ Sound(g, held)
                    /\ c.outputs = {Output} /\ Sound(c, g.outputs)
    BY <1>4
  <2>2. Head(parts) = g /\ Tail(parts) = <<c>> /\ Tail(parts) # <<>>
    BY <2>1
  <2>3. held' = g.outputs /\ stage' = "offload" /\ parts' = <<c>>
    BY <1>1, <2>1, <2>2 DEF RunPart, Sound
  <2>4. \E q : parts' = <<q>> /\ q.outputs = {Output} /\ Sound(q, held)'
    BY <1>2, <2>1, <2>3
  <2> QED BY <2>3, <2>4 DEF Computing, BaselinesComputeModel
<1> QED BY <1>1, <1>3, <1>4 DEF Computing

\* Running a node from disk reads the weights that were dumped there.
LEMMA RunSwappedComputes ==
  ASSUME ModelKept, Computing, RunSwapped
  PROVE  Computing'
<1>1. /\ stage = "swap" /\ stage' = "swapped" /\ job' = job /\ model' = model
      /\ disk = dump_weights_to_disk
  BY DEF RunSwapped, files, Computing
<1> DEFINE loaded == {t \in Initializers : disk[FileOf(t)] = t}
           whole  == Part(model.nodes, InputNames, {Output})
           clash  == \E s, t \in Initializers : s # t /\ FileOf(s) = FileOf(t)
<1>2. held' = Computed(whole, InputNames, loaded) \cap whole.outputs
  BY DEF RunSwapped
<1>3. ~clash => loaded = Initializers
  <2> SUFFICES ASSUME ~clash, NEW t \in Initializers PROVE disk[FileOf(t)] = t
    OBVIOUS
  <2>1. disk[FileOf(t)] = CHOOSE s \in Initializers : FileOf(s) = FileOf(t)
    BY <1>1 DEF dump_weights_to_disk
  <2> QED BY <2>1
<1>4. Sound(whole, InputNames) /\ whole.outputs = {Output}
  BY <1>1, WholeComputes DEF Part
<1> HIDE DEF loaded, whole
<1>5. ~clash => Output \in held'
  BY <1>2, <1>3, <1>4 DEF Sound
<1>6. clash' <=> clash
  BY <1>1 DEF Initializers, FileOf
<1> QED BY <1>1, <1>5, <1>6 DEF Computing, BaselinesComputeModel

\* The other steps are not the baselines'.
LEMMA OtherComputes ==
  ASSUME [Next]_vars, ~Split, ~RunPart, ~DumpWeights, ~RunSwapped
  PROVE  /\ UNCHANGED <<parts, held, disk>>
         /\ stage' \in {"offload", "swap", "offloaded", "swapped"} => stage' = stage
<1>1. CASE UNCHANGED vars
  BY <1>1 DEF vars, baselines
<1>2. CASE Place /\ UNCHANGED <<lw, training, runtime, baselines>>
  BY <1>2 DEF Place, Generate, Parse, SolveStart, SolveFirst, SolveLayer, SolveEnd, Backtrack,
              WriteManifest, Fail, files, baselines
<1>3. CASE Lower /\ UNCHANGED <<solver, runtime, baselines>>
  BY <1>3 DEF Lower, LowerStart, LowerStep, LowerRaise, Lowered, WriteDoc, WriteImage,
              WriteVectors, LowerDies, Retrain, Fail, Errors, files, baselines
<1>4. CASE Run /\ UNCHANGED <<solver, lw, training, baselines>>
  BY <1>4 DEF Run, Start, Prepare, PrepareFails, BeginIteration, RunOneLayer, LinkFails,
              ReadOutput, Compare, Exit, files, baselines
<1>5. CASE ProfileNode \/ ProfileEnd
  BY <1>5 DEF ProfileNode, ProfileEnd, files, baselines
<1> QED BY <1>1, <1>2, <1>3, <1>4, <1>5 DEF Next, Baseline

\* Every step keeps the invariant of the baselines.
LEMMA ComputingStep ==
  ASSUME ModelKept, Computing, [Next]_vars
  PROVE  Computing'
<1>1. CASE Split
  BY <1>1, SplitComputes
<1>2. CASE RunPart
  BY <1>2, RunPartComputes
<1>3. CASE DumpWeights
  <2>1. /\ stage' = "swap" /\ disk' = dump_weights_to_disk
        /\ dump_weights_to_disk' = dump_weights_to_disk
    BY <1>3 DEF DumpWeights, files, dump_weights_to_disk, FileOf, Initializers
  <2> QED BY <2>1 DEF Computing, BaselinesComputeModel
<1>4. CASE RunSwapped
  BY <1>4, RunSwappedComputes
<1>5. CASE ~Split /\ ~RunPart /\ ~DumpWeights /\ ~RunSwapped
  <2>1. /\ UNCHANGED <<parts, held, disk>>
        /\ stage' \in {"offload", "swap", "offloaded", "swapped"} => stage' = stage
    BY <1>5, OtherComputes
  <2>2. CASE stage' \in {"offload", "swap", "offloaded", "swapped"}
    <3>1. stage = stage' /\ stage # "generate"
      BY <2>1, <2>2
    <3>2. job' = job /\ model' = model
      <4>1. CASE UNCHANGED vars
        BY <4>1 DEF vars, files
      <4>2. CASE Next
        BY <3>1, <4>2, ModelStep
      <4> QED BY <4>1, <4>2
    <3>3. /\ Initializers' = Initializers /\ dump_weights_to_disk' = dump_weights_to_disk
          /\ (\A p, f : Sound(p, f)' <=> Sound(p, f)) /\ (\A t : FileOf(t)' = FileOf(t))
      BY <3>2 DEF Sound, Initializers, Computed, dump_weights_to_disk, FileOf
    <3> QED BY <2>1, <3>1, <3>3 DEF Computing, BaselinesComputeModel
  <2>3. CASE stage' \notin {"offload", "swap", "offloaded", "swapped"}
    BY <2>3 DEF Computing, BaselinesComputeModel
  <2> QED BY <2>2, <2>3
<1> QED BY <1>1, <1>2, <1>3, <1>4, <1>5

\* Wherever the graph is cut, and from whatever files the weights come back,
\* the baselines compute the model (jetson_cpu_offload.py, jetson_disk_swap.py).
THEOREM BaselinesTheorem == Spec => []BaselinesComputeModel
<1>1. Init => ModelKept /\ Computing
  BY ModelInit DEF Init, PlacementInit, Computing, BaselinesComputeModel
<1>2. (ModelKept /\ Computing) /\ [Next]_vars => (ModelKept /\ Computing)'
  BY ModelKeeps, ComputingStep
<1>3. Computing => BaselinesComputeModel
  BY DEF Computing
<1> QED BY <1>1, <1>2, <1>3, PTL DEF Spec

=============================================================================
