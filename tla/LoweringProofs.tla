-------------------------- MODULE LoweringProofs --------------------------
(***************************************************************************)
(* LayoutFits as a theorem, for any models the generators build and any    *)
(* manifest: in every program lowering writes, the regions of the DDR2     *)
(* window two records name do not overlap, except where the streaming      *)
(* slots take turns, and all end below the end of the memory.              *)
(***************************************************************************)
EXTENDS BaselinesProofs

-----------------------------------------------------------------------------
(***************************************************************************)
(* Lists and the elements selected from them.                              *)
(***************************************************************************)
\* u is what Select computes on the way to the n-th element.
IsSelect(u, s, S, n) ==
  u = [i \in 0 .. n |-> IF i = 0 THEN <<>>
                        ELSE IF s[i] \in S THEN Append(u[i - 1], s[i]) ELSE u[i - 1]]

\* It has a value for every number of elements.
LEMMA SelectExists ==
  ASSUME NEW s, NEW S
  PROVE  \A n \in Nat : \E u : IsSelect(u, s, S, n)
<1> DEFINE D == {n \in Nat : \E u : IsSelect(u, s, S, n)}
           Step(before, i) == IF s[i] \in S THEN Append(before, s[i]) ELSE before
<1>1. 0 \in D
  <2>1. IsSelect([i \in 0 .. 0 |-> <<>>], s, S, 0)
    BY DEF IsSelect
  <2> QED BY <2>1
<1>2. ASSUME NEW n \in Nat, n \in D PROVE n + 1 \in D
  <2>1. PICK u : IsSelect(u, s, S, n)
    BY <1>2
  <2> DEFINE q == [i \in 0 .. n + 1 |-> IF i <= n THEN u[i] ELSE Step(u[n], n + 1)]
  <2>2. ASSUME NEW i \in 0 .. n + 1
        PROVE  q[i] = IF i = 0 THEN <<>> ELSE Step(q[i - 1], i)
    <3>1. CASE i = n + 1
      <4>1. q[i] = Step(u[n], n + 1) /\ q[i - 1] = u[n] /\ i # 0
        BY <3>1
      <4> HIDE DEF q, Step
      <4> QED BY <4>1, <3>1
    <3>2. CASE i # n + 1
      <4>1. i \in 0 .. n /\ q[i] = u[i] /\ (i # 0 => q[i - 1] = u[i - 1])
        BY <3>2
      <4>2. u[i] = IF i = 0 THEN <<>> ELSE Step(u[i - 1], i)
        BY <2>1, <4>1 DEF IsSelect
      <4> HIDE DEF q, Step
      <4> QED BY <4>1, <4>2
    <3> QED BY <3>1, <3>2
  <2>3. IsSelect(q, s, S, n + 1)
    BY <2>2 DEF IsSelect
  <2> QED BY <2>3
<1> HIDE DEF D
<1>3. \A n \in Nat : n \in D
  BY <1>1, <1>2, Induction
<1> QED BY <1>3 DEF D

\* A step of it.
LEMMA SelectStep ==
  ASSUME NEW u, NEW s, NEW S, NEW n \in Nat, IsSelect(u, s, S, n), NEW i \in Nat, i + 1 <= n
  PROVE  /\ s[i + 1] \in S => u[i + 1] = Append(u[i], s[i + 1])
         /\ s[i + 1] \notin S => u[i + 1] = u[i]
<1> DEFINE j == i + 1
<1>1. j \in 0 .. n /\ j # 0 /\ j - 1 = i
  OBVIOUS
<1> HIDE DEF j
<1>2. u[j] = IF s[j] \in S THEN Append(u[j - 1], s[j]) ELSE u[j - 1]
  BY <1>1 DEF IsSelect
<1>3. /\ s[j] \in S => u[j] = Append(u[i], s[j])
      /\ s[j] \notin S => u[j] = u[i]
  BY <1>1, <1>2
<1> QED BY <1>3 DEF j

\* The length and the domain of a list.
LEMMA LenListed ==
  ASSUME NEW n \in Nat, NEW a, Listed(a, n)
  PROVE  Len(a) = n /\ DOMAIN a = 1 .. n
<1>1. Len(a) = n
  BY Appended
<1> QED BY <1>1 DEF Listed

\* Select is the last value of its recursion.
LEMMA SelectIs ==
  ASSUME NEW s, NEW S, NEW n \in Nat, Len(s) = n
  PROVE  \E u : IsSelect(u, s, S, n) /\ Select(s, S) = u[n]
<1> DEFINE u == CHOOSE u : IsSelect(u, s, S, n)
<1>1. IsSelect(u, s, S, n)
  BY SelectExists
<1>2. Select(s, S) = u[n]
  BY DEF Select, IsSelect
<1> QED BY <1>1, <1>2

\* The selection from a list that starts like another starts like the other's.
LEMMA SelectSame ==
  ASSUME NEW s, NEW S, NEW r, NEW R, NEW n \in Nat, NEW u, NEW v,
         NEW k \in Nat, NEW l \in Nat, n <= k, n <= l,
         IsSelect(u, s, S, k), IsSelect(v, r, R, l),
         \A i \in 1 .. n : s[i] = r[i] /\ (s[i] \in S <=> r[i] \in R)
  PROVE  u[n] = v[n]
<1> DEFINE D == {i \in Nat : i <= n => u[i] = v[i]}
<1>1. 0 \in D
  BY DEF IsSelect
<1>2. ASSUME NEW i \in Nat, i \in D PROVE i + 1 \in D
  <2> SUFFICES ASSUME i + 1 <= n PROVE u[i + 1] = v[i + 1]
    OBVIOUS
  <2>1. i + 1 \in 1 .. n /\ i + 1 <= k /\ i + 1 <= l
    OBVIOUS
  <2>2. /\ s[i + 1] \in S => u[i + 1] = Append(u[i], s[i + 1])
        /\ s[i + 1] \notin S => u[i + 1] = u[i]
    BY <2>1, SelectStep
  <2>3. /\ r[i + 1] \in R => v[i + 1] = Append(v[i], r[i + 1])
        /\ r[i + 1] \notin R => v[i + 1] = v[i]
    BY <2>1, SelectStep
  <2>4. u[i] = v[i]
    BY <1>2
  <2> QED BY <2>1, <2>2, <2>3, <2>4
<1> HIDE DEF D
<1>3. n \in D
  BY <1>1, <1>2, Induction
<1> QED BY <1>3 DEF D

\* One element more is selected or not.
Alike(s, n, S, T) == \A i \in 1 .. n : s[i] \in S <=> s[i] \in T

\* An element more is selected or not, the rest selected as before.
LEMMA SelectAppend ==
  ASSUME NEW s, NEW S, NEW T, NEW n \in Nat, NEW x, Listed(s, n), Alike(s, n, S, T)
  PROVE  Select(Append(s, x), T) = IF x \in T THEN Append(Select(s, S), x) ELSE Select(s, S)
<1> DEFINE a == Append(s, x)
<1>1. /\ Len(s) = n /\ Listed(a, n + 1) /\ \A i \in 1 .. n : a[i] = s[i]
      /\ a[n + 1] = x
  BY Appended
<1> HIDE DEF a
<1>2. Len(a) = n + 1
  BY <1>1, LenListed
<1>3. PICK u : IsSelect(u, s, S, n) /\ Select(s, S) = u[n]
  BY <1>1, SelectIs
<1>4. PICK v : IsSelect(v, a, T, n + 1) /\ Select(a, T) = v[n + 1]
  BY <1>2, SelectIs
<1>5. u[n] = v[n]
  <2>1. \A i \in 1 .. n : s[i] = a[i] /\ (s[i] \in S <=> a[i] \in T)
    BY <1>1 DEF Alike
  <2>2. n <= n + 1 /\ n + 1 \in Nat
    OBVIOUS
  <2> QED BY <1>3, <1>4, <2>1, <2>2, SelectSame
<1>6. /\ a[n + 1] \in T => v[n + 1] = Append(v[n], a[n + 1])
      /\ a[n + 1] \notin T => v[n + 1] = v[n]
  BY <1>4, SelectStep
<1> QED BY <1>1, <1>3, <1>4, <1>5, <1>6 DEF a

\* What is selected are elements that are to be.
LEMMA SelectRange ==
  ASSUME NEW s, NEW S, NEW n \in Nat, Listed(s, n)
  PROVE  \E k \in Nat : /\ Listed(Select(s, S), k)
                        /\ \A i \in 1 .. k : /\ Select(s, S)[i] \in S
                                             /\ \E j \in 1 .. n : Select(s, S)[i] = s[j]
<1>1. Len(s) = n
  BY Appended
<1>2. PICK u : IsSelect(u, s, S, n) /\ Select(s, S) = u[n]
  BY <1>1, SelectIs
<1> DEFINE Good(q) == \E k \in Nat : /\ Listed(q, k)
                                     /\ \A i \in 1 .. k : /\ q[i] \in S
                                                          /\ \E j \in 1 .. n : q[i] = s[j]
           D == {i \in Nat : i <= n => Good(u[i])}
<1>3. 0 \in D
  <2>1. u[0] = <<>>
    BY <1>2 DEF IsSelect
  <2>2. Listed(u[0], 0) /\ 0 \in Nat
    BY <2>1 DEF Listed
  <2> QED BY <2>2
<1>4. ASSUME NEW i \in Nat, i \in D PROVE i + 1 \in D
  <2> SUFFICES ASSUME i + 1 <= n PROVE Good(u[i + 1])
    OBVIOUS
  <2>1. i + 1 \in 1 .. n
    OBVIOUS
  <2>2. /\ s[i + 1] \in S => u[i + 1] = Append(u[i], s[i + 1])
        /\ s[i + 1] \notin S => u[i + 1] = u[i]
    BY <1>2, <2>1, SelectStep
  <2>3. Good(u[i])
    BY <1>4
  <2>4. CASE s[i + 1] \in S
    <3>1. PICK k \in Nat : /\ Listed(u[i], k)
                           /\ \A l \in 1 .. k : /\ u[i][l] \in S
                                                /\ \E j \in 1 .. n : u[i][l] = s[j]
      BY <2>3
    <3> DEFINE q == Append(u[i], s[i + 1])
    <3>2. /\ Listed(q, k + 1) /\ q[k + 1] = s[i + 1]
          /\ \A l \in 1 .. k : q[l] = u[i][l]
      BY SMTT(30), <3>1, Appended
    <3> HIDE DEF q
    <3>3. \A l \in 1 .. k + 1 : /\ q[l] \in S
                                /\ \E j \in 1 .. n : q[l] = s[j]
      <4> SUFFICES ASSUME NEW l \in 1 .. k + 1
                   PROVE  q[l] \in S /\ \E j \in 1 .. n : q[l] = s[j]
        OBVIOUS
      <4>1. CASE l = k + 1
        BY <2>1, <2>4, <3>2, <4>1
      <4>2. CASE l \in 1 .. k
        BY <3>1, <3>2, <4>2
      <4> QED BY <4>1, <4>2
    <3>4. k + 1 \in Nat
      OBVIOUS
    <3>5. Good(q)
      BY <3>2, <3>3, <3>4
    <3>6. u[i + 1] = q
      BY <2>2, <2>4 DEF q
    <3> HIDE DEF Good
    <3> QED BY <3>5, <3>6
  <2>5. CASE s[i + 1] \notin S
    <3> HIDE DEF Good
    <3> QED BY <2>2, <2>3, <2>5
  <2> QED BY <2>4, <2>5
<1> HIDE DEF D
<1>5. n \in D
  BY <1>3, <1>4, Induction
<1> QED BY <1>2, <1>5 DEF D

-----------------------------------------------------------------------------
(***************************************************************************)
(* The model being lowered.                                                *)
(***************************************************************************)
\* The parameters of its form, as one record.
Shape(g) == Form(model, g.pre, g.n, g.t, g.first, g.act, g.d, g.rows, g.cols)

GatherNode(k) ==
  Node("Gather", k, <<<<"emb_table", k>>, <<"emb_idx", k>>>>, <<"emb_out", k>>)
ConcatNode(t) ==
  Node("Concat", 0, [k \in 1 .. t + 1 |-> IF k <= t THEN <<"emb_out", k>> ELSE Dense], ConcatOut)

\* Every model the generators build has a shape.
LEMMA ShapeExists ==
  ASSUME ModelKept, stage # "generate"
  PROVE  \E g : Shape(g)
<1>1. PICK pre, n, t, first, act, d, rows, cols :
         Form(model, pre, n, t, first, act, d, rows, cols)
  BY ModelForm
<1> DEFINE g == [pre |-> pre, n |-> n, t |-> t, first |-> first, act |-> act, d |-> d,
                 rows |-> rows, cols |-> cols]
<1>2. Shape(g)
  BY <1>1 DEF Shape
<1> QED BY <1>2

\* The numbers of a form.
LEMMA ShapeNumbers ==
  ASSUME NEW g, Shape(g)
  PROVE  /\ g.n \in Nat /\ g.n >= 1 /\ g.t \in Nat /\ g.pre \in Nat
         /\ g.t > 0 => g.pre = g.t + 1
         /\ g.t = 0 => g.pre \in {0, 1}
         /\ \A j \in 1 .. g.n + 1 : g.d[j] \in Nat /\ g.d[j] >= 1
         /\ g.rows \in Nat /\ g.rows >= 1 /\ g.cols \in Nat /\ g.cols >= 1
         /\ DOMAIN model.nodes = 1 .. g.pre + 3 * g.n /\ Len(model.nodes) = g.pre + 3 * g.n
         /\ \A j \in 1 .. g.n : /\ model.shape[<<"w", j>>] = <<g.d[j], g.d[j + 1]>>
                                /\ <<"w", j>> \in DOMAIN model.shape
                                /\ <<"b", j>> \in DOMAIN model.shape
         /\ \A k \in 1 .. g.t : model.shape[<<"emb_table", k>>] = <<g.rows, g.cols>>
<1>1. g.n \in Nat /\ g.n >= 1 /\ g.t \in Nat /\ g.pre \in Nat
  BY DEF Shape, Form, StartForm, Positive
<1>2. (g.t > 0 => g.pre = g.t + 1) /\ (g.t = 0 => g.pre \in {0, 1})
  BY DEF Shape, Form, StartForm, Positive
<1>3. g.rows \in Nat /\ g.rows >= 1 /\ g.cols \in Nat /\ g.cols >= 1
  BY DEF Shape, Form, WeightForm, Positive
<1>4. g.d \in [1 .. g.n + 1 -> Positive]
  BY DEF Shape, Form, WeightForm
<1>5. \A j \in 1 .. g.n + 1 : g.d[j] \in Nat /\ g.d[j] >= 1
  <2>1. \A j \in 1 .. g.n + 1 : g.d[j] \in Positive
    BY <1>4
  <2>2. \A x \in Positive : x \in Nat /\ x >= 1
    BY DEF Positive
  <2> QED BY <2>1, <2>2
<1>6. Listed(model.nodes, g.pre + 3 * g.n)
  BY DEF Shape, Form
<1>7. DOMAIN model.nodes = 1 .. g.pre + 3 * g.n /\ Len(model.nodes) = g.pre + 3 * g.n
  <2>1. g.pre + 3 * g.n \in Nat
    BY <1>1
  <2> QED BY <1>6, <2>1, LenListed
<1>8. /\ \A j \in 1 .. g.n : /\ model.shape[<<"w", j>>] = <<g.d[j], g.d[j + 1]>>
                             /\ <<"w", j>> \in DOMAIN model.shape
                             /\ <<"b", j>> \in DOMAIN model.shape
      /\ \A k \in 1 .. g.t : model.shape[<<"emb_table", k>>] = <<g.rows, g.cols>>
  BY DEF Shape, Form, WeightForm
<1> QED BY <1>1, <1>2, <1>3, <1>5, <1>7, <1>8

\* The six kinds of node.
LEMMA NodeForms ==
  ASSUME NEW g, Shape(g), NEW i \in 1 .. g.pre + 3 * g.n
  PROVE  LET n == model.nodes[i] IN
         \/ g.t = 0 /\ g.pre = 1 /\ i = 1 /\ n = Node("Flatten", 0, <<Dense>>, g.first)
         \/ /\ g.t > 0 /\ i \in 1 .. g.t /\ n = GatherNode(i)
         \/ /\ g.t > 0 /\ i = g.t + 1 /\ n = ConcatNode(g.t)
         \/ \E j \in 1 .. g.n : i = g.pre + 3 * j - 2 /\ n = MatMulNode(j, g.first)
         \/ \E j \in 1 .. g.n : i = g.pre + 3 * j - 1 /\ n = AddNode(j)
         \/ \E j \in 1 .. g.n : i = g.pre + 3 * j /\ n = LastNode(j, g.n, g.act)
<1> DEFINE n == model.nodes[i]
<1>0. i \in DOMAIN model.nodes
  BY ShapeNumbers
<1>1. Form(model, g.pre, g.n, g.t, g.first, g.act, g.d, g.rows, g.cols)
  BY DEF Shape
<1>2. \/ g.t = 0 /\ g.pre = 1 /\ i = 1 /\ n = Node("Flatten", 0, <<Dense>>, g.first)
      \/ /\ g.t \in Positive /\ i \in 1 .. g.t
         /\ n = Node("Gather", i, <<<<"emb_table", i>>, <<"emb_idx", i>>>>, <<"emb_out", i>>)
      \/ /\ g.t \in Positive /\ i = g.t + 1
         /\ n = Node("Concat", 0, [k \in 1 .. g.t + 1 |->
                              IF k <= g.t THEN <<"emb_out", k>> ELSE Dense], ConcatOut)
      \/ \E j \in 1 .. g.n : i = g.pre + 3 * j - 2 /\ n = MatMulNode(j, g.first)
      \/ \E j \in 1 .. g.n : i = g.pre + 3 * j - 1 /\ n = AddNode(j)
      \/ \E j \in 1 .. g.n : i = g.pre + 3 * j /\ n = LastNode(j, g.n, g.act)
  BY <1>0, <1>1, NodeCases
<1>3. g.t \in Positive => g.t > 0
  BY DEF Positive
<1> HIDE DEF n
<1>4. \/ g.t = 0 /\ g.pre = 1 /\ i = 1 /\ n = Node("Flatten", 0, <<Dense>>, g.first)
      \/ /\ g.t > 0 /\ i \in 1 .. g.t /\ n = GatherNode(i)
      \/ /\ g.t > 0 /\ i = g.t + 1 /\ n = ConcatNode(g.t)
      \/ \E j \in 1 .. g.n : i = g.pre + 3 * j - 2 /\ n = MatMulNode(j, g.first)
      \/ \E j \in 1 .. g.n : i = g.pre + 3 * j - 1 /\ n = AddNode(j)
      \/ \E j \in 1 .. g.n : i = g.pre + 3 * j /\ n = LastNode(j, g.n, g.act)
  BY <1>2, <1>3 DEF GatherNode, ConcatNode
<1> QED BY <1>4 DEF n

\* Which nodes are gathers, concats and matrix products.
LEMMA Kinds ==
  ASSUME NEW g, Shape(g), NEW i \in 1 .. g.pre + 3 * g.n
  PROVE  LET n == model.nodes[i] IN
         /\ n.op = "Gather" => g.t > 0 /\ i \in 1 .. g.t /\ n = GatherNode(i)
         /\ n.op = "Concat" => g.t > 0 /\ i = g.t + 1 /\ n = ConcatNode(g.t)
         /\ n.op = "MatMul" => \E j \in 1 .. g.n : i = g.pre + 3 * j - 2 /\ n = MatMulNode(j, g.first)
         /\ g.t > 0 /\ i <= g.t => n.op = "Gather"
         /\ g.t > 0 /\ i = g.t + 1 => n.op = "Concat"
         /\ \A j \in 1 .. g.n : i = g.pre + 3 * j - 2 => n.op = "MatMul"
<1> DEFINE n == model.nodes[i]
<1>1. /\ i \in DOMAIN model.nodes /\ g.t \in Nat /\ g.pre \in Nat /\ g.n \in Nat
      /\ (g.t > 0 => g.pre = g.t + 1)
  BY ShapeNumbers
<1>2. \/ g.t = 0 /\ g.pre = 1 /\ i = 1 /\ n = Node("Flatten", 0, <<Dense>>, g.first)
      \/ /\ g.t > 0 /\ i \in 1 .. g.t /\ n = GatherNode(i)
      \/ /\ g.t > 0 /\ i = g.t + 1 /\ n = ConcatNode(g.t)
      \/ \E j \in 1 .. g.n : i = g.pre + 3 * j - 2 /\ n = MatMulNode(j, g.first)
      \/ \E j \in 1 .. g.n : i = g.pre + 3 * j - 1 /\ n = AddNode(j)
      \/ \E j \in 1 .. g.n : i = g.pre + 3 * j /\ n = LastNode(j, g.n, g.act)
  BY NodeForms
<1>3. g.act \notin {"Gather", "Concat", "MatMul"}
  BY DEF Shape, Form
<1> HIDE DEF n
<1>4. CASE g.t = 0 /\ g.pre = 1 /\ i = 1 /\ n = Node("Flatten", 0, <<Dense>>, g.first)
  <2>1. n.op = "Flatten"
    BY <1>4 DEF Node
  <2> QED BY <1>1, <1>4, <2>1 DEF n
<1>5. CASE g.t > 0 /\ i \in 1 .. g.t /\ n = GatherNode(i)
  <2>1. n.op = "Gather"
    BY <1>5 DEF GatherNode, Node
  <2> QED BY <1>1, <1>5, <2>1 DEF n
<1>6. CASE g.t > 0 /\ i = g.t + 1 /\ n = ConcatNode(g.t)
  <2>1. n.op = "Concat"
    BY <1>6 DEF ConcatNode, Node
  <2> QED BY <1>1, <1>6, <2>1 DEF n
<1>7. CASE \E j \in 1 .. g.n : i = g.pre + 3 * j - 2 /\ n = MatMulNode(j, g.first)
  <2>1. n.op = "MatMul"
    BY <1>7 DEF MatMulNode, Node
  <2> QED BY <1>1, <1>7, <2>1 DEF n
<1>8. CASE \E j \in 1 .. g.n : i = g.pre + 3 * j - 1 /\ n = AddNode(j)
  <2>1. n.op = "Add"
    BY <1>8 DEF AddNode, Node
  <2> QED BY <1>1, <1>8, <2>1 DEF n
<1>9. CASE \E j \in 1 .. g.n : i = g.pre + 3 * j /\ n = LastNode(j, g.n, g.act)
  <2>1. n.op \notin {"Gather", "Concat", "MatMul"}
    BY <1>3, <1>9 DEF LastNode, Node
  <2> QED BY <1>1, <1>9, <2>1 DEF n
<1> QED BY <1>2, <1>4, <1>5, <1>6, <1>7, <1>8, <1>9

-----------------------------------------------------------------------------
(***************************************************************************)
(* Numbers.                                                                *)
(***************************************************************************)
LEMMA PadIs ==
  ASSUME NEW x \in Nat
  PROVE  /\ pad16(x) \in Nat /\ pad16(x) % 16 = 0 /\ x <= pad16(x) /\ pad16(x) < x + 16
         /\ x % 16 = 0 => pad16(x) = x
         /\ x >= 1 => pad16(x) >= 16
BY DEF pad16

\* Padding after an aligned address.
LEMMA PadPlus ==
  ASSUME NEW x \in Nat, x % 16 = 0, NEW y \in Nat
  PROVE  pad16(x + y) = x + pad16(y)
BY DEF pad16

\* A product of positive multiples of 16 is one.
LEMMA PadTimes ==
  ASSUME NEW x \in Nat, NEW y \in Nat, x >= 1, y >= 1
  PROVE  LET p == pad16(x) * pad16(y) IN p \in Nat /\ p >= 1 /\ p % 16 = 0
<1>1. PICK a \in Nat : pad16(x) = 16 * a /\ a >= 1
  <2>1. (x + 15) \div 16 \in Nat /\ (x + 15) \div 16 >= 1 /\ pad16(x) = 16 * ((x + 15) \div 16)
    BY DEF pad16
  <2> QED BY <2>1
<1>2. pad16(y) \in Nat /\ pad16(y) >= 1
  BY PadIs
<1>3. \A u, v \in Nat : u >= 1 /\ v >= 1 => u * v \in Nat /\ u * v >= 1 /\ (16 * u) * v = 16 * (u * v)
  OBVIOUS
<1>4. \A z \in Nat : (16 * z) % 16 = 0 /\ (z >= 1 => 16 * z >= 1) /\ 16 * z \in Nat
  OBVIOUS
<1>5. pad16(x) * pad16(y) = 16 * (a * pad16(y)) /\ a * pad16(y) \in Nat /\ a * pad16(y) >= 1
  BY <1>1, <1>2, <1>3
<1> QED BY <1>4, <1>5

\* A sum grows with the number of its terms.
LEMMA TotalGrows ==
  ASSUME NEW f, NEW n \in Nat, \A i \in 1 .. n : f[i] \in Nat
  PROVE  /\ \A b \in 0 .. n : Total(f, 1, b) \in Nat
         /\ \A a \in 0 .. n : \A b \in a .. n : Total(f, 1, a) <= Total(f, 1, b)
<1>1. ASSUME NEW b \in 0 .. n PROVE Total(f, 1, b) \in Nat
  <2>1. b \in Nat /\ \A i \in 1 .. b : f[i] \in Nat
    OBVIOUS
  <2> QED BY <2>1, TotalNat
<1>2. ASSUME NEW a \in 0 .. n
      PROVE  \A b \in a .. n : Total(f, 1, a) <= Total(f, 1, b)
  <2> DEFINE D == {k \in Nat : a + k <= n => Total(f, 1, a) <= Total(f, 1, a + k)}
  <2>1. 0 \in D
    BY <1>1
  <2>2. ASSUME NEW k \in Nat, k \in D PROVE k + 1 \in D
    <3> SUFFICES ASSUME a + (k + 1) <= n PROVE Total(f, 1, a) <= Total(f, 1, a + (k + 1))
      OBVIOUS
    <3>1. a + k \in Nat /\ a + k \in 0 .. n /\ a + (k + 1) = (a + k) + 1 /\ (a + k) + 1 \in 1 .. n
      OBVIOUS
    <3>2. Total(f, 1, (a + k) + 1) = Total(f, 1, a + k) + f[(a + k) + 1]
      BY <3>1, TotalStep
    <3>3. Total(f, 1, a) <= Total(f, 1, a + k)
      BY <2>2, <3>1
    <3>4. Total(f, 1, a) \in Nat /\ Total(f, 1, a + k) \in Nat /\ f[(a + k) + 1] \in Nat
      BY <1>1, <3>1
    <3> QED BY <3>1, <3>2, <3>3, <3>4
  <2> HIDE DEF D
  <2>3. \A k \in Nat : k \in D
    BY <2>1, <2>2, Induction
  <2> SUFFICES ASSUME NEW b \in a .. n PROVE Total(f, 1, a) <= Total(f, 1, b)
    OBVIOUS
  <2>4. b - a \in Nat /\ a + (b - a) = b /\ b <= n
    OBVIOUS
  <2> DEFINE k == b - a
  <2>5. k \in D /\ a + k = b
    BY <2>3, <2>4
  <2> QED BY <2>4, <2>5 DEF D
<1> QED BY <1>1, <1>2

\* Finitely many numbers have a largest, and Max finds it.
LEMMA MaxIs ==
  ASSUME NEW f, NEW n \in Nat, \A i \in 1 .. n : f[i] \in Nat,
         NEW S, S = {f[i] : i \in 1 .. n} \cup {0}
  PROVE  Max(S) \in Nat /\ \A i \in 1 .. n : f[i] <= Max(S)
<1>1. \A i \in 1 .. n : f[i] <= Total(f, 1, n)
  <2> SUFFICES ASSUME NEW i \in 1 .. n PROVE f[i] <= Total(f, 1, n)
    OBVIOUS
  <2>1. i - 1 \in Nat /\ i - 1 \in 0 .. n /\ i \in 0 .. n /\ (i - 1) + 1 = i /\ n \in i .. n
    OBVIOUS
  <2>2. Total(f, 1, i) = Total(f, 1, i - 1) + f[i]
    <3> DEFINE k == i - 1
    <3>1. k \in Nat /\ k + 1 = i
      BY <2>1
    <3> HIDE DEF k
    <3>2. Total(f, 1, k + 1) = Total(f, 1, k) + f[k + 1]
      BY <3>1, TotalStep
    <3> QED BY <3>1, <3>2 DEF k
  <2>3. /\ Total(f, 1, i - 1) \in Nat /\ Total(f, 1, i) \in Nat /\ Total(f, 1, n) \in Nat
        /\ Total(f, 1, i) <= Total(f, 1, n)
    <3>1. /\ \A b \in 0 .. n : Total(f, 1, b) \in Nat
          /\ \A a \in 0 .. n : \A b \in a .. n : Total(f, 1, a) <= Total(f, 1, b)
      BY TotalGrows
    <3>2. n \in 0 .. n
      OBVIOUS
    <3> QED BY <2>1, <3>1, <3>2
  <2> QED BY <2>2, <2>3
<1> DEFINE U == {b \in Nat : \A x \in S : x <= b}
<1>2. Total(f, 1, n) \in U
  <2>1. Total(f, 1, n) \in Nat
    BY TotalNat
  <2> QED BY <1>1, <2>1
<1>3. PICK b \in U : \A k \in U : b <= k
  <2>1. U \subseteq Nat /\ U # {}
    BY <1>2
  <2> HIDE DEF U
  <2> QED BY <2>1, Least
<1>4. S \subseteq Nat
  OBVIOUS
<1>5. b \in S
  <2> SUFFICES ASSUME b \notin S PROVE FALSE
    OBVIOUS
  <2>1. 0 \in S /\ b \in Nat /\ \A x \in S : x <= b
    BY <1>3
  <2>2. b # 0
    BY <2>1
  <2>3. b - 1 \in Nat /\ \A x \in S : x <= b - 1
    BY <1>4, <2>1, <2>2
  <2>4. b - 1 \in U
    BY <2>3
  <2>5. b <= b - 1
    BY <1>3, <2>4
  <2> QED BY <2>1, <2>5
<1>6. \E x \in S : \A y \in S : x >= y
  BY <1>3, <1>4, <1>5
<1>7. Max(S) \in S /\ \A y \in S : Max(S) >= y
  BY <1>6 DEF Max
<1>8. Max(S) \in Nat
  BY <1>4, <1>7
<1> HIDE DEF U
<1>9. \A i \in 1 .. n : f[i] \in S
  OBVIOUS
<1> QED BY <1>4, <1>7, <1>8, <1>9

-----------------------------------------------------------------------------
(***************************************************************************)
(* The lowering's record.                                                  *)
(***************************************************************************)
IsLowering(s) ==
  DOMAIN s = {"next", "end", "image", "segments", "inputs", "layers", "pinned", "slots", "fcs",
              "addr", "node", "error"}

\* The allocator leaves all but the memory alone.
SameRecords(s, t) ==
  /\ t.inputs = s.inputs /\ t.layers = s.layers /\ t.pinned = s.pinned /\ t.slots = s.slots
  /\ t.fcs = s.fcs /\ t.addr = s.addr /\ t.node = s.node /\ t.error = s.error

Room(n) == IF n = 0 THEN 1 ELSE n

\* An allocation moves the bump pointer to the next boundary of 16 and nothing else.
LEMMA AllocIs ==
  ASSUME NEW s, IsLowering(s), NEW n
  PROVE  /\ IsLowering(Alloc(s, n)) /\ SameRecords(s, Alloc(s, n))
         /\ Alloc(s, n).segments = s.segments
         /\ Alloc(s, n).next = pad16(s.next + Room(n))
BY DEF IsLowering, Alloc, SameRecords, Room

\* A segment is recorded at its address, and takes room only where it is given
\* none.
LEMMA PlaceIs ==
  ASSUME NEW s, IsLowering(s), NEW len, NEW tag, NEW who, NEW kind, NEW addr
  PROVE  LET t == PlaceSegment(s, len, tag, who, kind, addr)
             new == [addr |-> IF addr = -1 THEN s.next ELSE addr,
                     off |-> s.end, len |-> len, layer |-> who, kind |-> kind]
         IN /\ IsLowering(t) /\ SameRecords(s, t)
            /\ t.segments = Append(s.segments, new)
            /\ addr = -1 => t.next = pad16(s.next + Room(len))
            /\ addr # -1 => t.next = s.next
<1> DEFINE u == IF addr = -1 THEN Alloc(s, len) ELSE s
           t == PlaceSegment(s, len, tag, who, kind, addr)
           new == [addr |-> IF addr = -1 THEN s.next ELSE addr,
                   off |-> s.end, len |-> len, layer |-> who, kind |-> kind]
<1>1. /\ IsLowering(u) /\ SameRecords(s, u) /\ u.segments = s.segments
      /\ addr = -1 => u.next = pad16(s.next + Room(len))
      /\ addr # -1 => u.next = s.next
  BY AllocIs DEF SameRecords
<1>2. t = [u EXCEPT !.image = Store(@, s.end, len, len, tag),
                    !.end = pad16(s.end + len),
                    !.segments = Append(@, new)]
  BY DEF PlaceSegment
<1> HIDE DEF u, t, new
<1>3. IsLowering(t) /\ SameRecords(u, t) /\ t.next = u.next /\ t.segments = Append(u.segments, new)
  BY <1>1, <1>2 DEF IsLowering, SameRecords
<1> QED BY <1>1, <1>3 DEF SameRecords, t, new

\* Every node starts on a number of 16 bytes more.
LEMMA AllocMoves ==
  ASSUME NEW s, IsLowering(s), s.next \in Nat, s.next % 16 = 0, NEW n \in Nat
  PROVE  /\ Alloc(s, n).next \in Nat /\ Alloc(s, n).next % 16 = 0
         /\ s.next + n <= Alloc(s, n).next
         /\ n % 16 = 0 /\ n >= 1 => Alloc(s, n).next = s.next + n
         /\ s.next + pad16(n) <= Alloc(s, n).next
         /\ s.next <= Alloc(s, n).next
<1>1. Alloc(s, n).next = pad16(s.next + Room(n))
  BY AllocIs
<1>2. Room(n) \in Nat /\ n <= Room(n) /\ (n >= 1 => Room(n) = n)
  BY DEF Room
<1>3. pad16(s.next + Room(n)) = s.next + pad16(Room(n))
  BY <1>2, PadPlus
<1>4. pad16(Room(n)) \in Nat /\ pad16(Room(n)) % 16 = 0 /\ Room(n) <= pad16(Room(n))
  BY <1>2, PadIs
<1>5. pad16(n) <= pad16(Room(n)) /\ (n % 16 = 0 /\ n >= 1 => pad16(Room(n)) = n)
  <2>1. CASE n = 0
    BY <2>1 DEF Room, pad16
  <2>2. CASE n # 0
    <3>1. Room(n) = n /\ pad16(n) \in Nat
      BY <1>2, <2>2, PadIs
    <3> QED BY <3>1, PadIs
  <2> QED BY <2>1, <2>2
<1>6. \A x, y \in Nat : x % 16 = 0 /\ y % 16 = 0 => (x + y) % 16 = 0
  OBVIOUS
<1>7. pad16(n) \in Nat
  BY PadIs
<1> DEFINE z == pad16(Room(n))
           a == Alloc(s, n).next
           c == s.next
           p == pad16(n)
<1>8. /\ a = c + z /\ z \in Nat /\ z % 16 = 0 /\ n <= z /\ p <= z /\ p \in Nat
      /\ (n % 16 = 0 /\ n >= 1 => z = n) /\ c \in Nat /\ c % 16 = 0
  BY <1>1, <1>2, <1>3, <1>4, <1>5, <1>7
<1> HIDE DEF z, a, c, p
<1>9. a \in Nat /\ a % 16 = 0
  BY <1>6, <1>8
<1>10. c + n <= a /\ (n % 16 = 0 /\ n >= 1 => a = c + n) /\ c + p <= a /\ c <= a
  BY ONLY <1>8, n \in Nat
<1> QED BY <1>9, <1>10 DEF a, c, p

-----------------------------------------------------------------------------
(***************************************************************************)
(* What is laid out so far.                                                *)
(***************************************************************************)
Lists(s) == /\ \E n \in Nat : Listed(s.segments, n)
            /\ \E n \in Nat : Listed(s.inputs, n)
            /\ \E n \in Nat : Listed(s.layers, n)

\* The elements of a list one longer.
LEMMA RangeAppend ==
  ASSUME NEW n \in Nat, NEW a, Listed(a, n), NEW x
  PROVE  Range(Append(a, x)) = Range(a) \cup {x}
<1> DEFINE q == Append(a, x)
<1>1. /\ DOMAIN q = 1 .. n + 1 /\ DOMAIN a = 1 .. n
      /\ \A i \in 1 .. n : q[i] = a[i]
      /\ q[n + 1] = x
  BY Appended, LenListed
<1> HIDE DEF q
<1>2. n + 1 \in 1 .. n + 1 /\ \A i \in 1 .. n + 1 : i \in 1 .. n \/ i = n + 1
  OBVIOUS
<1>3. \A i \in 1 .. n : i \in 1 .. n + 1
  OBVIOUS
<1>4. Range(q) = Range(a) \cup {x}
  BY <1>1, <1>2, <1>3 DEF Range
<1> QED BY <1>4 DEF q

AreasOfSegments(segments) == {<<v.layer, v.kind, v.addr, v.addr + v.len>> : v \in Range(segments)}
AreasOfInputs(inputs) == {<<v.name, "input", v.addr, v.addr + pad16(v.count)>> : v \in Range(inputs)}
AreasOfFcs(fcs) ==
  {<<L.name, "acc", L.acc, L.acc + 4 * L.mpad>> : L \in Range(fcs)}
    \cup {<<L.name, "out", L.out, L.out + L.mpad>> : L \in {x \in Range(fcs) : ~x.final}}
AreasOfGathers(records) ==
  {<<L.name, "out", L.out, L.out + L.width>> : L \in {x \in Range(records) : x.kind = "gather"}}

Areas(s) == AreasOfSegments(s.segments) \cup AreasOfInputs(s.inputs)
              \cup AreasOfFcs(FcsOf(s.layers)) \cup AreasOfGathers(s.layers)

\* The regions LayoutFits speaks of are those of the records.
LEMMA AreasAre ==
  ASSUME NEW s
  PROVE  Regions(Document(s)) = Areas(s)
<1> DEFINE doc == Document(s)
<1>1. doc.segments = s.segments /\ doc.inputs = s.inputs /\ doc.layers = s.layers
  BY DEF Document
<1> HIDE DEF doc
<1>2. Regions(doc) = AreasOfSegments(doc.segments) \cup AreasOfInputs(doc.inputs)
                      \cup AreasOfFcs(FcLayers(doc)) \cup AreasOfGathers(doc.layers)
  BY DEF Regions, AreasOfSegments, AreasOfInputs, AreasOfFcs, AreasOfGathers
<1> QED BY <1>1, <1>2 DEF Areas, FcLayers, doc

\* Moving the allocator lays nothing out,
LEMMA AreasSame ==
  ASSUME NEW s, NEW t, t.segments = s.segments, t.inputs = s.inputs, t.layers = s.layers
  PROVE  Areas(t) = Areas(s) /\ (Lists(s) => Lists(t))
BY DEF Lists, Areas

\* a segment what it occupies,
LEMMA AreasSegment ==
  ASSUME NEW s, NEW t, NEW x, Lists(s), t.segments = Append(s.segments, x),
         t.inputs = s.inputs, t.layers = s.layers
  PROVE  /\ Lists(t)
         /\ Areas(t) \subseteq Areas(s) \cup {<<x.layer, x.kind, x.addr, x.addr + x.len>>}
<1>1. PICK n \in Nat : Listed(s.segments, n)
  BY DEF Lists
<1>2. Listed(t.segments, n + 1) /\ n + 1 \in Nat /\ Range(t.segments) = Range(s.segments) \cup {x}
  BY <1>1, Appended, RangeAppend
<1>3. AreasOfSegments(t.segments)
        = AreasOfSegments(s.segments) \cup {<<x.layer, x.kind, x.addr, x.addr + x.len>>}
  BY <1>2 DEF AreasOfSegments
<1> QED BY <1>2, <1>3 DEF Lists, Areas

\* an input its bytes,
LEMMA AreasInput ==
  ASSUME NEW s, NEW t, NEW x, Lists(s), t.inputs = Append(s.inputs, x),
         t.segments = s.segments, t.layers = s.layers
  PROVE  /\ Lists(t)
         /\ Areas(t) \subseteq Areas(s) \cup {<<x.name, "input", x.addr, x.addr + pad16(x.count)>>}
<1>1. PICK n \in Nat : Listed(s.inputs, n)
  BY DEF Lists
<1>2. Listed(t.inputs, n + 1) /\ n + 1 \in Nat /\ Range(t.inputs) = Range(s.inputs) \cup {x}
  BY <1>1, Appended, RangeAppend
<1>3. AreasOfInputs(t.inputs)
        = AreasOfInputs(s.inputs) \cup {<<x.name, "input", x.addr, x.addr + pad16(x.count)>>}
  BY <1>2 DEF AreasOfInputs
<1> QED BY <1>2, <1>3 DEF Lists, Areas

\* and a layer its sums and its result.
LEMMA FcsAppend ==
  ASSUME NEW n \in Nat, NEW a, Listed(a, n), NEW x
  PROVE  FcsOf(Append(a, x)) = IF x.kind = "fc" THEN Append(FcsOf(a), x) ELSE FcsOf(a)
<1> DEFINE S == {L \in Range(a) : L.kind = "fc"}
           T == {L \in Range(Append(a, x)) : L.kind = "fc"}
<1>1. Range(Append(a, x)) = Range(a) \cup {x}
  BY RangeAppend
<1>2. \A i \in 1 .. n : a[i] \in Range(a)
  BY LenListed DEF Range
<1>3. Alike(a, n, S, T)
  BY <1>1, <1>2 DEF Alike
<1>4. x \in T <=> x.kind = "fc"
  BY <1>1
<1>5. FcsOf(Append(a, x)) = Select(Append(a, x), T) /\ FcsOf(a) = Select(a, S)
  BY DEF FcsOf
<1> HIDE DEF S, T
<1>6. Select(Append(a, x), T) = IF x \in T THEN Append(Select(a, S), x) ELSE Select(a, S)
  BY <1>3, SelectAppend
<1> QED BY <1>4, <1>5, <1>6

\* The fc records are a list, taken from the layer records.
LEMMA FcsListed ==
  ASSUME NEW n \in Nat, NEW a, Listed(a, n)
  PROVE  \E k \in Nat : /\ Listed(FcsOf(a), k)
                        /\ \A i \in 1 .. k : /\ FcsOf(a)[i].kind = "fc"
                                             /\ \E j \in 1 .. n : FcsOf(a)[i] = a[j]
<1> DEFINE S == {L \in Range(a) : L.kind = "fc"}
<1>1. FcsOf(a) = Select(a, S)
  BY DEF FcsOf
<1>2. \A x \in S : x.kind = "fc"
  OBVIOUS
<1> HIDE DEF S
<1> QED BY <1>1, <1>2, SelectRange

\* The regions one more layer record adds.
LEMMA AreasLayer ==
  ASSUME NEW s, NEW t, NEW x, Lists(s), t.layers = Append(s.layers, x),
         t.segments = s.segments, t.inputs = s.inputs
  PROVE  /\ Lists(t)
         /\ x.kind = "concat" => Areas(t) = Areas(s)
         /\ x.kind = "gather" =>
              Areas(t) \subseteq Areas(s) \cup {<<x.name, "out", x.out, x.out + x.width>>}
         /\ x.kind = "fc" =>
              Areas(t) \subseteq Areas(s) \cup {<<x.name, "acc", x.acc, x.acc + 4 * x.mpad>>}
                          \cup IF x.final THEN {} ELSE {<<x.name, "out", x.out, x.out + x.mpad>>}
<1>1. PICK n \in Nat : Listed(s.layers, n)
  BY DEF Lists
<1>2. Listed(t.layers, n + 1) /\ n + 1 \in Nat /\ Range(t.layers) = Range(s.layers) \cup {x}
  BY <1>1, Appended, RangeAppend
<1>3. PICK k \in Nat : Listed(FcsOf(s.layers), k)
  BY <1>1, FcsListed
<1>4. /\ x.kind = "fc" => Range(FcsOf(t.layers)) = Range(FcsOf(s.layers)) \cup {x}
      /\ x.kind # "fc" => FcsOf(t.layers) = FcsOf(s.layers)
  <2> DEFINE f == FcsOf(s.layers)
  <2>1. FcsOf(t.layers) = IF x.kind = "fc" THEN Append(f, x) ELSE f
    BY <1>1, FcsAppend
  <2> HIDE DEF f
  <2>2. Range(Append(f, x)) = Range(f) \cup {x}
    BY <1>3, RangeAppend DEF f
  <2> QED BY <2>1, <2>2 DEF f
<1>5. /\ x.kind = "fc" =>
           AreasOfFcs(FcsOf(t.layers)) \subseteq
             AreasOfFcs(FcsOf(s.layers)) \cup {<<x.name, "acc", x.acc, x.acc + 4 * x.mpad>>}
               \cup IF x.final THEN {} ELSE {<<x.name, "out", x.out, x.out + x.mpad>>}
      /\ x.kind # "fc" => AreasOfFcs(FcsOf(t.layers)) = AreasOfFcs(FcsOf(s.layers))
  BY <1>4 DEF AreasOfFcs
<1>6. /\ x.kind = "gather" => AreasOfGathers(t.layers) =
           AreasOfGathers(s.layers) \cup {<<x.name, "out", x.out, x.out + x.width>>}
      /\ x.kind # "gather" => AreasOfGathers(t.layers) = AreasOfGathers(s.layers)
  BY <1>2 DEF AreasOfGathers
<1>7. Lists(t)
  BY <1>2 DEF Lists
<1> QED BY <1>5, <1>6, <1>7 DEF Areas

-----------------------------------------------------------------------------
(***************************************************************************)
(* The ground: the concat's buffer and the slots, laid out before all.     *)
(***************************************************************************)
Ground == AddSlots(PinConcats)

IsPins(u, n) ==
  u = [i \in 0 .. n |-> IF i = 0 THEN EmptyLowering
                        ELSE IF Nodes[i].op = "Concat" THEN PinConcat(u[i - 1], Nodes[i])
                             ELSE u[i - 1]]

\* The pinning of concat buffers has a value for every number of nodes.
LEMMA PinsExist == \A n \in Nat : \E u : IsPins(u, n)
<1> DEFINE D == {n \in Nat : \E u : IsPins(u, n)}
           Step(before, i) == IF Nodes[i].op = "Concat" THEN PinConcat(before, Nodes[i])
                              ELSE before
<1>1. 0 \in D
  <2>1. IsPins([i \in 0 .. 0 |-> EmptyLowering], 0)
    BY DEF IsPins
  <2> QED BY <2>1
<1>2. ASSUME NEW n \in Nat, n \in D PROVE n + 1 \in D
  <2>1. PICK u : IsPins(u, n)
    BY <1>2
  <2> DEFINE q == [i \in 0 .. n + 1 |-> IF i <= n THEN u[i] ELSE Step(u[n], n + 1)]
  <2>2. ASSUME NEW i \in 0 .. n + 1
        PROVE  q[i] = IF i = 0 THEN EmptyLowering ELSE Step(q[i - 1], i)
    <3>1. CASE i = n + 1
      <4>1. q[i] = Step(u[n], n + 1) /\ q[i - 1] = u[n] /\ i # 0
        BY <3>1
      <4> HIDE DEF q, Step
      <4> QED BY <4>1, <3>1
    <3>2. CASE i # n + 1
      <4>1. i \in 0 .. n /\ q[i] = u[i] /\ (i # 0 => q[i - 1] = u[i - 1])
        BY <3>2
      <4>2. u[i] = IF i = 0 THEN EmptyLowering ELSE Step(u[i - 1], i)
        BY <2>1, <4>1 DEF IsPins
      <4> HIDE DEF q, Step
      <4> QED BY <4>1, <4>2
    <3> QED BY <3>1, <3>2
  <2>3. IsPins(q, n + 1)
    BY <2>2 DEF IsPins
  <2> QED BY <2>3
<1> HIDE DEF D
<1>3. \A n \in Nat : n \in D
  BY <1>1, <1>2, Induction
<1> QED BY <1>3 DEF D

\* The generators' models have one concat, if any.
LEMMA PinnedOnce ==
  ASSUME NEW g, Shape(g)
  PROVE  PinConcats = IF g.t > 0 THEN PinConcat(EmptyLowering, ConcatNode(g.t)) ELSE EmptyLowering
<1> DEFINE N == g.pre + 3 * g.n
           u == CHOOSE u : IsPins(u, N)
           once == IF g.t > 0 THEN PinConcat(EmptyLowering, ConcatNode(g.t)) ELSE EmptyLowering
<1>1. /\ N \in Nat /\ Len(Nodes) = N /\ g.t \in Nat /\ g.pre \in Nat /\ g.n \in Nat /\ g.n >= 1
      /\ g.t > 0 => g.pre = g.t + 1
  BY ShapeNumbers DEF Nodes
<1>2. IsPins(u, N)
  BY <1>1, PinsExist
<1>3. PinConcats = u[N]
  BY <1>1 DEF PinConcats, IsPins
<1> HIDE DEF u, N, once
<1> DEFINE D == {i \in Nat : i <= N => u[i] = IF i > g.t THEN once ELSE EmptyLowering}
<1>4. 0 \in D
  <2>1. u[0] = EmptyLowering
    BY <1>1, <1>2 DEF IsPins
  <2>2. 0 > g.t => FALSE
    BY <1>1
  <2> QED BY <2>1, <2>2
<1>5. ASSUME NEW i \in Nat, i \in D PROVE i + 1 \in D
  <2> SUFFICES ASSUME i + 1 <= N
               PROVE  u[i + 1] = IF i + 1 > g.t THEN once ELSE EmptyLowering
    OBVIOUS
  <2> DEFINE j == i + 1
  <2>1. j \in 0 .. N /\ j # 0 /\ j - 1 = i /\ j \in 1 .. g.pre + 3 * g.n
    BY <1>1 DEF N
  <2>2. u[i] = IF i > g.t THEN once ELSE EmptyLowering
    BY <1>1, <1>5
  <2> HIDE DEF j
  <2>3. u[j] = IF Nodes[j].op = "Concat" THEN PinConcat(u[j - 1], Nodes[j]) ELSE u[j - 1]
    BY <1>2, <2>1 DEF IsPins
  <2>4. /\ Nodes[j].op = "Concat" => g.t > 0 /\ j = g.t + 1 /\ Nodes[j] = ConcatNode(g.t)
        /\ g.t > 0 /\ j = g.t + 1 => Nodes[j].op = "Concat"
    BY <2>1, Kinds DEF Nodes
  <2>5. CASE Nodes[j].op = "Concat"
    <3>1. i = g.t /\ j > g.t /\ ~(i > g.t)
      BY <1>1, <2>1, <2>4, <2>5
    <3>2. u[j] = PinConcat(EmptyLowering, ConcatNode(g.t))
      BY <2>1, <2>2, <2>3, <2>4, <2>5, <3>1
    <3> QED BY <2>4, <2>5, <3>1, <3>2 DEF once, j
  <2>6. CASE Nodes[j].op # "Concat"
    <3>1. u[j] = u[i]
      BY <2>1, <2>3, <2>6
    <3>2. CASE g.t = 0
      <4>1. once = EmptyLowering
        BY <3>2 DEF once
      <4> QED BY <2>2, <3>1, <4>1 DEF j
    <3>3. CASE g.t > 0
      <4>1. i > g.t <=> j > g.t
        BY <1>1, <2>1, <2>4, <2>6, <3>3
      <4> QED BY <2>2, <3>1, <4>1 DEF j
    <3> QED BY <1>1, <3>2, <3>3
  <2> QED BY <2>5, <2>6
<1> HIDE DEF D
<1>6. N \in D
  BY <1>1, <1>4, <1>5, Induction
<1>7. N > g.t
  BY <1>1 DEF N
<1>8. PinConcats = once
  BY <1>1, <1>3, <1>6, <1>7 DEF D
<1> QED BY <1>8 DEF once

\* How long a concat's parts are: a table's rows, or the dense input.
LEMMA GatherLen ==
  ASSUME NEW g, Shape(g), NEW k \in 1 .. g.t
  PROVE  PartLen(<<"emb_out", k>>) = g.cols
<1> DEFINE producer == {Nodes[i] : i \in {x \in DOMAIN Nodes : Nodes[x].out = <<"emb_out", k>>}}
<1>1. /\ g.t \in Nat /\ g.t > 0 /\ g.pre \in Nat /\ g.n \in Nat /\ g.pre = g.t + 1
      /\ DOMAIN Nodes = 1 .. g.pre + 3 * g.n
      /\ model.shape[<<"emb_table", k>>] = <<g.rows, g.cols>>
  BY ShapeNumbers DEF Nodes
<1>2. k \in DOMAIN Nodes /\ k \in 1 .. g.pre + 3 * g.n
  BY <1>1
<1>3. Nodes[k] = GatherNode(k)
  BY <1>1, <1>2, Kinds DEF Nodes
<1>4. ASSUME NEW i \in DOMAIN Nodes, Nodes[i].out = <<"emb_out", k>>
      PROVE  Nodes[i] = GatherNode(k)
  <2>1. \/ g.t = 0
        \/ i \in 1 .. g.t /\ Nodes[i] = GatherNode(i)
        \/ Nodes[i] = ConcatNode(g.t)
        \/ \E j \in 1 .. g.n : Nodes[i] = MatMulNode(j, g.first)
        \/ \E j \in 1 .. g.n : Nodes[i] = AddNode(j)
        \/ \E j \in 1 .. g.n : Nodes[i] = LastNode(j, g.n, g.act)
    <3>1. i \in 1 .. g.pre + 3 * g.n
      BY <1>1
    <3> QED BY <3>1, NodeForms DEF Nodes
  <2>2. CASE i \in 1 .. g.t /\ Nodes[i] = GatherNode(i)
    <3>1. Nodes[i].out = <<"emb_out", i>>
      BY <2>2 DEF GatherNode, Node
    <3>2. i = k
      BY <1>4, <3>1
    <3> QED BY <2>2, <3>2
  <2>3. CASE Nodes[i] = ConcatNode(g.t)
    BY <1>4, <2>3 DEF ConcatNode, Node, ConcatOut
  <2>4. CASE \E j \in 1 .. g.n : Nodes[i] = MatMulNode(j, g.first)
    BY <1>4, <2>4 DEF MatMulNode, Node
  <2>5. CASE \E j \in 1 .. g.n : Nodes[i] = AddNode(j)
    BY <1>4, <2>5 DEF AddNode, Node
  <2>6. CASE \E j \in 1 .. g.n : Nodes[i] = LastNode(j, g.n, g.act)
    BY <1>4, <2>6 DEF LastNode, Node, Output
  <2> QED BY <1>1, <2>1, <2>2, <2>3, <2>4, <2>5, <2>6
<1>5. /\ GatherNode(k).op = "Gather" /\ GatherNode(k).out = <<"emb_out", k>>
      /\ GatherNode(k).ins[1] = <<"emb_table", k>>
  BY DEF GatherNode, Node
<1>6. producer = {GatherNode(k)}
  BY <1>2, <1>3, <1>4, <1>5
<1>7. PartLen(<<"emb_out", k>>) = model.shape[(CHOOSE n \in producer : TRUE).ins[1]][2]
  <2>1. (\E n \in producer : n.op = "Gather") /\ producer # {}
    BY <1>5, <1>6
  <2> QED BY <2>1 DEF PartLen
<1>8. (CHOOSE n \in producer : TRUE) = GatherNode(k)
  BY <1>6
<1>9. PartLen(<<"emb_out", k>>) = model.shape[<<"emb_table", k>>][2]
  BY <1>5, <1>7, <1>8
<1>10. model.shape[<<"emb_table", k>>][2] = g.cols
  BY <1>1
<1> QED BY <1>9, <1>10

\* The product of positive dimensions is positive.
IsProduct(p, dims, n) == p = [i \in 0 .. n |-> IF i = 0 THEN 1 ELSE p[i - 1] * dims[i]]

\* The product has a value for every number of dimensions.
LEMMA ProductExists ==
  ASSUME NEW dims
  PROVE  \A n \in Nat : \E p : IsProduct(p, dims, n)
<1> DEFINE D == {n \in Nat : \E p : IsProduct(p, dims, n)}
           Step(before, i) == before * dims[i]
<1>1. 0 \in D
  <2>1. IsProduct([i \in 0 .. 0 |-> 1], dims, 0)
    BY DEF IsProduct
  <2> QED BY <2>1
<1>2. ASSUME NEW n \in Nat, n \in D PROVE n + 1 \in D
  <2>1. PICK p : IsProduct(p, dims, n)
    BY <1>2
  <2> DEFINE q == [i \in 0 .. n + 1 |-> IF i <= n THEN p[i] ELSE Step(p[n], n + 1)]
  <2>2. ASSUME NEW i \in 0 .. n + 1
        PROVE  q[i] = IF i = 0 THEN 1 ELSE Step(q[i - 1], i)
    <3>1. CASE i = n + 1
      <4>1. q[i] = Step(p[n], n + 1) /\ q[i - 1] = p[n] /\ i # 0
        BY <3>1
      <4> HIDE DEF q, Step
      <4> QED BY <4>1, <3>1
    <3>2. CASE i # n + 1
      <4>1. i \in 0 .. n /\ q[i] = p[i] /\ (i # 0 => q[i - 1] = p[i - 1])
        BY <3>2
      <4>2. p[i] = IF i = 0 THEN 1 ELSE Step(p[i - 1], i)
        BY <2>1, <4>1 DEF IsProduct
      <4> HIDE DEF q, Step
      <4> QED BY <4>1, <4>2
    <3> QED BY <3>1, <3>2
  <2>3. IsProduct(q, dims, n + 1)
    BY <2>2 DEF IsProduct
  <2> QED BY <2>3
<1> HIDE DEF D
<1>3. \A n \in Nat : n \in D
  BY <1>1, <1>2, Induction
<1> QED BY <1>3 DEF D

\* The product of positive dimensions is positive.
LEMMA ProductPositive ==
  ASSUME NEW dims, NEW n \in Nat, Len(dims) = n, \A i \in 1 .. n : dims[i] \in Nat /\ dims[i] >= 1
  PROVE  Product(dims) \in Nat /\ Product(dims) >= 1
<1> DEFINE p == CHOOSE p : IsProduct(p, dims, n)
<1>1. IsProduct(p, dims, n)
  BY ProductExists
<1>2. Product(dims) = p[n]
  BY DEF Product, IsProduct
<1> HIDE DEF p
<1> DEFINE D == {i \in Nat : i <= n => p[i] \in Nat /\ p[i] >= 1}
<1>3. 0 \in D
  <2>1. p[0] = 1
    BY <1>1 DEF IsProduct
  <2> QED BY <2>1
<1>4. ASSUME NEW i \in Nat, i \in D PROVE i + 1 \in D
  <2> SUFFICES ASSUME i + 1 <= n PROVE p[i + 1] \in Nat /\ p[i + 1] >= 1
    OBVIOUS
  <2> DEFINE j == i + 1
  <2>1. j \in 0 .. n /\ j # 0 /\ j - 1 = i /\ j \in 1 .. n
    OBVIOUS
  <2>2. p[i] \in Nat /\ p[i] >= 1
    BY <1>4
  <2> HIDE DEF j
  <2>3. p[j] = p[j - 1] * dims[j]
    BY <1>1, <2>1 DEF IsProduct
  <2>4. p[j] = p[i] * dims[j] /\ dims[j] \in Nat /\ dims[j] >= 1
    BY <2>1, <2>3
  <2>5. \A x, y \in Nat : x >= 1 /\ y >= 1 => x * y \in Nat /\ x * y >= 1
    OBVIOUS
  <2> QED BY <2>2, <2>4, <2>5 DEF j
<1> HIDE DEF D
<1>5. n \in D
  BY <1>3, <1>4, Induction
<1> QED BY <1>2, <1>5 DEF D

\* The dense input has at least one element.
LEMMA DenseLen ==
  ASSUME NEW g, Shape(g)
  PROVE  /\ PartLen(Dense) \in Nat /\ PartLen(Dense) >= 1
         /\ PartLen(Dense) = Product(concretize(model.inputs[1].dims, 1))
<1> DEFINE producer == {Nodes[i] : i \in {x \in DOMAIN Nodes : Nodes[x].out = Dense}}
           named == CHOOSE v \in Range(model.inputs) : v.name = Dense
<1>1. /\ g.t \in Nat /\ DOMAIN Nodes = 1 .. g.pre + 3 * g.n
  BY ShapeNumbers DEF Nodes
<1>2. ASSUME NEW i \in DOMAIN Nodes
      PROVE  Nodes[i].out # Dense
  <2>1. \/ Nodes[i] = Node("Flatten", 0, <<Dense>>, g.first) /\ g.t = 0 /\ g.pre = 1
        \/ Nodes[i] = GatherNode(i)
        \/ Nodes[i] = ConcatNode(g.t)
        \/ \E j \in 1 .. g.n : Nodes[i] = MatMulNode(j, g.first)
        \/ \E j \in 1 .. g.n : Nodes[i] = AddNode(j)
        \/ \E j \in 1 .. g.n : Nodes[i] = LastNode(j, g.n, g.act)
    <3>1. i \in 1 .. g.pre + 3 * g.n
      BY <1>1
    <3> QED BY <3>1, NodeForms DEF Nodes
  <2>2. CASE Nodes[i] = Node("Flatten", 0, <<Dense>>, g.first) /\ g.t = 0 /\ g.pre = 1
    <3>1. g.first = <<"flat", 0>>
      BY <2>2 DEF Shape, Form, StartForm, Positive
    <3> QED BY <2>2, <3>1 DEF Node, Dense
  <2>3. CASE Nodes[i] = GatherNode(i)
    BY <2>3 DEF GatherNode, Node, Dense
  <2>4. CASE Nodes[i] = ConcatNode(g.t)
    BY <2>4 DEF ConcatNode, Node, ConcatOut, Dense
  <2>5. CASE \E j \in 1 .. g.n : Nodes[i] = MatMulNode(j, g.first)
    BY <2>5 DEF MatMulNode, Node, Dense
  <2>6. CASE \E j \in 1 .. g.n : Nodes[i] = AddNode(j)
    BY <2>6 DEF AddNode, Node, Dense
  <2>7. CASE \E j \in 1 .. g.n : Nodes[i] = LastNode(j, g.n, g.act)
    BY <2>7 DEF LastNode, Node, Output, Dense
  <2> QED BY <2>1, <2>2, <2>3, <2>4, <2>5, <2>6, <2>7
<1>3. PartLen(Dense) = Product(concretize(named.dims, 1))
  <2>1. producer = {}
    BY <1>2
  <2> HIDE DEF named
  <2>2. (~\E n \in producer : n.op = "Gather") /\ producer = {}
    BY <2>1
  <2> QED BY <2>2 DEF PartLen, named
<1>4. named = model.inputs[1]
  <2>1. InputForm(model, g.t)
    BY DEF Shape, Form
  <2>2. DOMAIN model.inputs = 1 .. g.t + 1
    BY <1>1, <2>1 DEF InputForm, Listed
  <2>3. /\ 1 \in 1 .. g.t + 1
       /\ \A i \in 1 .. g.t + 1 : i = 1 \/ (i - 1 \in 1 .. g.t /\ (i - 1) + 1 = i)
    BY <1>1
  <2>4. \A i \in 1 .. g.t : model.inputs[i + 1].name # Dense
    BY <2>1 DEF InputForm, Dense
  <2>5. \A i \in 1 .. g.t + 1 : model.inputs[i].name = Dense => i = 1
    <3> SUFFICES ASSUME NEW i \in 1 .. g.t + 1, i # 1 PROVE model.inputs[i].name # Dense
      OBVIOUS
    <3> DEFINE k == i - 1
    <3>1. k \in 1 .. g.t /\ k + 1 = i
      BY <2>3
    <3> HIDE DEF k
    <3> QED BY <2>4, <3>1
  <2>6. model.inputs[1].name = Dense
    BY <2>1 DEF InputForm
  <2>7. \A v \in Range(model.inputs) : v.name = Dense <=> v = model.inputs[1]
    BY <2>2, <2>3, <2>5, <2>6 DEF Range
  <2>8. model.inputs[1] \in Range(model.inputs)
    BY <2>2, <2>3 DEF Range
  <2> QED BY <2>7, <2>8
<1>5. PICK a \in Nat, b \in Positive : named.dims = <<a, b>>
  BY <1>4 DEF Shape, Form, InputForm
<1> DEFINE c == concretize(<<a, b>>, 1)
<1>6. Len(c) = 2 /\ \A i \in 1 .. 2 : c[i] \in Nat /\ c[i] >= 1
  <2>1. c = [i \in 1 .. 2 |-> IF i = 1 THEN IF a = 0 THEN 1 ELSE a ELSE IF b = 0 THEN 1 ELSE b]
    BY DEF concretize
  <2>2. Listed(c, 2) /\ 2 \in Nat
    BY <2>1 DEF Listed
  <2>3. Len(c) = 2
    BY <2>2, LenListed
  <2>4. b \in Nat /\ b >= 1
    BY DEF Positive
  <2>5. c[1] = (IF a = 0 THEN 1 ELSE a) /\ c[2] = IF b = 0 THEN 1 ELSE b
    <3>1. 1 \in 1 .. 2 /\ 2 \in 1 .. 2
      OBVIOUS
    <3> HIDE DEF c
    <3> QED BY <2>1, <3>1
  <2> HIDE DEF c
  <2>6. \A i \in 1 .. 2 : c[i] \in Nat /\ c[i] >= 1
    <3>1. \A i \in 1 .. 2 : i = 1 \/ i = 2
      OBVIOUS
    <3> QED BY <2>4, <2>5, <3>1
  <2> QED BY <2>3, <2>6
<1> HIDE DEF c
<1>7. Product(c) \in Nat /\ Product(c) >= 1
  BY <1>6, ProductPositive
<1> QED BY <1>3, <1>4, <1>5, <1>7 DEF c

\* Where the parts of the concat begin in its buffer.
Lens(g) == [k \in 1 .. g.t + 1 |-> IF k <= g.t THEN g.cols ELSE PartLen(Dense)]
PartAt(g, k) == Total(Lens(g), 1, k - 1)

\* The parts are as long as PinConcat measures them.
LEMMA PartsAre ==
  ASSUME NEW g, Shape(g), g.t > 0
  PROVE  LET c == ConcatNode(g.t) IN
         /\ DOMAIN c.ins = 1 .. g.t + 1 /\ Len(c.ins) = g.t + 1 /\ c.out = ConcatOut
         /\ Range(c.ins) = {<<"emb_out", k>> : k \in 1 .. g.t} \cup {Dense}
         /\ \A k \in 1 .. g.t : c.ins[k] = <<"emb_out", k>>
         /\ c.ins[g.t + 1] = Dense
         /\ \A k \in 1 .. g.t + 1 : ~IsInit(c.ins[k])
         /\ [k \in DOMAIN c.ins |-> IF IsInit(c.ins[k]) THEN 0 ELSE PartLen(c.ins[k])] = Lens(g)
<1> DEFINE c == ConcatNode(g.t)
<1>1. g.t \in Nat /\ g.t + 1 \in Nat /\ g.t + 1 \in 1 .. g.t + 1
  BY ShapeNumbers
<1>2. /\ c.out = ConcatOut
      /\ c.ins = [k \in 1 .. g.t + 1 |-> IF k <= g.t THEN <<"emb_out", k>> ELSE Dense]
  BY DEF ConcatNode, Node
<1> HIDE DEF c
<1>3. Listed(c.ins, g.t + 1) /\ \A k \in 1 .. g.t : c.ins[k] = <<"emb_out", k>>
  BY <1>1, <1>2 DEF Listed
<1>4. c.ins[g.t + 1] = Dense
  BY <1>1, <1>2
<1>5. DOMAIN c.ins = 1 .. g.t + 1 /\ Len(c.ins) = g.t + 1
  BY <1>1, <1>3, LenListed
<1>6. \A k \in 1 .. g.t + 1 : k \in 1 .. g.t \/ k = g.t + 1
  BY <1>1
<1>7. \A k \in 1 .. g.t : k \in 1 .. g.t + 1
  BY <1>1
<1>8. Range(c.ins) = {<<"emb_out", k>> : k \in 1 .. g.t} \cup {Dense}
  BY <1>1, <1>3, <1>4, <1>5, <1>6, <1>7 DEF Range
<1>9. ASSUME NEW k \in 1 .. g.t + 1 PROVE ~IsInit(c.ins[k])
  <2>1. DOMAIN model.shape = ({"emb_table"} \X (1 .. g.t)) \cup ({"w", "b"} \X (1 .. g.n))
    BY DEF Shape, Form, WeightForm
  <2>2. c.ins[k] = <<"emb_out", k>> \/ c.ins[k] = <<"dense_input", 0>>
    BY <1>3, <1>4, <1>6 DEF Dense
  <2> QED BY <2>1, <2>2 DEF IsInit
<1>10. ASSUME NEW k \in 1 .. g.t + 1
       PROVE  (IF IsInit(c.ins[k]) THEN 0 ELSE PartLen(c.ins[k]))
                = IF k <= g.t THEN g.cols ELSE PartLen(Dense)
  <2>1. CASE k \in 1 .. g.t
    <3>1. k <= g.t /\ PartLen(<<"emb_out", k>>) = g.cols
      BY <1>1, <2>1, GatherLen
    <3> QED BY <1>3, <1>9, <2>1, <3>1
  <2>2. CASE k = g.t + 1
    <3>1. ~(k <= g.t)
      BY <1>1, <2>2
    <3> QED BY <1>4, <1>9, <2>2, <3>1
  <2> QED BY <1>6, <2>1, <2>2
<1>11. [k \in DOMAIN c.ins |-> IF IsInit(c.ins[k]) THEN 0 ELSE PartLen(c.ins[k])] = Lens(g)
  BY <1>5, <1>10 DEF Lens
<1> QED BY <1>2, <1>3, <1>4, <1>5, <1>8, <1>9, <1>11 DEF c

\* Each begins where the one before it ends.
LEMMA PartsFollow ==
  ASSUME NEW g, Shape(g), g.t > 0
  PROVE  /\ PartAt(g, 1) = 0
         /\ \A k \in 1 .. g.t + 1 : PartAt(g, k) \in Nat
         /\ \A k \in 1 .. g.t : PartAt(g, k + 1) = PartAt(g, k) + g.cols
         /\ Total(Lens(g), 1, g.t + 1) = PartAt(g, g.t + 1) + PartLen(Dense)
         /\ \A k \in 1 .. g.t + 1 : \A l \in k .. g.t + 1 : PartAt(g, k) <= PartAt(g, l)
<1> DEFINE f == Lens(g)
           N == g.t + 1
<1>1. g.t \in Nat /\ N \in Nat /\ g.cols \in Nat
  BY ShapeNumbers
<1>2. PartLen(Dense) \in Nat
  BY DenseLen
<1>3. /\ \A k \in 1 .. N : f[k] \in Nat
      /\ \A k \in 1 .. g.t : f[k] = g.cols
      /\ f[N] = PartLen(Dense)
  BY <1>1, <1>2 DEF Lens
<1> HIDE DEF f
<1>4. /\ \A b \in 0 .. N : Total(f, 1, b) \in Nat
      /\ \A a \in 0 .. N : \A b \in a .. N : Total(f, 1, a) <= Total(f, 1, b)
  BY <1>1, <1>3, TotalGrows
<1>5. ASSUME NEW k \in Nat PROVE Total(f, 1, k + 1) = Total(f, 1, k) + f[k + 1]
  BY TotalStep
<1>6. PartAt(g, 1) = 0
  <2>1. Total(f, 1, 0) = 0
    BY TotalStep
  <2> QED BY <2>1 DEF PartAt, f
<1>7. ASSUME NEW k \in 1 .. N
      PROVE  /\ PartAt(g, k) \in Nat
             /\ \A l \in k .. N : PartAt(g, k) <= PartAt(g, l)
             /\ k <= g.t => PartAt(g, k + 1) = PartAt(g, k) + g.cols
  <2> DEFINE a == k - 1
  <2>1. a \in 0 .. N /\ a \in Nat /\ a + 1 = k /\ (k + 1) - 1 = a + 1
    BY <1>1
  <2>2. PartAt(g, k) = Total(f, 1, a) /\ PartAt(g, k + 1) = Total(f, 1, a + 1)
    <3> HIDE DEF a
    <3>1. PartAt(g, k + 1) = Total(f, 1, a + 1)
      BY <2>1 DEF PartAt, f
    <3>2. PartAt(g, k) = Total(f, 1, a)
      BY DEF PartAt, f, a
    <3> QED BY <3>1, <3>2
  <2>3. ASSUME NEW l \in k .. N PROVE PartAt(g, k) <= PartAt(g, l)
    <3> DEFINE b == l - 1
    <3>1. b \in a .. N
      BY <1>1
    <3>2. PartAt(g, l) = Total(f, 1, b)
      BY DEF PartAt, f
    <3> HIDE DEF a, b
    <3> QED BY <1>4, <2>1, <2>2, <3>1, <3>2
  <2> HIDE DEF a
  <2>4. PartAt(g, k) \in Nat
    BY <1>4, <2>1, <2>2
  <2>5. ASSUME k <= g.t PROVE PartAt(g, k + 1) = PartAt(g, k) + g.cols
    <3>1. k \in 1 .. g.t
      BY <1>1, <2>5
    <3>2. f[a + 1] = g.cols
      BY <1>3, <2>1, <3>1
    <3> QED BY <1>5, <2>1, <2>2, <3>2
  <2> QED BY <2>3, <2>4, <2>5
<1>8. Total(f, 1, N) = PartAt(g, N) + PartLen(Dense)
  <2>1. Total(f, 1, g.t + 1) = Total(f, 1, g.t) + f[g.t + 1]
    BY <1>1, <1>5
  <2>2. PartAt(g, N) = Total(f, 1, g.t)
    BY <1>1 DEF PartAt, f
  <2> QED BY <1>3, <2>1, <2>2
<1>9. \A k \in 1 .. g.t : k \in 1 .. N /\ k <= g.t
  BY <1>1
<1> QED BY <1>6, <1>7, <1>8, <1>9 DEF f

Failed(s) == s.error # ""

\* What has been pinned, where no part straddles a 16-byte boundary.
Pinned(g, s) ==
  /\ IsLowering(s) /\ s.segments = <<>> /\ s.inputs = <<>> /\ s.layers = <<>>
  /\ s.fcs = 0 /\ s.addr = <<>> /\ s.node = 1
  /\ s.next \in Nat /\ s.next % 16 = 0
  /\ g.t > 0 => /\ \A k \in 1 .. g.t : /\ s.pinned[<<"emb_out", k>>] = PartAt(g, k)
                                       /\ <<"emb_out", k>> \in DOMAIN s.pinned
                /\ s.pinned[Dense] = PartAt(g, g.t + 1)
                /\ \A k \in 1 .. g.t + 1 : PartAt(g, k) % 16 = 0
                /\ g.cols % 16 = 0
                /\ PartAt(g, g.t + 1) + pad16(PartLen(Dense)) <= s.next

\* The lowering starts with no records and the bump pointer at zero.
LEMMA EmptyIs ==
  /\ IsLowering(EmptyLowering) /\ EmptyLowering.segments = <<>> /\ EmptyLowering.inputs = <<>>
  /\ EmptyLowering.layers = <<>> /\ EmptyLowering.fcs = 0 /\ EmptyLowering.addr = <<>>
  /\ EmptyLowering.node = 1 /\ EmptyLowering.next = 0
  /\ EmptyLowering.pinned = <<>> /\ EmptyLowering.slots = <<>>
BY DEF EmptyLowering, IsLowering

\* It starts without an error.
LEMMA EmptyStands == ~Failed(EmptyLowering)
BY DEF EmptyLowering, Failed

\* Pinning gives every input of the concat its part of one buffer, below the bump
\* pointer, and the dense input the last part.
LEMMA ConcatPinned ==
  ASSUME NEW g, Shape(g), ~Failed(PinConcats)
  PROVE  Pinned(g, PinConcats) /\ PinConcats.slots = <<>>
<1>1. g.t \in Nat
  BY ShapeNumbers
<1>2. CASE ~(g.t > 0)
  <2>1. PinConcats = EmptyLowering
    BY <1>1, <1>2, PinnedOnce
  <2> QED BY <1>2, <2>1, EmptyIs DEF Pinned
<1>3. CASE g.t > 0
  <2> DEFINE c == ConcatNode(g.t)
             s == EmptyLowering
             N == g.t + 1
             nbytes == pad16(Total(Lens(g), 1, N))
             lens == [k \in DOMAIN c.ins |-> IF IsInit(c.ins[k]) THEN 0 ELSE PartLen(c.ins[k])]
             pins == [x \in Range(c.ins) |->
                        s.next + Total(lens, 1, (CHOOSE k \in DOMAIN c.ins : c.ins[k] = x) - 1)]
  <2>1. PinConcats = PinConcat(s, c)
    BY <1>3, PinnedOnce
  <2>2. /\ DOMAIN c.ins = 1 .. N /\ Len(c.ins) = N /\ c.out = ConcatOut
        /\ Range(c.ins) = {<<"emb_out", k>> : k \in 1 .. g.t} \cup {Dense}
        /\ \A k \in 1 .. g.t : c.ins[k] = <<"emb_out", k>>
        /\ c.ins[N] = Dense
        /\ \A k \in 1 .. N : ~IsInit(c.ins[k])
        /\ [k \in DOMAIN c.ins |-> IF IsInit(c.ins[k]) THEN 0 ELSE PartLen(c.ins[k])] = Lens(g)
    BY <1>3, PartsAre
  <2>3. /\ s.next = 0 /\ IsLowering(s)
    BY EmptyIs
  <2> HIDE DEF c, s
  <2>4. N \in Nat /\ DOMAIN Lens(g) = 1 .. N /\ Len(Lens(g)) = N
    <3>1. Listed(Lens(g), N) /\ N \in Nat
      BY <1>1 DEF Lens, Listed
    <3> QED BY <3>1, LenListed
  <2> HIDE DEF N
  <2>5. \/ Failed(PinConcat(s, c))
        \/ /\ \A k \in 1 .. N : Total(Lens(g), 1, k - 1) % 16 = 0
           /\ PinConcat(s, c) = [Alloc(s, nbytes) EXCEPT !.pinned = Put(Over(pins, @), ConcatOut, s.next)]
    <3> DEFINE I == \E k \in DOMAIN lens : IsInit(c.ins[k])
               J == \E k \in DOMAIN lens : lens[k] < 0
               K == \E k \in DOMAIN lens : Total(lens, 1, k - 1) % 16 # 0
               full == [Alloc(s, pad16(Total(lens, 1, Len(lens)))) EXCEPT
                          !.pinned = Put(Over(pins, @), c.out, s.next)]
    <3>1. s.error = ""
      BY EmptyStands DEF Failed, s
    <3>2. PinConcat(s, c) =
            CASE s.error # "" -> s
              [] s.error = "" /\ I -> [s EXCEPT !.error = "NotImplementedError"]
              [] s.error = "" /\ J -> [s EXCEPT !.error = "StopIteration"]
              [] s.error = "" /\ K -> [s EXCEPT !.error = "ValueError"]
              [] OTHER -> full
      BY DEF PinConcat
    <3>3. ~K => \A k \in 1 .. N : Total(Lens(g), 1, k - 1) % 16 = 0
      <4>1. lens = Lens(g) /\ DOMAIN lens = 1 .. N
        BY <2>2, <2>4
      <4> HIDE DEF lens
      <4> QED BY <4>1
    <3>4. full = [Alloc(s, nbytes) EXCEPT !.pinned = Put(Over(pins, @), ConcatOut, s.next)]
      <4>1. pad16(Total(lens, 1, Len(lens))) = nbytes /\ c.out = ConcatOut
        <5>1. lens = Lens(g)
          BY <2>2
        <5> HIDE DEF lens
        <5> QED BY <2>2, <2>4, <5>1
      <4> HIDE DEF lens, pins, nbytes
      <4> QED BY <4>1
    <3> HIDE DEF I, J, K, full, pins, lens, nbytes
    <3>5. \/ PinConcat(s, c) = [s EXCEPT !.error = "NotImplementedError"]
          \/ PinConcat(s, c) = [s EXCEPT !.error = "StopIteration"]
          \/ PinConcat(s, c) = [s EXCEPT !.error = "ValueError"]
          \/ ~K /\ PinConcat(s, c) = full
      BY <3>1, <3>2
    <3>6. CASE ~K /\ PinConcat(s, c) = full
      BY <3>3, <3>4, <3>6
    <3>7. CASE PinConcat(s, c) = [s EXCEPT !.error = "NotImplementedError"]
      BY <2>3, <3>7 DEF IsLowering, Failed
    <3>8. CASE PinConcat(s, c) = [s EXCEPT !.error = "StopIteration"]
      BY <2>3, <3>8 DEF IsLowering, Failed
    <3>9. CASE PinConcat(s, c) = [s EXCEPT !.error = "ValueError"]
      BY <2>3, <3>9 DEF IsLowering, Failed
    <3> QED BY <3>5, <3>6, <3>7, <3>8, <3>9
  <2> DEFINE a == Alloc(s, nbytes)
             p == [a EXCEPT !.pinned = Put(Over(pins, @), ConcatOut, s.next)]
  <2>6. PinConcats = p /\ \A k \in 1 .. N : PartAt(g, k) % 16 = 0
    <3> HIDE DEF p
    <3> QED BY <2>1, <2>5 DEF PartAt, p
  <2>7. /\ PartAt(g, 1) = 0
        /\ \A k \in 1 .. N : PartAt(g, k) \in Nat
        /\ \A k \in 1 .. g.t : PartAt(g, k + 1) = PartAt(g, k) + g.cols
        /\ Total(Lens(g), 1, N) = PartAt(g, N) + PartLen(Dense)
    BY <1>3, PartsFollow DEF N
  <2>8. PartLen(Dense) \in Nat /\ PartLen(Dense) >= 1 /\ N \in 1 .. N /\ g.cols \in Nat
    BY <1>1, DenseLen, ShapeNumbers DEF N
  <2>9. nbytes = PartAt(g, N) + pad16(PartLen(Dense)) /\ nbytes \in Nat
    <3>1. PartAt(g, N) \in Nat /\ PartAt(g, N) % 16 = 0
      BY <2>6, <2>7, <2>8
    <3>2. pad16(PartAt(g, N) + PartLen(Dense)) = PartAt(g, N) + pad16(PartLen(Dense))
      BY <2>8, <3>1, PadPlus
    <3>3. pad16(PartLen(Dense)) \in Nat
      BY <2>8, PadIs
    <3> QED BY <2>7, <3>1, <3>2, <3>3
  <2> HIDE DEF nbytes
  <2>10. /\ IsLowering(a) /\ SameRecords(s, a) /\ a.segments = s.segments
         /\ a.next \in Nat /\ a.next % 16 = 0 /\ s.next + nbytes <= a.next
    <3>1. s.next \in Nat /\ s.next % 16 = 0
      BY <2>3
    <3> QED BY <2>3, <2>9, <3>1, AllocIs, AllocMoves
  <2> HIDE DEF a
  <2>11. g.cols % 16 = 0
    <3>1. 1 \in 1 .. g.t /\ 1 + 1 \in 1 .. N
      BY <1>1, <1>3 DEF N
    <3>2. PartAt(g, 1 + 1) = g.cols
      BY <2>7, <2>8, <3>1
    <3> QED BY <2>6, <3>1, <3>2
  <2>12. ASSUME NEW k \in 1 .. N, NEW x, x = c.ins[k]
         PROVE  x \in DOMAIN pins /\ pins[x] = PartAt(g, k) /\ x # ConcatOut
    <3>1. \A l \in 1 .. N : c.ins[l] = x => l = k
      <4>1. \A l \in 1 .. N : l \in 1 .. g.t \/ l = N
        BY <1>1 DEF N
      <4>2. \A l \in 1 .. g.t : <<"emb_out", l>> # Dense
        BY DEF Dense
      <4>3. ASSUME NEW l \in 1 .. N, c.ins[l] = x PROVE l = k
        <5>1. CASE l = N /\ k = N
          BY <5>1
        <5>2. CASE l \in 1 .. g.t /\ k \in 1 .. g.t
          <6>1. <<"emb_out", l>> = <<"emb_out", k>>
            BY <2>2, <2>12, <4>3, <5>2
          <6> QED BY <6>1
        <5>3. CASE l \in 1 .. g.t /\ k = N
          <6>1. <<"emb_out", l>> = Dense
            BY <2>2, <2>12, <4>3, <5>3
          <6> QED BY <4>2, <5>3, <6>1
        <5>4. CASE l = N /\ k \in 1 .. g.t
          <6>1. <<"emb_out", k>> = Dense
            BY <2>2, <2>12, <4>3, <5>4
          <6> QED BY <4>2, <5>4, <6>1
        <5> QED BY <4>1, <5>1, <5>2, <5>3, <5>4
      <4> QED BY <4>3
    <3>2. (CHOOSE l \in DOMAIN c.ins : c.ins[l] = x) = k
      BY <2>2, <2>12, <3>1
    <3>3. x \in Range(c.ins)
      BY <2>2, <2>12 DEF Range
    <3>4. pins[x] = s.next + Total(Lens(g), 1, k - 1)
      <4>1. lens = Lens(g)
        BY <2>2
      <4> HIDE DEF lens
      <4> QED BY <3>2, <3>3, <4>1
    <3>5. pins[x] = PartAt(g, k)
      <4> HIDE DEF pins
      <4>1. PartAt(g, k) \in Nat
        BY <2>7
      <4> QED BY <2>3, <3>4, <4>1 DEF PartAt
    <3>6. x # ConcatOut
      BY <2>2, <3>3 DEF ConcatOut, Dense
    <3> QED BY <3>3, <3>5, <3>6
  <2>13. ASSUME NEW k \in 1 .. N, NEW x, x = c.ins[k]
         PROVE  p.pinned[x] = PartAt(g, k) /\ x \in DOMAIN p.pinned
    <3>1. x \in DOMAIN pins /\ pins[x] = PartAt(g, k) /\ x # ConcatOut
      BY <2>12, <2>13
    <3> HIDE DEF pins
    <3>2. p.pinned = Put(Over(pins, a.pinned), ConcatOut, s.next)
      BY <2>10 DEF IsLowering
    <3> HIDE DEF p
    <3> QED BY <3>1, <3>2 DEF Put, Over
  <2>14. /\ IsLowering(p) /\ p.segments = a.segments /\ p.inputs = a.inputs /\ p.layers = a.layers
         /\ p.fcs = a.fcs /\ p.addr = a.addr /\ p.node = a.node /\ p.next = a.next
         /\ p.slots = a.slots
    BY <2>10 DEF IsLowering
  <2> HIDE DEF p
  <2>15. /\ \A k \in 1 .. g.t : /\ p.pinned[<<"emb_out", k>>] = PartAt(g, k)
                                /\ <<"emb_out", k>> \in DOMAIN p.pinned
         /\ p.pinned[Dense] = PartAt(g, N)
    <3>1. \A k \in 1 .. g.t : k \in 1 .. N
      BY <1>1 DEF N
    <3> QED BY <2>2, <2>8, <2>13, <3>1
  <2>16. PartAt(g, N) + pad16(PartLen(Dense)) <= p.next
    <3>1. s.next + nbytes = PartAt(g, N) + pad16(PartLen(Dense))
      BY <2>3, <2>9
    <3> QED BY <2>10, <2>14, <3>1
  <2>17. /\ p.segments = <<>> /\ p.inputs = <<>> /\ p.layers = <<>> /\ p.fcs = 0 /\ p.addr = <<>>
         /\ p.node = 1 /\ p.slots = <<>>
    BY <2>10, <2>14, EmptyIs DEF SameRecords, s
  <2> QED BY <2>6, <2>10, <2>11, <2>14, <2>15, <2>16, <2>17 DEF Pinned, N
<1> QED BY <1>2, <1>3

\* Pinning leaves the record one.
LEMMA PinsLower ==
  ASSUME NEW g, Shape(g)
  PROVE  IsLowering(PinConcats)
<1> DEFINE s == EmptyLowering
           c == ConcatNode(g.t)
           lens == [k \in DOMAIN c.ins |-> IF IsInit(c.ins[k]) THEN 0 ELSE PartLen(c.ins[k])]
           pins == [x \in Range(c.ins) |->
                      s.next + Total(lens, 1, (CHOOSE k \in DOMAIN c.ins : c.ins[k] = x) - 1)]
           nbytes == pad16(Total(lens, 1, Len(lens)))
           I == \E k \in DOMAIN lens : IsInit(c.ins[k])
           J == \E k \in DOMAIN lens : lens[k] < 0
           K == \E k \in DOMAIN lens : Total(lens, 1, k - 1) % 16 # 0
<1>1. PinConcats = PinConcat(s, c) \/ PinConcats = s
  BY PinnedOnce
<1>2. IsLowering(s)
  BY EmptyIs
<1>3. s.error = ""
  BY EmptyStands DEF Failed
<1>4. PinConcat(s, c) =
        CASE s.error # "" -> s
          [] s.error = "" /\ I -> [s EXCEPT !.error = "NotImplementedError"]
          [] s.error = "" /\ J -> [s EXCEPT !.error = "StopIteration"]
          [] s.error = "" /\ K -> [s EXCEPT !.error = "ValueError"]
          [] OTHER -> [Alloc(s, nbytes) EXCEPT !.pinned = Put(Over(pins, @), c.out, s.next)]
  BY DEF PinConcat
<1> HIDE DEF I, J, K, pins, nbytes, s, c
<1>5. \/ PinConcat(s, c) = [s EXCEPT !.error = "NotImplementedError"]
      \/ PinConcat(s, c) = [s EXCEPT !.error = "StopIteration"]
      \/ PinConcat(s, c) = [s EXCEPT !.error = "ValueError"]
      \/ PinConcat(s, c) = [Alloc(s, nbytes) EXCEPT !.pinned = Put(Over(pins, @), c.out, s.next)]
  BY <1>3, <1>4
<1>6. IsLowering(Alloc(s, nbytes))
  BY <1>2, AllocIs
<1> QED BY <1>1, <1>2, <1>5, <1>6 DEF IsLowering

\* The fc layers and the bytes they need.
WBytes(g, j) == pad16(g.d[j + 1]) * pad16(g.d[j])
BBytes(g, j) == pad16(g.d[j + 1]) * 4

\* The MatMul nodes are those of the chain.
LEMMA MatMulsAre ==
  ASSUME NEW g, Shape(g)
  PROVE  MatMuls = {MatMulNode(j, g.first) : j \in 1 .. g.n}
<1>1. /\ g.t \in Nat /\ g.pre \in Nat /\ g.n \in Nat /\ (g.t > 0 => g.pre = g.t + 1)
      /\ DOMAIN Nodes = 1 .. g.pre + 3 * g.n
  BY ShapeNumbers DEF Nodes
<1>2. ASSUME NEW i \in DOMAIN Nodes, Nodes[i].op = "MatMul"
      PROVE  \E j \in 1 .. g.n : Nodes[i] = MatMulNode(j, g.first)
  <2>1. i \in 1 .. g.pre + 3 * g.n
    BY <1>1
  <2> QED BY <1>2, <2>1, Kinds DEF Nodes
<1>3. ASSUME NEW j \in 1 .. g.n
      PROVE  \E i \in DOMAIN Nodes : Nodes[i].op = "MatMul" /\ Nodes[i] = MatMulNode(j, g.first)
  <2> DEFINE i == g.pre + 3 * j - 2
  <2>1. i \in 1 .. g.pre + 3 * g.n
    BY <1>1
  <2>2. ChainForm(model.nodes, g.pre, g.n, g.first, g.act)
    BY DEF Shape, Form
  <2>3. Nodes[i] = MatMulNode(j, g.first)
    BY <2>2 DEF ChainForm, Nodes
  <2> HIDE DEF i
  <2>4. Nodes[i].op = "MatMul"
    BY <2>3 DEF MatMulNode, Node
  <2> QED BY <1>1, <2>1, <2>3, <2>4
<1> QED BY <1>2, <1>3 DEF MatMuls

\* The bytes of a layer's weights and bias: positive multiples of 16.
LEMMA BytesAre ==
  ASSUME NEW g, Shape(g), NEW j \in 1 .. g.n
  PROVE  /\ WeightBytes(MatMulNode(j, g.first)) = WBytes(g, j)
         /\ BiasBytes(MatMulNode(j, g.first)) = BBytes(g, j)
         /\ WBytes(g, j) \in Nat /\ WBytes(g, j) >= 1 /\ WBytes(g, j) % 16 = 0
         /\ BBytes(g, j) \in Nat /\ BBytes(g, j) >= 1 /\ BBytes(g, j) % 16 = 0
         /\ pad16(g.d[j + 1]) \in Nat /\ pad16(g.d[j + 1]) % 16 = 0 /\ pad16(g.d[j + 1]) >= 1
<1> DEFINE x == g.d[j]
           y == g.d[j + 1]
<1>1. /\ \A i \in 1 .. g.n + 1 : g.d[i] \in Nat /\ g.d[i] >= 1
      /\ model.shape[<<"w", j>>] = <<x, y>>
      /\ g.n \in Nat
  BY ShapeNumbers
<1>2. x \in Nat /\ x >= 1 /\ y \in Nat /\ y >= 1
  <2>1. j \in 1 .. g.n + 1 /\ j + 1 \in 1 .. g.n + 1
    BY <1>1
  <2> QED BY <1>1, <2>1
<1>3. MatMulNode(j, g.first).ins[2] = <<"w", j>>
  BY DEF MatMulNode, Node
<1> HIDE DEF x, y
<1>4. /\ WeightBytes(MatMulNode(j, g.first)) = pad16(y) * pad16(x)
      /\ BiasBytes(MatMulNode(j, g.first)) = pad16(y) * 4
  BY <1>1, <1>3 DEF WeightBytes, BiasBytes
<1>5. LET p == pad16(y) * pad16(x) IN p \in Nat /\ p >= 1 /\ p % 16 = 0
  BY <1>2, PadTimes
<1>6. pad16(y) \in Nat /\ pad16(y) % 16 = 0 /\ pad16(y) >= 1
  BY SMTT(30), <1>2, PadIs
<1>7. \A z \in Nat : z >= 1 /\ z % 16 = 0 => z * 4 \in Nat /\ z * 4 >= 1 /\ (z * 4) % 16 = 0
  BY SMTT(30)
<1>8. pad16(y) * 4 \in Nat /\ pad16(y) * 4 >= 1 /\ (pad16(y) * 4) % 16 = 0
  BY <1>6, <1>7
<1>9. WBytes(g, j) = pad16(y) * pad16(x) /\ BBytes(g, j) = pad16(y) * 4
  BY DEF WBytes, BBytes, x, y
<1> QED BY <1>4, <1>5, <1>6, <1>8, <1>9 DEF y

\* The two slots: after the pins, and each fit for every fc layer.
Slotted(g, s) ==
  job.streaming =>
    /\ s.slots[1] \in Nat /\ s.slots[1] % 16 = 0
    /\ s.slots[2] \in Nat /\ s.slots[2] % 16 = 0
    /\ g.t > 0 => PartAt(g, g.t + 1) + pad16(PartLen(Dense)) <= s.slots[1]
    /\ \A j \in 1 .. g.n : /\ s.slots[1] + (WBytes(g, j) + BBytes(g, j)) <= s.slots[2]
                           /\ s.slots[2] + (WBytes(g, j) + BBytes(g, j)) <= s.next

SlotBytes == Max({WeightBytes(n) + BiasBytes(n) : n \in MatMuls} \cup {0})

\* A streaming slot is as large as the largest layer.
LEMMA SlotBytesAre ==
  ASSUME NEW g, Shape(g)
  PROVE  SlotBytes \in Nat /\ \A j \in 1 .. g.n : WBytes(g, j) + BBytes(g, j) <= SlotBytes
<1> DEFINE f == [j \in 1 .. g.n |-> WBytes(g, j) + BBytes(g, j)]
           S == {WeightBytes(n) + BiasBytes(n) : n \in MatMuls} \cup {0}
<1>1. g.n \in Nat
  BY ShapeNumbers
<1>2. \A j \in 1 .. g.n : f[j] \in Nat /\ f[j] = WBytes(g, j) + BBytes(g, j)
  <2> SUFFICES ASSUME NEW j \in 1 .. g.n
               PROVE  f[j] \in Nat /\ f[j] = WBytes(g, j) + BBytes(g, j)
    OBVIOUS
  <2>1. WBytes(g, j) \in Nat /\ BBytes(g, j) \in Nat
    BY BytesAre
  <2> QED BY <2>1
<1>3. \A j \in 1 .. g.n : LET n == MatMulNode(j, g.first)
                          IN WeightBytes(n) + BiasBytes(n) = f[j]
  <2> SUFFICES ASSUME NEW j \in 1 .. g.n
               PROVE  LET n == MatMulNode(j, g.first) IN WeightBytes(n) + BiasBytes(n) = f[j]
    OBVIOUS
  <2>1. /\ WeightBytes(MatMulNode(j, g.first)) = WBytes(g, j)
        /\ BiasBytes(MatMulNode(j, g.first)) = BBytes(g, j)
    BY BytesAre
  <2> QED BY <1>2, <2>1
<1> HIDE DEF f
<1>4. S = {f[j] : j \in 1 .. g.n} \cup {0}
  BY <1>3, MatMulsAre
<1> HIDE DEF S
<1>5. Max(S) \in Nat /\ \A j \in 1 .. g.n : f[j] <= Max(S)
  BY <1>1, <1>2, <1>4, MaxIs
<1>6. Max(S) = SlotBytes
  BY DEF S, SlotBytes
<1> QED BY <1>2, <1>5, <1>6

\* Before the first node the pinned buffer and the two slots are allocated.
LEMMA GroundLaid ==
  ASSUME NEW g, Shape(g), ~Failed(Ground)
  PROVE  Pinned(g, Ground) /\ Slotted(g, Ground) /\ IsLowering(Ground)
<1> DEFINE p == PinConcats
<1>1. IsLowering(p)
  BY PinsLower
<1>2. CASE ~job.streaming
  <2>1. Ground = p
    BY <1>2 DEF Ground, AddSlots
  <2>2. Pinned(g, p)
    BY <2>1, ConcatPinned
  <2> QED BY <1>1, <1>2, <2>1, <2>2 DEF Slotted
<1>3. CASE job.streaming
  <2> DEFINE a == Alloc(p, SlotBytes)
             b == Alloc(a, SlotBytes)
             t == [b EXCEPT !.slots = <<p.next, p.next + pad16(SlotBytes)>>]
  <2>1. Ground = t
    BY <1>3 DEF Ground, AddSlots, SlotBytes
  <2> HIDE DEF p
  <2>2. IsLowering(a) /\ SameRecords(p, a) /\ a.segments = p.segments
    BY <1>1, AllocIs
  <2>3. IsLowering(b) /\ SameRecords(a, b) /\ b.segments = a.segments
    <3> HIDE DEF a
    <3> QED BY <2>2, AllocIs
  <2>4. /\ IsLowering(t) /\ t.slots = <<p.next, p.next + pad16(SlotBytes)>> /\ t.next = b.next
        /\ t.inputs = b.inputs /\ t.layers = b.layers /\ t.pinned = b.pinned /\ t.fcs = b.fcs
        /\ t.addr = b.addr /\ t.node = b.node /\ t.error = b.error /\ t.segments = b.segments
    <3> HIDE DEF b
    <3> QED BY <2>3 DEF IsLowering
  <2>5. Pinned(g, p)
    <3>1. ~Failed(p)
      BY <2>1, <2>2, <2>3, <2>4 DEF Failed, SameRecords
    <3> QED BY <3>1, ConcatPinned DEF p
  <2>6. SlotBytes \in Nat /\ \A j \in 1 .. g.n : WBytes(g, j) + BBytes(g, j) <= SlotBytes
    BY SlotBytesAre
  <2>7. p.next \in Nat /\ p.next % 16 = 0
    BY <2>5 DEF Pinned
  <2>8. a.next \in Nat /\ a.next % 16 = 0 /\ p.next + pad16(SlotBytes) <= a.next
    BY <1>1, <2>6, <2>7, AllocMoves
  <2>9. b.next \in Nat /\ b.next % 16 = 0 /\ a.next + pad16(SlotBytes) <= b.next
    <3> HIDE DEF a
    <3> QED BY <2>2, <2>6, <2>8, AllocMoves
  <2>10. pad16(SlotBytes) \in Nat /\ pad16(SlotBytes) % 16 = 0 /\ SlotBytes <= pad16(SlotBytes)
    BY <2>6, PadIs
  <2> DEFINE c == p.next
             z == pad16(SlotBytes)
             e == t.next
  <2>11. /\ c \in Nat /\ c % 16 = 0 /\ e \in Nat /\ e % 16 = 0 /\ z \in Nat /\ z % 16 = 0
         /\ (c + z) + z <= e
    <3>1. e = b.next
      BY <2>4
    <3> DEFINE x == a.next
    <3>2. x \in Nat /\ c + z <= x /\ x + z <= e /\ e \in Nat /\ e % 16 = 0
      BY <2>8, <2>9, <3>1
    <3> HIDE DEF x, c, z, e
    <3>3. c \in Nat /\ c % 16 = 0 /\ z \in Nat /\ z % 16 = 0
      BY <2>7, <2>10 DEF c, z
    <3> QED BY ONLY <3>2, <3>3
  <2>12. t.slots[1] = c /\ t.slots[2] = c + z
    BY <2>4
  <2> HIDE DEF a, b, t, c, z, e
  <2>13. (c + z) \in Nat /\ (c + z) % 16 = 0 /\ c <= e
    BY ONLY <2>11
  <2>14. ASSUME NEW j \in 1 .. g.n
         PROVE  /\ c + (WBytes(g, j) + BBytes(g, j)) <= c + z
                /\ (c + z) + (WBytes(g, j) + BBytes(g, j)) <= e
    <3> DEFINE y == WBytes(g, j) + BBytes(g, j)
    <3>1. WBytes(g, j) \in Nat /\ BBytes(g, j) \in Nat
      BY BytesAre
    <3>2. y \in Nat /\ y <= z
      BY <2>6, <2>10, <3>1 DEF z
    <3> HIDE DEF y
    <3>3. c + y <= c + z /\ (c + z) + y <= e
      BY ONLY <2>11, <3>2
    <3> QED BY <3>3 DEF y
  <2>15. Slotted(g, t)
    <3>1. g.t > 0 => PartAt(g, g.t + 1) + pad16(PartLen(Dense)) <= c
      BY <2>5 DEF Pinned, c
    <3> QED BY <2>11, <2>12, <2>13, <2>14, <3>1 DEF Slotted, e
  <2>16. Pinned(g, t)
    <3>1. t.next = e /\ t.next \in Nat /\ t.next % 16 = 0
      BY <2>11 DEF e
    <3>2. /\ t.segments = p.segments /\ t.inputs = p.inputs /\ t.layers = p.layers
          /\ t.fcs = p.fcs /\ t.addr = p.addr /\ t.node = p.node /\ t.pinned = p.pinned
      BY <2>2, <2>3, <2>4 DEF SameRecords
    <3>3. g.t > 0 => PartAt(g, g.t + 1) + pad16(PartLen(Dense)) <= t.next
      <4> SUFFICES ASSUME g.t > 0 PROVE PartAt(g, g.t + 1) + pad16(PartLen(Dense)) <= t.next
        OBVIOUS
      <4> DEFINE x == PartAt(g, g.t + 1) + pad16(PartLen(Dense))
      <4>1. x <= c
        BY <2>5 DEF Pinned, c
      <4>2. x \in Nat
        <5>1. g.t \in Nat /\ g.t + 1 \in 1 .. g.t + 1
          BY ShapeNumbers
        <5>2. PartAt(g, g.t + 1) \in Nat
          BY <5>1, PartsFollow
        <5>3. pad16(PartLen(Dense)) \in Nat
          BY DenseLen, PadIs
        <5> QED BY <5>2, <5>3
      <4> HIDE DEF x
      <4>3. x <= e
        BY ONLY <2>11, <2>13, <4>1, <4>2
      <4> QED BY <3>1, <4>3 DEF x
    <3> QED BY <2>4, <2>5, <3>1, <3>2, <3>3 DEF Pinned
  <2> QED BY <2>1, <2>4, <2>15, <2>16
<1> QED BY <1>2, <1>3

-----------------------------------------------------------------------------
(***************************************************************************)
(* What a layout promises, in terms of the record of its ground: the first *)
(* byte after it, the places in the concat's buffer and the two slots.     *)
(***************************************************************************)
\* The ground of a layout.
Earth(g, e) ==
  /\ e.base \in Nat /\ e.base % 16 = 0
  /\ g.t > 0 =>
       /\ \A k \in 1 .. g.t : /\ <<"emb_out", k>> \in DOMAIN e.pinned
                              /\ e.pinned[<<"emb_out", k>>] = e.at[k]
       /\ e.pinned[Dense] = e.at[g.t + 1]
       /\ \A k \in 1 .. g.t + 1 : e.at[k] \in Nat /\ e.at[k] % 16 = 0
       /\ \A k \in 1 .. g.t : \A l \in k + 1 .. g.t + 1 : e.at[k] + pad16(g.cols) <= e.at[l]
       /\ e.at[g.t + 1] + pad16(e.dense) <= e.base
  /\ e.streaming =>
       /\ e.slots[1] \in Nat /\ e.slots[1] % 16 = 0
       /\ e.slots[2] \in Nat /\ e.slots[2] % 16 = 0
       /\ g.t > 0 => e.at[g.t + 1] + pad16(e.dense) <= e.slots[1]
       /\ \A j \in 1 .. g.n : /\ e.slots[1] + (WBytes(g, j) + BBytes(g, j)) <= e.slots[2]
                              /\ e.slots[2] + (WBytes(g, j) + BBytes(g, j)) <= e.base

\* What of it the model and the job say.
Given(e) ==
  /\ e.streaming = job.streaming
  /\ e.dense = Product(concretize(model.inputs[1].dims, 1))

\* The addresses allocated before the first node, as a record.
LEMMA EarthExists ==
  ASSUME NEW g, Shape(g), ~Failed(Ground)
  PROVE  \E e : /\ Given(e) /\ Earth(g, e)
                /\ e.base = Ground.next /\ e.pinned = Ground.pinned /\ e.slots = Ground.slots
<1> DEFINE s == Ground
           N == g.t + 1
           e == [base |-> s.next, pinned |-> s.pinned, slots |-> s.slots,
                 at |-> [k \in 1 .. N |-> PartAt(g, k)], dense |-> PartLen(Dense),
                 streaming |-> job.streaming]
<1>1. Pinned(g, s) /\ Slotted(g, s)
  BY GroundLaid
<1>2. g.t \in Nat /\ g.cols \in Nat
  BY ShapeNumbers
<1>3. PartLen(Dense) = Product(concretize(model.inputs[1].dims, 1))
  BY DenseLen
<1> HIDE DEF s
<1>4. Given(e)
  BY <1>3 DEF Given
<1>5. /\ e.base = s.next /\ e.pinned = s.pinned /\ e.slots = s.slots
      /\ e.dense = PartLen(Dense) /\ e.streaming = job.streaming
      /\ \A k \in 1 .. N : e.at[k] = PartAt(g, k)
  OBVIOUS
<1> HIDE DEF e
<1>6. ASSUME g.t > 0
      PROVE  /\ \A k \in 1 .. g.t : /\ <<"emb_out", k>> \in DOMAIN e.pinned
                                    /\ e.pinned[<<"emb_out", k>>] = e.at[k]
             /\ e.pinned[Dense] = e.at[N]
             /\ \A k \in 1 .. N : e.at[k] \in Nat /\ e.at[k] % 16 = 0
             /\ \A k \in 1 .. g.t : \A l \in k + 1 .. N : e.at[k] + pad16(g.cols) <= e.at[l]
             /\ e.at[N] = PartAt(g, N)
  <2>1. \A k \in 1 .. g.t : k \in 1 .. N /\ k + 1 \in 1 .. N
    BY <1>2
  <2>2. N \in 1 .. N
    BY <1>2
  <2>3. /\ \A k \in 1 .. N : PartAt(g, k) \in Nat
        /\ \A k \in 1 .. g.t : PartAt(g, k + 1) = PartAt(g, k) + g.cols
        /\ \A k \in 1 .. N : \A l \in k .. N : PartAt(g, k) <= PartAt(g, l)
    BY <1>6, PartsFollow
  <2>4. /\ \A k \in 1 .. g.t : /\ s.pinned[<<"emb_out", k>>] = PartAt(g, k)
                               /\ <<"emb_out", k>> \in DOMAIN s.pinned
        /\ s.pinned[Dense] = PartAt(g, N)
        /\ \A k \in 1 .. N : PartAt(g, k) % 16 = 0
        /\ g.cols % 16 = 0
    BY <1>1, <1>6 DEF Pinned
  <2>5. pad16(g.cols) = g.cols
    BY <1>2, <2>4, PadIs
  <2>6. ASSUME NEW k \in 1 .. g.t, NEW l \in k + 1 .. N
        PROVE  e.at[k] + pad16(g.cols) <= e.at[l]
    <3> DEFINE m == k + 1
    <3>1. k \in 1 .. N /\ m \in 1 .. N /\ l \in 1 .. N /\ l \in m .. N
      BY <1>2, <2>1
    <3> HIDE DEF N
    <3>2. PartAt(g, m) = PartAt(g, k) + g.cols
      BY <2>3
    <3> HIDE DEF m
    <3>3. PartAt(g, m) <= PartAt(g, l)
      BY <2>3, <3>1
    <3>4. e.at[k] = PartAt(g, k) /\ e.at[l] = PartAt(g, l)
      BY <1>5, <3>1
    <3> QED BY <2>5, <3>2, <3>3, <3>4
  <2> HIDE DEF N
  <2>7. \A k \in 1 .. g.t : e.at[k] = PartAt(g, k)
    BY <1>5, <2>1
  <2>8. \A k \in 1 .. N : e.at[k] \in Nat /\ e.at[k] % 16 = 0
    BY <1>5, <2>3, <2>4
  <2> QED BY <1>5, <2>2, <2>4, <2>6, <2>7, <2>8
<1>7. s.next \in Nat /\ s.next % 16 = 0
  BY <1>1 DEF Pinned
<1>8. g.t > 0 => PartAt(g, N) + pad16(PartLen(Dense)) <= s.next
  BY <1>1 DEF Pinned
<1>9. e.streaming =>
       /\ e.slots[1] \in Nat /\ e.slots[1] % 16 = 0
       /\ e.slots[2] \in Nat /\ e.slots[2] % 16 = 0
       /\ g.t > 0 => e.at[g.t + 1] + pad16(e.dense) <= e.slots[1]
       /\ \A j \in 1 .. g.n : /\ e.slots[1] + (WBytes(g, j) + BBytes(g, j)) <= e.slots[2]
                              /\ e.slots[2] + (WBytes(g, j) + BBytes(g, j)) <= e.base
  BY <1>1, <1>5, <1>6 DEF Slotted
<1>10. Earth(g, e)
  BY <1>5, <1>6, <1>7, <1>8, <1>9 DEF Earth
<1> QED BY <1>4, <1>5, <1>10 DEF s

-----------------------------------------------------------------------------
(***************************************************************************)
(* What is laid out after every node.                                      *)
(***************************************************************************)
PinAreas(g, e) ==
  {<<<<"Gather", k>>, "out", e.at[k], e.at[k] + pad16(g.cols)>> : k \in 1 .. g.t}
    \cup {<<Dense, "input", e.at[g.t + 1], e.at[g.t + 1] + pad16(e.dense)>>}

Slot(e, j) == e.slots[1 + ((j - 1) % 2)]
WeightArea(g, e, j) ==
  <<<<"MatMul", j>>, "weight", Slot(e, j), Slot(e, j) + WBytes(g, j)>>
BiasArea(g, e, j) ==
  <<<<"MatMul", j>>, "bias", Slot(e, j) + WBytes(g, j),
    (Slot(e, j) + WBytes(g, j)) + BBytes(g, j)>>

\* What lies in the ground, up to the m-th fc layer.
Known(g, e, m, r) ==
  \/ g.t > 0 /\ r \in PinAreas(g, e)
  \/ e.streaming /\ \E j \in 1 .. m : r = WeightArea(g, e, j) \/ r = BiasArea(g, e, j)

Apart(r, q) == r[4] <= q[3] \/ q[4] <= r[3]
Sized(r, top) == r[3] \in Nat /\ r[4] \in Nat /\ r[3] % 16 = 0 /\ r[4] <= top

\* The areas of S lie in the ground or after low, none over another, up to top.
Fits(g, e, m, S, low, top) ==
  /\ \A r \in S : Sized(r, top) /\ (low <= r[3] \/ Known(g, e, m, r))
  /\ \A r, q \in S : \/ r = q \/ Apart(r, q)
                     \/ Known(g, e, m, r) \/ Known(g, e, m, q)

\* The allocator stands on a multiple of 16.
Stands(e, s) ==
  /\ IsLowering(s) /\ Lists(s) /\ s.pinned = e.pinned /\ s.slots = e.slots
  /\ s.next \in Nat /\ s.next % 16 = 0 /\ e.base <= s.next

Laid(g, e, m, s) == Stands(e, s) /\ Fits(g, e, m, Areas(s), e.base, s.next)

\* What is laid after all before it lies over none of it.
LEMMA LaidGrows ==
  ASSUME NEW g, NEW e, NEW m \in Nat, NEW s, Laid(g, e, m, s), e.base \in Nat,
         NEW t, Stands(e, t), s.next <= t.next,
         NEW S, Areas(t) \subseteq Areas(s) \cup S, Fits(g, e, m, S, s.next, t.next)
  PROVE  Laid(g, e, m, t)
<1> DEFINE A == Areas(s)
           B == Areas(t)
           c == s.next
           d == t.next
           b == e.base
           K(r) == Known(g, e, m, r)
<1>1. /\ c \in Nat /\ d \in Nat /\ b \in Nat /\ c <= d /\ b <= c
  BY DEF Laid, Stands
<1>2. /\ \A r \in A : Sized(r, c) /\ (b <= r[3] \/ K(r))
      /\ \A r, q \in A : r = q \/ Apart(r, q) \/ K(r) \/ K(q)
  BY DEF Laid, Fits
<1>3. /\ \A r \in S : Sized(r, d) /\ (c <= r[3] \/ K(r))
      /\ \A r, q \in S : r = q \/ Apart(r, q) \/ K(r) \/ K(q)
  BY DEF Fits
<1>4. \A r \in B : r \in A \/ r \in S
  OBVIOUS
<1> HIDE DEF A, B, c, d, b, K
<1>5. ASSUME NEW r \in B
      PROVE  Sized(r, d) /\ (b <= r[3] \/ K(r))
  <2>1. CASE r \in A
    <3>1. Sized(r, c) /\ (b <= r[3] \/ K(r))
      BY <1>2, <2>1
    <3>2. Sized(r, d)
      BY <1>1, <3>1 DEF Sized
    <3> QED BY <3>1, <3>2
  <2>2. CASE r \in S
    <3>1. Sized(r, d) /\ (c <= r[3] \/ K(r))
      BY <1>3, <2>2
    <3>2. c <= r[3] => b <= r[3]
      BY <1>1, <3>1 DEF Sized
    <3> QED BY <3>1, <3>2
  <2> QED BY <1>4, <2>1, <2>2
<1>6. ASSUME NEW r \in A, NEW q \in S PROVE Apart(r, q) \/ K(q)
  <2>1. Sized(r, c) /\ Sized(q, d) /\ (c <= q[3] \/ K(q))
    BY <1>2, <1>3
  <2> QED BY <1>1, <2>1 DEF Sized, Apart
<1>7. ASSUME NEW r \in B, NEW q \in B
      PROVE  r = q \/ Apart(r, q) \/ K(r) \/ K(q)
  <2>1. Apart(q, r) <=> Apart(r, q)
    BY DEF Apart
  <2> QED BY <1>2, <1>3, <1>4, <1>6, <2>1
<1> QED BY <1>5, <1>7 DEF Laid, Fits, B, b, d, K

\* An area of its own where the allocator stood.
LEMMA OneFits ==
  ASSUME NEW g, NEW e, NEW m, NEW r, NEW low \in Nat, NEW top,
         Sized(r, top), low <= r[3] \/ Known(g, e, m, r)
  PROVE  Fits(g, e, m, {r}, low, top)
BY DEF Fits

\* What is laid out for m layers is laid out for one more.
LEMMA MoreKnown ==
  ASSUME NEW g, NEW e, NEW m \in Nat, NEW s, Laid(g, e, m, s)
  PROVE  Laid(g, e, m + 1, s)
<1>1. \A r : Known(g, e, m, r) => Known(g, e, m + 1, r)
  BY DEF Known
<1>2. ASSUME NEW r, NEW q, Known(g, e, m, r) \/ Known(g, e, m, q) \/ r = q \/ Apart(r, q)
      PROVE  Known(g, e, m + 1, r) \/ Known(g, e, m + 1, q) \/ r = q \/ Apart(r, q)
  BY <1>1, <1>2
<1> QED BY <1>1 DEF Laid, Fits

-----------------------------------------------------------------------------
(***************************************************************************)
(* The ground itself: pins and slots lie apart, save the layers that take  *)
(* turns in a slot.                                                        *)
(***************************************************************************)
\* A pin lies before the slots, and before the next pin.
LEMMA PinsApart ==
  ASSUME NEW g, Shape(g), NEW e, Earth(g, e), e.dense \in Nat, g.t > 0,
         NEW r, r \in PinAreas(g, e)
  PROVE  /\ r[3] \in Nat /\ r[4] \in Nat /\ r[3] % 16 = 0
         /\ r[4] <= e.at[g.t + 1] + pad16(e.dense)
         /\ \A q \in PinAreas(g, e) : r = q \/ Apart(r, q)
<1> DEFINE N == g.t + 1
           z == pad16(g.cols)
           Q(k) == <<<<"Gather", k>>, "out", e.at[k], e.at[k] + z>>
           D == <<Dense, "input", e.at[N], e.at[N] + pad16(e.dense)>>
<1>1. g.t \in Nat /\ N \in Nat /\ N \in 1 .. N
  BY ShapeNumbers
<1>2. z \in Nat /\ pad16(e.dense) \in Nat
  BY ShapeNumbers, PadIs
<1>3. /\ \A k \in 1 .. N : e.at[k] \in Nat /\ e.at[k] % 16 = 0
      /\ \A k \in 1 .. g.t : \A l \in k + 1 .. N : e.at[k] + z <= e.at[l]
  BY DEF Earth
<1>4. \A q \in PinAreas(g, e) : q = D \/ \E k \in 1 .. g.t : q = Q(k)
  BY DEF PinAreas
<1>5. \A k \in 1 .. g.t : Q(k)[3] = e.at[k] /\ Q(k)[4] = e.at[k] + z
  OBVIOUS
<1>6. D[3] = e.at[N] /\ D[4] = e.at[N] + pad16(e.dense)
  OBVIOUS
<1>7. \A k \in 1 .. g.t : k \in 1 .. N /\ N \in k + 1 .. N
  BY <1>1
<1> HIDE DEF N, z, Q, D
<1>8. ASSUME NEW k \in 1 .. g.t
      PROVE  /\ Q(k)[3] \in Nat /\ Q(k)[4] \in Nat /\ Q(k)[3] % 16 = 0
             /\ Q(k)[4] <= e.at[N] /\ e.at[N] \in Nat
  BY <1>1, <1>2, <1>3, <1>5, <1>7
<1>9. /\ D[3] \in Nat /\ D[4] \in Nat /\ D[3] % 16 = 0
      /\ D[4] <= e.at[N] + pad16(e.dense) /\ e.at[N] \in Nat
  BY <1>1, <1>2, <1>3, <1>6
<1>10. ASSUME NEW k \in 1 .. g.t, NEW l \in 1 .. g.t
       PROVE  Q(k) = Q(l) \/ Apart(Q(k), Q(l))
  <2>1. CASE k = l
    BY <2>1
  <2>2. CASE k < l
    <3>1. l \in k + 1 .. N
      BY <1>1, <2>2 DEF N
    <3>2. e.at[k] + z <= e.at[l]
      BY <1>3, <3>1
    <3> QED BY <1>5, <3>2 DEF Apart
  <2>3. CASE l < k
    <3>1. k \in l + 1 .. N
      BY <1>1, <2>3 DEF N
    <3>2. e.at[l] + z <= e.at[k]
      BY <1>3, <3>1
    <3> QED BY <1>5, <3>2 DEF Apart
  <2> QED BY <1>1, <2>1, <2>2, <2>3
<1>11. ASSUME NEW k \in 1 .. g.t
       PROVE  Apart(Q(k), D) /\ Apart(D, Q(k))
  BY <1>6, <1>8 DEF Apart
<1>12. /\ r[3] \in Nat /\ r[4] \in Nat /\ r[3] % 16 = 0
       /\ r[4] <= e.at[N] + pad16(e.dense)
  <2>1. CASE r = D
    BY <1>9, <2>1
  <2>2. CASE \E k \in 1 .. g.t : r = Q(k)
    <3>1. PICK k \in 1 .. g.t : r = Q(k)
      BY <2>2
    <3> DEFINE a == Q(k)[3]
               b == Q(k)[4]
               c == e.at[N]
               d == pad16(e.dense)
    <3>2. a \in Nat /\ b \in Nat /\ a % 16 = 0 /\ b <= c /\ c \in Nat /\ d \in Nat
      BY <1>2, <1>8
    <3> HIDE DEF a, b, c, d
    <3>3. b <= c + d
      BY ONLY <3>2
    <3> QED BY <3>1, <3>2, <3>3 DEF a, b, c, d
  <2> QED BY <1>4, <2>1, <2>2
<1>13. \A q \in PinAreas(g, e) : r = q \/ Apart(r, q)
  BY <1>4, <1>10, <1>11
<1> QED BY <1>12, <1>13 DEF N

\* A weight or a bias lies in the slot of its layer.
LEMMA InSlot ==
  ASSUME NEW g, Shape(g), NEW e, Earth(g, e), e.streaming, NEW j \in 1 .. g.n,
         NEW r, r = WeightArea(g, e, j) \/ r = BiasArea(g, e, j)
  PROVE  /\ Slot(e, j) \in Nat /\ Slot(e, j) % 16 = 0
         /\ Slot(e, j) = e.slots[IF j % 2 = 1 THEN 1 ELSE 2]
         /\ r[3] \in Nat /\ r[4] \in Nat /\ r[3] % 16 = 0
         /\ Slot(e, j) <= r[3] /\ r[4] <= Slot(e, j) + (WBytes(g, j) + BBytes(g, j))
         /\ r[1] = <<"MatMul", j>> /\ r[2] \in {"weight", "bias"}
<1> DEFINE c == Slot(e, j)
           w == WBytes(g, j)
           b == BBytes(g, j)
<1>1. w \in Nat /\ b \in Nat /\ w % 16 = 0 /\ b % 16 = 0
  BY BytesAre
<1>2. g.n \in Nat
  BY ShapeNumbers
<1>3. c = e.slots[IF j % 2 = 1 THEN 1 ELSE 2]
  <2>1. 1 + ((j - 1) % 2) = IF j % 2 = 1 THEN 1 ELSE 2
    BY <1>2
  <2> QED BY <2>1 DEF Slot
<1>4. c \in Nat /\ c % 16 = 0
  BY <1>3 DEF Earth
<1>5. \/ r = <<<<"MatMul", j>>, "weight", c, c + w>>
      \/ r = <<<<"MatMul", j>>, "bias", c + w, (c + w) + b>>
  BY DEF WeightArea, BiasArea
<1> HIDE DEF c, w, b
<1>6. \/ r[3] = c /\ r[4] = c + w
      \/ r[3] = c + w /\ r[4] = (c + w) + b
  BY <1>5
<1>7. r[1] = <<"MatMul", j>> /\ r[2] \in {"weight", "bias"}
  BY <1>5
<1>8. (c + w) % 16 = 0
  BY <1>1, <1>4
<1>9. /\ r[3] \in Nat /\ r[4] \in Nat /\ r[3] % 16 = 0
      /\ c <= r[3] /\ r[4] <= c + (w + b)
  <2> DEFINE x == r[3]
             y == r[4]
  <2>1. (x = c /\ y = c + w) \/ (x = c + w /\ y = (c + w) + b)
    BY <1>6
  <2> HIDE DEF x, y
  <2>2. x \in Nat /\ y \in Nat /\ x % 16 = 0 /\ c <= x /\ y <= c + (w + b)
    BY ONLY <1>1, <1>4, <1>8, <2>1
  <2> QED BY <2>2 DEF x, y
<1> QED BY <1>3, <1>4, <1>7, <1>9 DEF c, w, b

\* What one layer keeps in its slot lies apart.
LEMMA SlotApart ==
  ASSUME NEW g, Shape(g), NEW e, Earth(g, e), e.streaming, NEW j \in 1 .. g.n,
         NEW r, r = WeightArea(g, e, j) \/ r = BiasArea(g, e, j),
         NEW q, q = WeightArea(g, e, j) \/ q = BiasArea(g, e, j)
  PROVE  r = q \/ Apart(r, q)
<1> DEFINE c == Slot(e, j) + WBytes(g, j)
           w == WeightArea(g, e, j)
           b == BiasArea(g, e, j)
<1>1. c \in Nat
  <2>1. Slot(e, j) \in Nat /\ WBytes(g, j) \in Nat
    BY InSlot, BytesAre
  <2> QED BY <2>1
<1>2. w[4] = c /\ b[3] = c
  BY DEF WeightArea, BiasArea
<1> HIDE DEF c, w, b
<1>3. Apart(w, b) /\ Apart(b, w)
  BY <1>1, <1>2 DEF Apart
<1> QED BY <1>3 DEF w, b

\* All of it ends where the ground does.
LEMMA KnownEnds ==
  ASSUME NEW g, Shape(g), NEW e, Earth(g, e), e.dense \in Nat,
         NEW m \in Nat, m <= g.n, NEW r, Known(g, e, m, r)
  PROVE  r[3] \in Nat /\ r[4] \in Nat /\ r[3] % 16 = 0 /\ r[4] <= e.base
<1>1. e.base \in Nat /\ g.n \in Nat
  BY ShapeNumbers DEF Earth
<1>2. CASE g.t > 0 /\ r \in PinAreas(g, e)
  <2> DEFINE x == e.at[g.t + 1] + pad16(e.dense)
             y == r[4]
             b == e.base
  <2>1. r[3] \in Nat /\ y \in Nat /\ r[3] % 16 = 0 /\ y <= x
    BY <1>2, PinsApart
  <2>2. x <= b
    BY <1>2 DEF Earth
  <2>3. x \in Nat
    <3>1. g.t \in Nat /\ g.t + 1 \in 1 .. g.t + 1
      BY ShapeNumbers
    <3>2. e.at[g.t + 1] \in Nat
      BY <1>2, <3>1 DEF Earth
    <3>3. pad16(e.dense) \in Nat
      BY PadIs
    <3> QED BY <3>2, <3>3
  <2> HIDE DEF x, y, b
  <2>4. y <= b
    BY <1>1, <2>1, <2>2, <2>3 DEF b
  <2> QED BY <2>1, <2>4 DEF y, b
<1>3. CASE e.streaming /\ \E j \in 1 .. m : r = WeightArea(g, e, j) \/ r = BiasArea(g, e, j)
  <2>1. PICK j \in 1 .. m : r = WeightArea(g, e, j) \/ r = BiasArea(g, e, j)
    BY <1>3
  <2>2. j \in 1 .. g.n
    BY <1>1
  <2> DEFINE c == Slot(e, j)
             z == WBytes(g, j) + BBytes(g, j)
             y == r[4]
             b == e.base
  <2>3. c \in Nat /\ r[3] \in Nat /\ y \in Nat /\ r[3] % 16 = 0 /\ y <= c + z
    BY <1>3, <2>1, <2>2, InSlot
  <2>4. c + z <= b
    <3>1. c = e.slots[IF j % 2 = 1 THEN 1 ELSE 2]
      BY <1>3, <2>1, <2>2, InSlot
    <3>2. e.slots[1] + z <= e.slots[2] /\ e.slots[2] + z <= b
      BY <1>3, <2>2 DEF Earth
    <3>3. e.slots[1] \in Nat /\ e.slots[2] \in Nat
      BY <1>3 DEF Earth
    <3>4. z \in Nat
      <4>1. WBytes(g, j) \in Nat /\ BBytes(g, j) \in Nat
        BY <2>2, BytesAre
      <4> QED BY <4>1
    <3> DEFINE u == e.slots[1]
               v == e.slots[2]
    <3>5. c = u \/ c = v
      BY <3>1
    <3>6. u + z <= v /\ v + z <= b /\ u \in Nat /\ v \in Nat /\ b \in Nat
      BY <1>1, <3>2, <3>3
    <3> HIDE DEF c, z, b, u, v
    <3> QED BY ONLY <3>4, <3>5, <3>6
  <2>5. z \in Nat
    <3>1. WBytes(g, j) \in Nat /\ BBytes(g, j) \in Nat
      BY <2>2, BytesAre
    <3> QED BY <3>1
  <2> HIDE DEF c, z, y, b
  <2>6. y <= b
    BY <1>1, <2>3, <2>4, <2>5 DEF b
  <2> QED BY <2>3, <2>6 DEF y, b
<1> QED BY <1>2, <1>3 DEF Known

\* Two areas of it lie apart, or belong to layers that take turns in a slot.
Turns(r, q, m) ==
  /\ {r[2], q[2]} \subseteq {"weight", "bias"}
  /\ \E i, j \in 1 .. m : /\ i # j /\ (i - j) % 2 = 0
                          /\ r[1] = <<"MatMul", i>> /\ q[1] = <<"MatMul", j>>

\* The pinned buffer and the streaming slots do not overlap.
LEMMA PinSlotApart ==
  ASSUME NEW g, Shape(g), NEW e, Earth(g, e), e.dense \in Nat, g.t > 0, e.streaming,
         NEW r, r \in PinAreas(g, e), NEW j \in 1 .. g.n,
         NEW q, q = WeightArea(g, e, j) \/ q = BiasArea(g, e, j)
  PROVE  r[4] <= q[3]
<1> DEFINE x == e.at[g.t + 1] + pad16(e.dense)
           u == e.slots[1]
           v == e.slots[2]
           c == Slot(e, j)
           z == WBytes(g, j) + BBytes(g, j)
           y == r[4]
           f == q[3]
<1>1. y \in Nat /\ y <= x
  BY PinsApart
<1>2. c \in Nat /\ f \in Nat /\ c <= f
  BY InSlot
<1>3. c = u \/ c = v
  <2>1. c = e.slots[IF j % 2 = 1 THEN 1 ELSE 2]
    BY InSlot
  <2> QED BY <2>1
<1>4. u \in Nat /\ v \in Nat /\ x <= u /\ u + z <= v
  BY DEF Earth
<1>5. z \in Nat
  <2>1. WBytes(g, j) \in Nat /\ BBytes(g, j) \in Nat
    BY BytesAre
  <2> QED BY <2>1
<1>6. x \in Nat
  <2>1. g.t \in Nat /\ g.t + 1 \in 1 .. g.t + 1
    BY ShapeNumbers
  <2>2. e.at[g.t + 1] \in Nat
    BY <2>1 DEF Earth
  <2>3. pad16(e.dense) \in Nat
    BY PadIs
  <2> QED BY <2>2, <2>3
<1> HIDE DEF x, u, v, c, z, y, f
<1>7. y <= f
  BY ONLY <1>1, <1>2, <1>3, <1>4, <1>5, <1>6
<1> QED BY <1>7 DEF y, f

\* The two streaming slots do not overlap.
LEMMA SlotsApart ==
  ASSUME NEW g, Shape(g), NEW e, Earth(g, e), e.streaming,
         NEW i \in 1 .. g.n, NEW j \in 1 .. g.n, i % 2 = 1, j % 2 = 0,
         NEW r, r = WeightArea(g, e, i) \/ r = BiasArea(g, e, i),
         NEW q, q = WeightArea(g, e, j) \/ q = BiasArea(g, e, j)
  PROVE  r[4] <= q[3]
<1> DEFINE u == e.slots[1]
           v == e.slots[2]
           z == WBytes(g, i) + BBytes(g, i)
           y == r[4]
           f == q[3]
<1>1. Slot(e, i) = u /\ y \in Nat /\ y <= Slot(e, i) + z
  BY InSlot
<1>2. Slot(e, j) = v /\ f \in Nat /\ Slot(e, j) <= f
  <2>1. ~(j % 2 = 1)
    OBVIOUS
  <2> QED BY <2>1, InSlot
<1>3. u \in Nat /\ v \in Nat /\ u + z <= v
  BY DEF Earth
<1>4. z \in Nat
  <2>1. WBytes(g, i) \in Nat /\ BBytes(g, i) \in Nat
    BY BytesAre
  <2> QED BY <2>1
<1> HIDE DEF u, v, z, y, f
<1>5. y <= f
  BY ONLY <1>1, <1>2, <1>3, <1>4
<1> QED BY <1>5 DEF y, f

\* Two regions at known addresses are the same, apart, or the turns of two layers
\* in one streaming slot.
LEMMA KnownApart ==
  ASSUME NEW g, Shape(g), NEW e, Earth(g, e), e.dense \in Nat, NEW m \in Nat, m <= g.n,
         NEW r, Known(g, e, m, r), NEW q, Known(g, e, m, q)
  PROVE  r = q \/ Apart(r, q) \/ (e.streaming /\ Turns(r, q, m))
<1> DEFINE Q(a) == g.t > 0 /\ a \in PinAreas(g, e)
           S(a, j) == a = WeightArea(g, e, j) \/ a = BiasArea(g, e, j)
<1>1. \A j \in 1 .. m : j \in 1 .. g.n
  BY ShapeNumbers
<1>2. /\ Q(r) \/ (e.streaming /\ \E j \in 1 .. m : S(r, j))
      /\ Q(q) \/ (e.streaming /\ \E j \in 1 .. m : S(q, j))
  BY DEF Known
<1>3. CASE Q(r) /\ Q(q)
  BY <1>3, PinsApart
<1>4. ASSUME Q(r), e.streaming, NEW j \in 1 .. m, S(q, j) PROVE Apart(r, q)
  <2>1. r[4] <= q[3]
    BY <1>1, <1>4, PinSlotApart
  <2> QED BY <2>1 DEF Apart
<1>5. ASSUME Q(q), e.streaming, NEW j \in 1 .. m, S(r, j) PROVE Apart(r, q)
  <2>1. q[4] <= r[3]
    BY <1>1, <1>5, PinSlotApart
  <2> QED BY <2>1 DEF Apart
<1>6. ASSUME e.streaming, NEW i \in 1 .. m, S(r, i), NEW j \in 1 .. m, S(q, j)
      PROVE  r = q \/ Apart(r, q) \/ Turns(r, q, m)
  <2>1. i \in 1 .. g.n /\ j \in 1 .. g.n /\ i \in Nat /\ j \in Nat
    BY <1>1
  <2>2. CASE i = j
    BY <1>6, <2>1, <2>2, SlotApart
  <2>3. CASE i # j /\ (i - j) % 2 = 0
    <3>1. /\ r[1] = <<"MatMul", i>> /\ r[2] \in {"weight", "bias"}
          /\ q[1] = <<"MatMul", j>> /\ q[2] \in {"weight", "bias"}
      BY <1>6, <2>1, InSlot
    <3> QED BY <2>3, <3>1 DEF Turns
  <2>4. CASE i % 2 = 1 /\ j % 2 = 0
    <3>1. r[4] <= q[3]
      BY <1>6, <2>1, <2>4, SlotsApart
    <3> QED BY <3>1 DEF Apart
  <2>5. CASE j % 2 = 1 /\ i % 2 = 0
    <3>1. q[4] <= r[3]
      BY <1>6, <2>1, <2>5, SlotsApart
    <3> QED BY <3>1 DEF Apart
  <2>6. \/ i = j \/ (i # j /\ (i - j) % 2 = 0)
        \/ (i % 2 = 1 /\ j % 2 = 0) \/ (j % 2 = 1 /\ i % 2 = 0)
    BY <2>1
  <2> QED BY <2>2, <2>3, <2>4, <2>5, <2>6
<1> HIDE DEF Q, S
<1> QED BY <1>2, <1>3, <1>4, <1>5, <1>6

-----------------------------------------------------------------------------
(***************************************************************************)
(* A layout laid out like this keeps LayoutFits.                           *)
(***************************************************************************)
\* What LayoutFits asks of one document.
FitsIn(doc) ==
  /\ doc.layoutend <= Ddr2Bytes
  /\ \A r \in Regions(doc) : r[3] % 16 = 0 /\ r[4] <= doc.layoutend
  /\ \A r, q \in Regions(doc) :
       r # q => \/ r[4] <= q[3] \/ q[4] <= r[3]
                \/ {r[2], q[2]} \subseteq {"weight", "bias"} /\ TakeTurns(doc, r[1], q[1])

\* The fc layers come in the order of the model.
InOrder(s, m) ==
  /\ Listed(FcsOf(s.layers), m)
  /\ \A j \in 1 .. m : FcsOf(s.layers)[j].name = <<"MatMul", j>>

\* A finished layout below the end of the DRAM fits it.
LEMMA LayoutOf ==
  ASSUME NEW g, Shape(g), NEW e, Earth(g, e), Given(e), e.dense \in Nat,
         NEW m \in Nat, m <= g.n, NEW s, Laid(g, e, m, s), InOrder(s, m), s.next <= Ddr2Bytes
  PROVE  FitsIn(Document(s))
<1> DEFINE doc == Document(s)
<1>1. /\ doc.layoutend = s.next /\ doc.streaming = job.streaming /\ doc.layers = s.layers
  BY DEF Document
<1>2. Regions(doc) = Areas(s)
  BY AreasAre
<1>3. FcLayers(doc) = FcsOf(s.layers)
  BY <1>1 DEF FcLayers
<1> HIDE DEF doc
<1>4. s.next \in Nat /\ e.base \in Nat
  BY DEF Laid, Stands, Earth
<1>5. /\ \A r \in Areas(s) : Sized(r, s.next) /\ (e.base <= r[3] \/ Known(g, e, m, r))
      /\ \A r, q \in Areas(s) : r = q \/ Apart(r, q) \/ Known(g, e, m, r) \/ Known(g, e, m, q)
  BY DEF Laid, Fits
<1>6. \A r \in Regions(doc) : r[3] % 16 = 0 /\ r[4] <= doc.layoutend
  BY <1>1, <1>2, <1>5 DEF Sized
<1>7. ASSUME NEW r \in Areas(s), NEW q \in Areas(s), Known(g, e, m, r), ~Known(g, e, m, q)
      PROVE  r[4] <= q[3]
  <2> DEFINE x == r[4]
             y == q[3]
             b == e.base
  <2>1. x \in Nat /\ x <= b
    BY <1>7, KnownEnds
  <2>2. y \in Nat /\ b <= y
    BY <1>5, <1>7 DEF Sized
  <2>3. b \in Nat
    BY <1>4
  <2> HIDE DEF x, y, b
  <2>4. x <= y
    BY ONLY <2>1, <2>2, <2>3
  <2> QED BY <2>4 DEF x, y
<1>8. ASSUME e.streaming, NEW r, NEW q, Turns(r, q, m)
      PROVE  {r[2], q[2]} \subseteq {"weight", "bias"} /\ TakeTurns(doc, r[1], q[1])
  <2>1. PICK i \in 1 .. m, j \in 1 .. m :
          i # j /\ (i - j) % 2 = 0 /\ r[1] = <<"MatMul", i>> /\ q[1] = <<"MatMul", j>>
    BY <1>8 DEF Turns
  <2> DEFINE fc == FcLayers(doc)
  <2>2. DOMAIN fc = 1 .. m
    BY <1>3, LenListed DEF InOrder
  <2>3. fc[i].name = r[1] /\ fc[j].name = q[1]
    BY <1>3, <2>1 DEF InOrder
  <2>4. doc.streaming
    BY <1>1, <1>8 DEF Given
  <2> HIDE DEF fc
  <2>5. \E k, l \in DOMAIN fc : /\ k # l /\ (k - l) % 2 = 0
                                /\ fc[k].name = r[1] /\ fc[l].name = q[1]
    BY <2>1, <2>2, <2>3
  <2>6. TakeTurns(doc, r[1], q[1])
    BY <2>4, <2>5 DEF TakeTurns, fc
  <2> QED BY <1>8, <2>6 DEF Turns
<1>9. ASSUME NEW r \in Areas(s), NEW q \in Areas(s), r # q
      PROVE  \/ r[4] <= q[3] \/ q[4] <= r[3]
             \/ {r[2], q[2]} \subseteq {"weight", "bias"} /\ TakeTurns(doc, r[1], q[1])
  <2>1. CASE ~Known(g, e, m, r) /\ ~Known(g, e, m, q)
    <3>1. Apart(r, q)
      BY <1>5, <1>9, <2>1
    <3> QED BY <3>1 DEF Apart
  <2>2. CASE Known(g, e, m, r) /\ ~Known(g, e, m, q)
    BY <1>7, <2>2
  <2>3. CASE ~Known(g, e, m, r) /\ Known(g, e, m, q)
    BY <1>7, <2>3
  <2>4. CASE Known(g, e, m, r) /\ Known(g, e, m, q)
    <3>1. r = q \/ Apart(r, q) \/ (e.streaming /\ Turns(r, q, m))
      BY <2>4, KnownApart
    <3> QED BY <1>8, <1>9, <3>1 DEF Apart
  <2> QED BY <2>1, <2>2, <2>3, <2>4
<1>10. doc.layoutend <= Ddr2Bytes
  BY <1>1
<1> QED BY <1>2, <1>6, <1>9, <1>10 DEF FitsIn, doc

-----------------------------------------------------------------------------
(***************************************************************************)
(* One node more.                                                          *)
(***************************************************************************)
\* The allocator moves on, by a multiple of 16.
Follows(s, t) ==
  /\ IsLowering(t) /\ t.pinned = s.pinned /\ t.slots = s.slots
  /\ t.next \in Nat /\ t.next % 16 = 0 /\ s.next <= t.next

\* What stands keeps standing under a step that only allocates.
LEMMA FollowsStands ==
  ASSUME NEW e, e.base \in Nat, NEW s, Stands(e, s), NEW t, Follows(s, t), Lists(t)
  PROVE  Stands(e, t)
<1> DEFINE b == e.base
           c == s.next
           d == t.next
<1>1. b \in Nat /\ c \in Nat /\ d \in Nat /\ b <= c /\ c <= d
  BY DEF Stands, Follows
<1> HIDE DEF b, c, d
<1>2. b <= d
  BY ONLY <1>1
<1> QED BY <1>2 DEF Stands, Follows, b, d

\* What an area needs to be laid out by the step from s to t.
Lies(g, e, m, s, t, r) ==
  Sized(r, t.next) /\ (s.next <= r[3] \/ Known(g, e, m, r))

\* A step that adds no record keeps the layout.
LEMMA SameLaid ==
  ASSUME NEW g, NEW e, e.base \in Nat, NEW m \in Nat, NEW s, Laid(g, e, m, s),
         NEW t, Follows(s, t),
         t.segments = s.segments, t.inputs = s.inputs, t.layers = s.layers
  PROVE  Laid(g, e, m, t)
<1>1. Areas(t) = Areas(s) /\ Lists(t)
  BY AreasSame DEF Laid, Stands
<1>2. Stands(e, t) /\ s.next <= t.next
  BY <1>1, FollowsStands DEF Laid, Follows
<1>3. Fits(g, e, m, {}, s.next, t.next)
  BY DEF Fits
<1> QED BY <1>1, <1>2, <1>3, LaidGrows

\* A segment at a fresh or a known address keeps the layout.
LEMMA SegmentLaid ==
  ASSUME NEW g, NEW e, e.base \in Nat, NEW m \in Nat, NEW s, Laid(g, e, m, s),
         NEW t, Follows(s, t), NEW x, t.segments = Append(s.segments, x),
         t.inputs = s.inputs, t.layers = s.layers,
         Lies(g, e, m, s, t, <<x.layer, x.kind, x.addr, x.addr + x.len>>)
  PROVE  Laid(g, e, m, t)
<1> DEFINE r == <<x.layer, x.kind, x.addr, x.addr + x.len>>
<1>1. Areas(t) \subseteq Areas(s) \cup {r} /\ Lists(t)
  BY AreasSegment DEF Laid, Stands
<1> HIDE DEF r
<1>2. Stands(e, t) /\ s.next <= t.next /\ s.next \in Nat
  BY <1>1, FollowsStands DEF Laid, Follows, Stands
<1>3. Lies(g, e, m, s, t, r)
  BY DEF r
<1>4. Fits(g, e, m, {r}, s.next, t.next)
  BY <1>2, <1>3, OneFits DEF Lies
<1> QED BY <1>1, <1>2, <1>4, LaidGrows

\* An input at a fresh or a known address keeps the layout.
LEMMA InputLaid ==
  ASSUME NEW g, NEW e, e.base \in Nat, NEW m \in Nat, NEW s, Laid(g, e, m, s),
         NEW t, Follows(s, t), NEW x, t.inputs = Append(s.inputs, x),
         t.segments = s.segments, t.layers = s.layers,
         Lies(g, e, m, s, t, <<x.name, "input", x.addr, x.addr + pad16(x.count)>>)
  PROVE  Laid(g, e, m, t)
<1> DEFINE r == <<x.name, "input", x.addr, x.addr + pad16(x.count)>>
<1>1. Areas(t) \subseteq Areas(s) \cup {r} /\ Lists(t)
  BY AreasInput DEF Laid, Stands
<1> HIDE DEF r
<1>2. Stands(e, t) /\ s.next <= t.next /\ s.next \in Nat
  BY <1>1, FollowsStands DEF Laid, Follows, Stands
<1>3. Lies(g, e, m, s, t, r)
  BY DEF r
<1>4. Fits(g, e, m, {r}, s.next, t.next)
  BY <1>2, <1>3, OneFits DEF Lies
<1> QED BY <1>1, <1>2, <1>4, LaidGrows

\* A gather whose output is at a fresh or a known address keeps the layout.
LEMMA GatherLaid ==
  ASSUME NEW g, NEW e, e.base \in Nat, NEW m \in Nat, NEW s, Laid(g, e, m, s),
         NEW t, Follows(s, t), NEW x, t.layers = Append(s.layers, x), x.kind = "gather",
         t.segments = s.segments, t.inputs = s.inputs,
         Lies(g, e, m, s, t, <<x.name, "out", x.out, x.out + x.width>>)
  PROVE  Laid(g, e, m, t)
<1> DEFINE r == <<x.name, "out", x.out, x.out + x.width>>
<1>1. Areas(t) \subseteq Areas(s) \cup {r} /\ Lists(t)
  BY AreasLayer DEF Laid, Stands
<1> HIDE DEF r
<1>2. Stands(e, t) /\ s.next <= t.next /\ s.next \in Nat
  BY <1>1, FollowsStands DEF Laid, Follows, Stands
<1>3. Lies(g, e, m, s, t, r)
  BY DEF r
<1>4. Fits(g, e, m, {r}, s.next, t.next)
  BY <1>2, <1>3, OneFits DEF Lies
<1> QED BY <1>1, <1>2, <1>4, LaidGrows

\* A concat writes nothing of its own: it keeps the layout.
LEMMA ConcatLaid ==
  ASSUME NEW g, NEW e, e.base \in Nat, NEW m \in Nat, NEW s, Laid(g, e, m, s),
         NEW t, Follows(s, t), NEW x, t.layers = Append(s.layers, x), x.kind = "concat",
         t.segments = s.segments, t.inputs = s.inputs
  PROVE  Laid(g, e, m, t)
<1>1. Areas(t) = Areas(s) /\ Lists(t)
  BY AreasLayer DEF Laid, Stands
<1>2. Stands(e, t) /\ s.next <= t.next
  BY <1>1, FollowsStands DEF Laid, Follows
<1>3. Fits(g, e, m, {}, s.next, t.next)
  BY DEF Fits
<1> QED BY <1>1, <1>2, <1>3, LaidGrows

\* An fc layer's sums, and after them its result.
LEMMA FcLaid ==
  ASSUME NEW g, NEW e, e.base \in Nat, NEW m \in Nat, NEW s, Laid(g, e, m, s),
         NEW t, Follows(s, t), NEW x, t.layers = Append(s.layers, x), x.kind = "fc",
         t.segments = s.segments, t.inputs = s.inputs,
         NEW p \in Nat, p % 16 = 0, x.mpad = p, x.acc = s.next,
         s.next + 4 * p <= t.next,
         ~x.final => x.out = s.next + 4 * p /\ (s.next + 4 * p) + p <= t.next
  PROVE  Laid(g, e, m, t)
<1> DEFINE r == <<x.name, "acc", x.acc, x.acc + 4 * x.mpad>>
           q == <<x.name, "out", x.out, x.out + x.mpad>>
           S == {r} \cup IF x.final THEN {} ELSE {q}
           c == s.next
           d == t.next
<1>1. Areas(t) \subseteq Areas(s) \cup S /\ Lists(t)
  BY AreasLayer DEF Laid, Stands
<1>2. Stands(e, t) /\ c <= d /\ c \in Nat /\ d \in Nat /\ c % 16 = 0
  BY <1>1, FollowsStands DEF Laid, Follows, Stands
<1>3. r[3] = c /\ r[4] = c + 4 * p
  OBVIOUS
<1>4. ASSUME ~x.final PROVE q[3] = c + 4 * p /\ q[4] = (c + 4 * p) + p
  <2>1. x.out = c + 4 * p /\ x.mpad = p
    BY <1>4
  <2>2. q[3] = x.out /\ q[4] = x.out + x.mpad
    OBVIOUS
  <2> HIDE DEF q, c
  <2> QED BY <2>1, <2>2
<1>5. c + 4 * p <= d /\ (~x.final => (c + 4 * p) + p <= d)
  <2>1. s.next + 4 * p <= t.next
    OBVIOUS
  <2>2. ~x.final => (s.next + 4 * p) + p <= t.next
    OBVIOUS
  <2> QED BY ONLY <2>1, <2>2
<1> HIDE DEF r, q, c, d
<1>6. c + 4 * p \in Nat /\ (c + 4 * p) + p \in Nat /\ (c + 4 * p) % 16 = 0 /\ c <= c + 4 * p
  BY <1>2
<1>7. Sized(r, d) /\ c <= r[3]
  BY <1>2, <1>3, <1>5, <1>6 DEF Sized
<1>8. ASSUME ~x.final PROVE Sized(q, d) /\ c <= q[3] /\ Apart(r, q) /\ Apart(q, r)
  <2> DEFINE u == c + 4 * p
             v == (c + 4 * p) + p
  <2>1. q[3] = u /\ q[4] = v /\ r[4] = u /\ v <= d
    BY <1>3, <1>4, <1>5, <1>8
  <2>2. u \in Nat /\ v \in Nat /\ u % 16 = 0 /\ c <= u
    BY <1>6
  <2> HIDE DEF u, v
  <2>3. Sized(q, d) /\ c <= q[3]
    BY <2>1, <2>2 DEF Sized
  <2>4. r[4] <= q[3]
    BY <2>1, <2>2
  <2> QED BY <2>3, <2>4 DEF Apart
<1>9. \A a \in S : a = r \/ (~x.final /\ a = q)
  OBVIOUS
<1> HIDE DEF S
<1>10. Fits(g, e, m, S, c, d)
  BY <1>7, <1>8, <1>9 DEF Fits
<1> QED BY <1>1, <1>2, <1>10, LaidGrows DEF c, d

\* The allocator alone,
LEMMA AllocLaid ==
  ASSUME NEW g, NEW e, e.base \in Nat, NEW m \in Nat, NEW s, Laid(g, e, m, s), NEW n \in Nat
  PROVE  /\ Laid(g, e, m, Alloc(s, n)) /\ Follows(s, Alloc(s, n)) /\ SameRecords(s, Alloc(s, n))
         /\ Alloc(s, n).segments = s.segments
         /\ s.next + n <= Alloc(s, n).next /\ s.next + pad16(n) <= Alloc(s, n).next
<1> DEFINE t == Alloc(s, n)
<1>1. IsLowering(s) /\ s.next \in Nat /\ s.next % 16 = 0
  BY DEF Laid, Stands
<1>2. IsLowering(t) /\ SameRecords(s, t) /\ t.segments = s.segments
  BY <1>1, AllocIs
<1>3. /\ t.next \in Nat /\ t.next % 16 = 0 /\ s.next <= t.next
      /\ s.next + n <= t.next /\ s.next + pad16(n) <= t.next
  BY <1>1, AllocMoves
<1> HIDE DEF t
<1>4. Follows(s, t) /\ t.inputs = s.inputs /\ t.layers = s.layers
  BY <1>2, <1>3 DEF Follows, SameRecords
<1>5. Laid(g, e, m, t)
  BY <1>2, <1>4, SameLaid
<1> QED BY <1>2, <1>3, <1>4, <1>5 DEF t

\* a segment where the allocator stands,
LEMMA PlaceLaid ==
  ASSUME NEW g, NEW e, e.base \in Nat, NEW m \in Nat, NEW s, Laid(g, e, m, s),
         NEW len \in Nat, NEW tag, NEW who, NEW kind
  PROVE  LET t == PlaceSegment(s, len, tag, who, kind, -1)
         IN Laid(g, e, m, t) /\ Follows(s, t) /\ SameRecords(s, t)
<1> DEFINE t == PlaceSegment(s, len, tag, who, kind, -1)
           x == [addr |-> s.next, off |-> s.end, len |-> len, layer |-> who, kind |-> kind]
<1>1. IsLowering(s) /\ s.next \in Nat /\ s.next % 16 = 0
  BY DEF Laid, Stands
<1>2. /\ IsLowering(t) /\ SameRecords(s, t) /\ t.segments = Append(s.segments, x)
      /\ t.next = pad16(s.next + Room(len))
  BY <1>1, PlaceIs
<1>3. t.next = Alloc(s, len).next
  BY <1>1, <1>2, AllocIs
<1>4. /\ t.next \in Nat /\ t.next % 16 = 0 /\ s.next <= t.next
      /\ s.next + len <= t.next
  BY <1>1, <1>3, AllocMoves
<1> HIDE DEF t
<1>5. Follows(s, t) /\ t.inputs = s.inputs /\ t.layers = s.layers
  BY <1>2, <1>4 DEF Follows, SameRecords
<1>6. x.addr = s.next /\ x.len = len
  OBVIOUS
<1> DEFINE r == <<x.layer, x.kind, x.addr, x.addr + x.len>>
<1>7. r[3] = s.next /\ r[4] = s.next + len
  BY <1>6
<1> HIDE DEF r, x
<1>8. Lies(g, e, m, s, t, r)
  <2> DEFINE c == s.next
             d == t.next
  <2>1. /\ c \in Nat /\ c % 16 = 0 /\ d \in Nat /\ c + len <= d
        /\ r[3] = c /\ r[4] = c + len
    BY <1>1, <1>4, <1>7
  <2> HIDE DEF c, d
  <2>2. Sized(r, d) /\ c <= r[3]
    BY <2>1 DEF Sized
  <2> QED BY <2>2 DEF Lies, c, d
<1>9. Laid(g, e, m, t)
  BY <1>2, <1>5, <1>8, SegmentLaid DEF r
<1> QED BY <1>2, <1>5, <1>9 DEF t

\* or in a slot,
LEMMA SlotLaid ==
  ASSUME NEW g, NEW e, e.base \in Nat, NEW m \in Nat, NEW s, Laid(g, e, m, s),
         NEW len, NEW tag, NEW who, NEW kind, NEW addr \in Nat,
         NEW r, r = <<who, kind, addr, addr + len>>,
         Known(g, e, m, r), Sized(r, s.next)
  PROVE  LET t == PlaceSegment(s, len, tag, who, kind, addr)
         IN Laid(g, e, m, t) /\ Follows(s, t) /\ SameRecords(s, t)
<1> DEFINE t == PlaceSegment(s, len, tag, who, kind, addr)
           x == [addr |-> addr, off |-> s.end, len |-> len, layer |-> who, kind |-> kind]
<1>1. IsLowering(s) /\ s.next \in Nat /\ s.next % 16 = 0
  BY DEF Laid, Stands
<1>2. addr # -1
  OBVIOUS
<1>3. /\ IsLowering(t) /\ SameRecords(s, t) /\ t.segments = Append(s.segments, x)
      /\ t.next = s.next
  BY SMTT(30), <1>1, <1>2, PlaceIs
<1> HIDE DEF t
<1>4. Follows(s, t) /\ t.inputs = s.inputs /\ t.layers = s.layers
  BY <1>1, <1>3 DEF Follows, SameRecords
<1>5. r = <<x.layer, x.kind, x.addr, x.addr + x.len>>
  OBVIOUS
<1> HIDE DEF x
<1>6. Lies(g, e, m, s, t, r)
  BY <1>3 DEF Lies
<1>7. Laid(g, e, m, t)
  BY <1>3, <1>4, <1>5, <1>6, SegmentLaid
<1> QED BY <1>3, <1>4, <1>7 DEF t

\* and the address of a result.
LEMMA ProducedIs ==
  ASSUME NEW s, IsLowering(s), NEW x, NEW addr
  PROVE  LET t == Produced(s, x, addr)
         IN /\ IsLowering(t) /\ t.next = s.next /\ t.segments = s.segments /\ t.inputs = s.inputs
            /\ t.layers = s.layers /\ t.pinned = s.pinned /\ t.slots = s.slots /\ t.fcs = s.fcs
            /\ t.node = s.node /\ t.error = s.error /\ t.addr = Put(s.addr, x, addr)
BY DEF IsLowering, Produced

\* A gather: its table, its index, and its pinned result.
LEMMA GatherStep ==
  ASSUME NEW g, Shape(g), NEW e, Earth(g, e), e.dense \in Nat, g.t > 0, NEW k \in 1 .. g.t,
         NEW m \in Nat, m <= g.n, NEW s, Laid(g, e, m, s)
  PROVE  LET t == LowerGather(s, GatherNode(k)) IN
         /\ Laid(g, e, m, t) /\ t.fcs = s.fcs /\ t.node = s.node /\ t.error = s.error
         /\ FcsOf(t.layers) = FcsOf(s.layers)
         /\ \E a : t.addr = Put(s.addr, <<"emb_out", k>>, a)
<1> DEFINE n == GatherNode(k)
           w == pad16(g.cols)
           out == s.pinned[<<"emb_out", k>>]
           scale == IF ScaleOf(n.out) = Absent THEN n.ins[1] ELSE ScaleOf(n.out)
           table == PlaceSegment(s, g.rows * w, Tag(model.content[n.ins[1]], 0, scale, training),
                                 n.name, "table", -1)
           idx == Alloc(table, 16)
           x == [name |-> n.ins[2], kind |-> "index", addr |-> table.next,
                 count |-> 4, scale |-> Absent]
           L == [name |-> n.name, kind |-> "gather", table |-> s.next,
                 rows |-> g.rows, dim |-> g.cols, width |-> w,
                 idx |-> table.next, out |-> out, scale |-> scale, stream |-> FALSE]
           v == [idx EXCEPT !.inputs = Append(@, x), !.layers = Append(@, L)]
           t == LowerGather(s, n)
<1>1. /\ g.rows \in Nat /\ g.cols \in Nat /\ g.t \in Nat
      /\ model.shape[<<"emb_table", k>>] = <<g.rows, g.cols>>
  BY ShapeNumbers
<1>2. /\ n.ins[1] = <<"emb_table", k>> /\ n.out = <<"emb_out", k>> /\ n.name = <<"Gather", k>>
  BY DEF GatherNode, Node
<1>3. e.base \in Nat /\ IsLowering(s) /\ s.pinned = e.pinned /\ s.next \in Nat
  BY DEF Earth, Laid, Stands
<1>4. n.out \in DOMAIN s.pinned /\ s.pinned[n.out] = out /\ out = e.at[k]
  BY <1>2, <1>3 DEF Earth
<1>5. t = Produced(v, n.out, out)
  <2>1. model.shape[n.ins[1]] = <<g.rows, g.cols>>
    BY <1>1, <1>2
  <2>2. model.shape[n.ins[1]][1] = g.rows /\ model.shape[n.ins[1]][2] = g.cols
    BY <2>1
  <2> HIDE DEF n, out
  <2> QED BY <1>4, <2>2 DEF LowerGather
<1>6. w \in Nat /\ g.rows * w \in Nat
  BY <1>1, PadIs
<1> HIDE DEF w, out, scale
<1>7. Laid(g, e, m, table) /\ Follows(s, table) /\ SameRecords(s, table)
  BY <1>3, <1>6, PlaceLaid
<1> HIDE DEF table
<1>8. /\ Laid(g, e, m, idx) /\ Follows(table, idx) /\ SameRecords(table, idx)
      /\ idx.segments = table.segments /\ table.next + 16 <= idx.next
  BY <1>3, <1>7, AllocLaid
<1> HIDE DEF idx
<1> DEFINE u == [idx EXCEPT !.inputs = Append(@, x)]
<1>9. IsLowering(idx)
  BY <1>8 DEF Follows
<1>10. /\ IsLowering(u) /\ u.inputs = Append(idx.inputs, x) /\ u.layers = idx.layers
       /\ u.segments = idx.segments /\ u.pinned = idx.pinned /\ u.slots = idx.slots
       /\ u.next = idx.next /\ u.fcs = idx.fcs /\ u.node = idx.node /\ u.error = idx.error
       /\ u.addr = idx.addr
  <2> HIDE DEF x
  <2> QED BY <1>9 DEF IsLowering
<1>11. /\ IsLowering(v) /\ v.inputs = u.inputs /\ v.layers = Append(u.layers, L)
       /\ v.segments = u.segments /\ v.pinned = u.pinned /\ v.slots = u.slots
       /\ v.next = u.next /\ v.fcs = u.fcs /\ v.node = u.node /\ v.error = u.error
       /\ v.addr = u.addr
  <2> HIDE DEF x, L
  <2> QED BY <1>9 DEF IsLowering
<1>12. x.addr = table.next /\ x.count = 4
  OBVIOUS
<1> HIDE DEF u, x
<1>13. Laid(g, e, m, u)
  <2>1. Follows(table, u)
    BY <1>8, <1>10 DEF Follows
  <2>2. u.inputs = Append(table.inputs, x) /\ u.segments = table.segments /\ u.layers = table.layers
    BY <1>8, <1>10 DEF SameRecords
  <2> DEFINE r == <<x.name, "input", x.addr, x.addr + pad16(x.count)>>
             c == table.next
             d == u.next
  <2>3. pad16(4) = 16
    BY DEF pad16
  <2>4. r[3] = c /\ r[4] = c + 16
    BY <1>12, <2>3
  <2>5. c \in Nat /\ c % 16 = 0 /\ d \in Nat /\ c + 16 <= d
    BY <1>7, <1>8, <1>10 DEF Follows
  <2> HIDE DEF r, c, d
  <2>6. Sized(r, d) /\ c <= r[3]
    BY <2>4, <2>5 DEF Sized
  <2>7. Lies(g, e, m, table, u, r)
    BY <2>6 DEF Lies, c, d
  <2> QED BY <1>3, <1>7, <2>1, <2>2, <2>7, InputLaid DEF r
<1> HIDE DEF v
<1>14. /\ IsLowering(t) /\ t.next = v.next /\ t.segments = v.segments /\ t.inputs = v.inputs
       /\ t.layers = v.layers /\ t.pinned = v.pinned /\ t.slots = v.slots /\ t.fcs = v.fcs
       /\ t.node = v.node /\ t.error = v.error /\ t.addr = Put(v.addr, n.out, out)
  BY <1>5, <1>11, ProducedIs
<1> HIDE DEF t
<1>15. t.layers = Append(u.layers, L)
  BY <1>11, <1>14
<1>16. L.name = <<"Gather", k>> /\ L.kind = "gather" /\ L.out = e.at[k] /\ L.width = pad16(g.cols)
  BY <1>2, <1>4 DEF w
<1> HIDE DEF L, n
<1>17. Laid(g, e, m, t)
  <2>1. Follows(u, t)
    <3>1. u.next \in Nat /\ u.next % 16 = 0
      BY <1>13 DEF Laid, Stands
    <3> QED BY <1>11, <1>14, <3>1 DEF Follows
  <2> DEFINE r == <<L.name, "out", L.out, L.out + L.width>>
  <2>2. r \in PinAreas(g, e)
    BY <1>16 DEF PinAreas
  <2> HIDE DEF r
  <2>3. Known(g, e, m, r)
    BY <2>2 DEF Known
  <2>4. Sized(r, t.next)
    <3> DEFINE d == t.next
               b == e.base
               y == r[4]
    <3>1. r[3] \in Nat /\ y \in Nat /\ r[3] % 16 = 0 /\ y <= b
      BY <2>3, KnownEnds
    <3>2. b \in Nat /\ b <= u.next /\ d = u.next
      BY <1>3, <1>11, <1>13, <1>14 DEF Laid, Stands
    <3>3. d \in Nat
      BY <2>1 DEF Follows
    <3> HIDE DEF d, b, y
    <3>4. y <= d
      BY ONLY <3>1, <3>2, <3>3
    <3> QED BY <3>1, <3>4 DEF Sized, d, y
  <2>5. Lies(g, e, m, u, t, r)
    BY <2>3, <2>4 DEF Lies
  <2>6. t.segments = u.segments /\ t.inputs = u.inputs /\ t.layers = Append(u.layers, L)
    BY <1>11, <1>14
  <2> QED BY <1>3, <1>13, <1>16, <2>1, <2>5, <2>6, GatherLaid DEF r
<1>18. t.fcs = s.fcs /\ t.node = s.node /\ t.error = s.error /\ u.layers = s.layers
       /\ t.addr = Put(s.addr, <<"emb_out", k>>, out)
  BY <1>2, <1>7, <1>8, <1>10, <1>11, <1>14 DEF SameRecords
<1>19. FcsOf(t.layers) = FcsOf(s.layers)
  <2>1. PICK i \in Nat : Listed(s.layers, i)
    BY DEF Laid, Stands, Lists
  <2>2. FcsOf(Append(s.layers, L)) = FcsOf(s.layers)
    <3>1. L.kind # "fc"
      BY <1>16
    <3> QED BY <2>1, <3>1, FcsAppend
  <2> QED BY <1>15, <1>18, <2>2
<1> QED BY <1>17, <1>18, <1>19 DEF t, n

\* The concat: its dense part gets its pin as an input buffer.
LEMMA ConcatStep ==
  ASSUME NEW g, Shape(g), NEW e, Earth(g, e), Given(e), e.dense \in Nat, g.t > 0,
         NEW m \in Nat, m <= g.n, NEW s, Laid(g, e, m, s),
         DOMAIN s.addr = {<<"emb_out", k>> : k \in 1 .. g.t}
  PROVE  LET t == LowerConcat(s, ConcatNode(g.t)) IN
         /\ Laid(g, e, m, t) /\ t.fcs = s.fcs /\ t.node = s.node /\ t.error = s.error
         /\ FcsOf(t.layers) = FcsOf(s.layers)
<1> DEFINE n == ConcatNode(g.t)
           dense == Select(n.ins, Range(n.ins) \ DOMAIN s.addr)
           new == [k \in DOMAIN dense |->
                     [name |-> dense[k], kind |-> "dense", addr |-> s.pinned[dense[k]],
                      count |-> PartLen(dense[k]), scale |-> ScaleOf(dense[k])]]
           L == [name |-> n.name, kind |-> "concat",
                 parts |-> [k \in DOMAIN n.ins |->
                    [tensor |-> n.ins[k], fed |-> n.ins[k] \notin DOMAIN s.addr,
                     addr |-> IF n.ins[k] \in DOMAIN s.addr THEN s.addr[n.ins[k]]
                              ELSE s.pinned[n.ins[k]]]],
                 lens |-> [k \in DOMAIN n.ins |-> PartLen(n.ins[k])],
                 out |-> s.pinned[n.out], stream |-> FALSE]
           v == [s EXCEPT !.inputs = @ \o new, !.layers = Append(@, L)]
           t == LowerConcat(s, n)
           N == g.t + 1
           r == <<Dense, "input", e.at[N], e.at[N] + pad16(e.dense)>>
<1>1. t = Produced(v, n.out, s.pinned[n.out])
  BY DEF LowerConcat
<1>2. /\ e.base \in Nat /\ IsLowering(s) /\ s.pinned = e.pinned /\ s.next \in Nat
      /\ s.next % 16 = 0 /\ e.base <= s.next /\ Lists(s)
  BY DEF Earth, Laid, Stands
<1>3. /\ Listed(n.ins, N) /\ N \in Nat
      /\ Range(n.ins) = {<<"emb_out", k>> : k \in 1 .. g.t} \cup {Dense}
  <2>1. g.t \in Nat
    BY ShapeNumbers
  <2>2. n.ins = [k \in 1 .. g.t + 1 |-> IF k <= g.t THEN <<"emb_out", k>> ELSE Dense]
    BY DEF ConcatNode, Node
  <2>3. Listed(n.ins, N) /\ N \in Nat
    BY <2>1, <2>2 DEF Listed
  <2> QED BY <2>3, PartsAre
<1>4. s.pinned[Dense] = e.at[N] /\ PartLen(Dense) = e.dense
  BY <1>2, DenseLen DEF Earth, Given
<1>5. PICK q \in Nat : Listed(dense, q) /\ \A i \in 1 .. q : dense[i] = Dense
  <2> DEFINE S == Range(n.ins) \ DOMAIN s.addr
  <2>1. \E q \in Nat : /\ Listed(Select(n.ins, S), q)
                       /\ \A i \in 1 .. q : /\ Select(n.ins, S)[i] \in S
                                            /\ \E j \in 1 .. N : Select(n.ins, S)[i] = n.ins[j]
    <3> HIDE DEF S, n
    <3> QED BY <1>3, SelectRange
  <2>2. \A x \in S : x = Dense
    BY <1>3
  <2> HIDE DEF n
  <2> QED BY <2>1, <2>2
<1> HIDE DEF dense
<1>6. /\ Listed(new, q)
      /\ \A i \in 1 .. q : /\ new[i].name = Dense /\ new[i].addr = e.at[N]
                           /\ new[i].count = e.dense
  <2>1. DOMAIN dense = 1 .. q
    BY <1>5, LenListed
  <2>2. \A i \in 1 .. q : new[i].name = Dense /\ new[i].addr = s.pinned[Dense]
                          /\ new[i].count = PartLen(Dense)
    BY <1>5, <2>1
  <2>3. Listed(new, q)
    BY <2>1 DEF Listed
  <2> HIDE DEF new
  <2> QED BY <1>4, <2>2, <2>3
<1> HIDE DEF new
<1> DEFINE u == [s EXCEPT !.inputs = @ \o new]
<1>7. /\ IsLowering(u) /\ u.inputs = Cat(s.inputs, new) /\ u.layers = s.layers
      /\ u.segments = s.segments /\ u.pinned = s.pinned /\ u.slots = s.slots
      /\ u.next = s.next /\ u.fcs = s.fcs /\ u.node = s.node /\ u.error = s.error
  BY <1>2 DEF IsLowering, Cat
<1>8. /\ IsLowering(v) /\ v.inputs = u.inputs /\ v.layers = Append(u.layers, L)
      /\ v.segments = u.segments /\ v.pinned = u.pinned /\ v.slots = u.slots
      /\ v.next = u.next /\ v.fcs = u.fcs /\ v.node = u.node /\ v.error = u.error
  <2> HIDE DEF L
  <2> QED BY <1>2 DEF IsLowering
<1>9. L.kind = "concat"
  OBVIOUS
<1> HIDE DEF u, v, L, n
<1>10. PICK l \in Nat : Listed(s.inputs, l)
  BY <1>2 DEF Lists
<1>11. Listed(u.inputs, l + q) /\ l + q \in Nat
       /\ Range(u.inputs) \subseteq Range(s.inputs) \cup Range(new)
  <2> DEFINE a == s.inputs
             c == Cat(a, new)
  <2>1. Listed(a, l) /\ DOMAIN a = 1 .. l /\ DOMAIN new = 1 .. q
    BY <1>6, <1>10, LenListed
  <2> HIDE DEF a
  <2>2. /\ Listed(c, l + q)
        /\ \A i \in 1 .. l : c[i] = a[i]
        /\ \A i \in 1 .. q : c[l + i] = new[i]
    BY <1>6, <2>1, Joined
  <2>3. DOMAIN c = 1 .. l + q
    <3>1. l + q \in Nat
      OBVIOUS
    <3> HIDE DEF c
    <3> QED BY <2>2, <3>1, LenListed
  <2> HIDE DEF c
  <2>4. ASSUME NEW i \in 1 .. l + q PROVE c[i] \in Range(a) \cup Range(new)
    <3>1. CASE i \in 1 .. l
      BY <2>1, <2>2, <3>1 DEF Range
    <3>2. CASE ~(i \in 1 .. l)
      <4> DEFINE j == i - l
      <4>1. j \in 1 .. q /\ l + j = i
        BY <3>2
      <4> HIDE DEF j
      <4>2. c[i] = new[j]
        BY <2>2, <4>1
      <4> QED BY <2>1, <4>1, <4>2 DEF Range
    <3> QED BY <3>1, <3>2
  <2>5. Range(c) \subseteq Range(a) \cup Range(new)
    BY <2>3, <2>4 DEF Range
  <2> QED BY <1>7, <2>2, <2>5 DEF c, a
<1>12. \A x \in Range(new) : x.name = Dense /\ x.addr = e.at[N] /\ x.count = e.dense
  BY <1>6, LenListed DEF Range
<1>13. Areas(u) \subseteq Areas(s) \cup {r}
  <2>1. AreasOfInputs(u.inputs) \subseteq AreasOfInputs(s.inputs) \cup {r}
    BY <1>11, <1>12 DEF AreasOfInputs
  <2> HIDE DEF r
  <2> QED BY <1>7, <2>1 DEF Areas
<1>14. Lists(u)
  BY <1>2, <1>7, <1>11 DEF Lists
<1>15. r \in PinAreas(g, e)
  BY DEF PinAreas
<1> HIDE DEF r
<1>16. Known(g, e, m, r)
  BY <1>15 DEF Known
<1>17. Laid(g, e, m, u)
  <2>1. Follows(s, u)
    BY <1>2, <1>7 DEF Follows
  <2>2. Stands(e, u) /\ s.next <= u.next
    BY <1>2, <1>7, <1>14, <2>1, FollowsStands DEF Laid
  <2>3. Sized(r, u.next)
    <3> DEFINE d == u.next
               b == e.base
               y == r[4]
    <3>1. r[3] \in Nat /\ y \in Nat /\ r[3] % 16 = 0 /\ y <= b
      BY <1>16, KnownEnds
    <3>2. b \in Nat /\ b <= d /\ d \in Nat
      BY <1>2, <1>7
    <3> HIDE DEF d, b, y
    <3>3. y <= d
      BY ONLY <3>1, <3>2
    <3> QED BY <3>1, <3>3 DEF Sized, d, y
  <2>4. Fits(g, e, m, {r}, s.next, u.next)
    BY <1>2, <1>16, <2>3, OneFits
  <2> QED BY <1>2, <1>13, <2>2, <2>4, LaidGrows
<1>18. /\ IsLowering(t) /\ t.next = v.next /\ t.segments = v.segments /\ t.inputs = v.inputs
       /\ t.layers = v.layers /\ t.pinned = v.pinned /\ t.slots = v.slots /\ t.fcs = v.fcs
       /\ t.node = v.node /\ t.error = v.error
  BY <1>1, <1>8, ProducedIs
<1> HIDE DEF t
<1>19. Laid(g, e, m, t)
  <2>1. Follows(u, t)
    BY <1>2, <1>7, <1>8, <1>18 DEF Follows
  <2>2. t.layers = Append(u.layers, L) /\ t.segments = u.segments /\ t.inputs = u.inputs
    BY <1>8, <1>18
  <2> QED BY <1>2, <1>9, <1>17, <2>1, <2>2, ConcatLaid
<1>20. FcsOf(t.layers) = FcsOf(s.layers)
  <2>1. PICK i \in Nat : Listed(s.layers, i)
    BY <1>2 DEF Lists
  <2>2. FcsOf(Append(s.layers, L)) = FcsOf(s.layers)
    <3>1. L.kind # "fc"
      BY <1>9
    <3> QED BY <2>1, <3>1, FcsAppend
  <2> QED BY <1>7, <1>8, <1>18, <2>2
<1>21. t.fcs = s.fcs /\ t.node = s.node /\ t.error = s.error
  BY <1>7, <1>8, <1>18
<1> QED BY <1>19, <1>20, <1>21 DEF t, n

\* The buffer of a graph input that feeds an fc layer.
LEMMA FeedLaid ==
  ASSUME NEW g, NEW e, e.base \in Nat, NEW m \in Nat, NEW s, Laid(g, e, m, s),
         NEW x, NEW k \in Nat
  PROVE  LET t == FeedFc(s, x, k) IN
         /\ Laid(g, e, m, t)
         /\ t.layers = s.layers /\ t.fcs = s.fcs /\ t.node = s.node /\ t.slots = s.slots
<1> DEFINE a == Alloc(s, pad16(k))
           y == [name |-> x, kind |-> "dense", addr |-> s.next, count |-> k, scale |-> ScaleOf(x)]
           u == [a EXCEPT !.inputs = Append(@, y)]
           t == FeedFc(s, x, k)
<1>1. CASE x \in DOMAIN s.addr
  <2>1. t = s
    BY <1>1 DEF FeedFc
  <2> QED BY <2>1
<1>2. CASE x \notin DOMAIN s.addr
  <2>1. t = Produced(u, x, s.next)
    BY <1>2 DEF FeedFc
  <2>2. pad16(k) \in Nat
    BY PadIs
  <2>3. /\ Follows(s, a) /\ SameRecords(s, a) /\ a.segments = s.segments
        /\ s.next + pad16(k) <= a.next
    BY <2>2, AllocLaid
  <2> HIDE DEF a
  <2>4. /\ IsLowering(u) /\ u.inputs = Append(a.inputs, y) /\ u.layers = a.layers
        /\ u.segments = a.segments /\ u.pinned = a.pinned /\ u.slots = a.slots
        /\ u.next = a.next /\ u.fcs = a.fcs /\ u.node = a.node
    <3> HIDE DEF y
    <3> QED BY <2>3 DEF IsLowering, Follows
  <2>5. y.name = x /\ y.addr = s.next /\ y.count = k
    OBVIOUS
  <2> HIDE DEF u, y
  <2>6. /\ IsLowering(t) /\ t.next = u.next /\ t.segments = u.segments /\ t.inputs = u.inputs
        /\ t.layers = u.layers /\ t.pinned = u.pinned /\ t.slots = u.slots /\ t.fcs = u.fcs
        /\ t.node = u.node
    BY <2>1, <2>4, ProducedIs
  <2> HIDE DEF t
  <2>7. Follows(s, t)
    BY <2>3, <2>4, <2>6 DEF Follows
  <2>8. /\ t.inputs = Append(s.inputs, y) /\ t.segments = s.segments /\ t.layers = s.layers
        /\ t.fcs = s.fcs /\ t.node = s.node /\ t.slots = s.slots
    BY <2>3, <2>4, <2>6 DEF SameRecords
  <2> DEFINE r == <<y.name, "input", y.addr, y.addr + pad16(y.count)>>
             c == s.next
             d == t.next
             z == pad16(k)
  <2>9. r[3] = c /\ r[4] = c + z
    BY <2>5
  <2>10. c \in Nat /\ c % 16 = 0 /\ d \in Nat /\ c + z <= d /\ z \in Nat
    BY <2>2, <2>3, <2>4, <2>6, <2>7 DEF Follows, Laid, Stands
  <2> HIDE DEF r, c, d, z
  <2>11. Sized(r, d) /\ c <= r[3]
    BY <2>9, <2>10 DEF Sized
  <2>12. Lies(g, e, m, s, t, r)
    BY <2>11 DEF Lies, c, d
  <2>13. Laid(g, e, m, t)
    BY <2>7, <2>8, <2>12, InputLaid DEF r
  <2> QED BY <2>8, <2>13 DEF t
<1> QED BY <1>1, <1>2

\* The weights and the bias of the j-th fc layer, in its slot or where the
\* allocator stands.
Weighted(s, g, j, tag, tagb) ==
  LET who == <<"MatMul", j>>
      slot == s.slots[1 + (s.fcs % 2)]
      w == PlaceSegment(s, WBytes(g, j), tag, who, "weight",
                        IF job.streaming THEN slot ELSE -1)
  IN PlaceSegment(w, BBytes(g, j), tagb, who, "bias",
                  IF job.streaming THEN slot + WBytes(g, j) ELSE -1)

\* The weights and the bias of a layer keep the layout, streaming or not.
LEMMA WeightsLaid ==
  ASSUME NEW g, Shape(g), NEW e, Earth(g, e), Given(e), e.dense \in Nat,
         NEW j \in 1 .. g.n, NEW s, Laid(g, e, j, s), s.fcs = j - 1, NEW tag, NEW tagb
  PROVE  LET b == Weighted(s, g, j, tag, tagb)
         IN Laid(g, e, j, b) /\ b.layers = s.layers /\ b.fcs = s.fcs /\ b.node = s.node
<1> DEFINE who == <<"MatMul", j>>
           whole == Weighted(s, g, j, tag, tagb)
           slot == s.slots[1 + (s.fcs % 2)]
           W == WBytes(g, j)
           B == BBytes(g, j)
           w == PlaceSegment(s, W, tag, who, "weight", IF job.streaming THEN slot ELSE -1)
           b == PlaceSegment(w, B, tagb, who, "bias", IF job.streaming THEN slot + W ELSE -1)
<1>0. whole = b
  BY DEF Weighted
<1> SUFFICES Laid(g, e, j, b) /\ b.layers = s.layers /\ b.fcs = s.fcs /\ b.node = s.node
  <2> HIDE DEF b, whole
  <2>1. ASSUME Laid(g, e, j, b), b.layers = s.layers, b.fcs = s.fcs, b.node = s.node
        PROVE  Laid(g, e, j, whole) /\ whole.layers = s.layers /\ whole.fcs = s.fcs
               /\ whole.node = s.node
    BY <1>0, <2>1
  <2> QED BY <2>1 DEF whole
<1> HIDE DEF whole
<1>1. W \in Nat /\ B \in Nat /\ e.base \in Nat /\ g.n \in Nat /\ j \in Nat
  BY BytesAre, ShapeNumbers DEF Earth
<1>2. CASE ~job.streaming
  <2>1. w = PlaceSegment(s, W, tag, who, "weight", -1)
    BY <1>2
  <2>2. Laid(g, e, j, w) /\ SameRecords(s, w)
    <3> HIDE DEF w, W
    <3> QED BY <1>1, <2>1, PlaceLaid
  <2> HIDE DEF w
  <2>3. b = PlaceSegment(w, B, tagb, who, "bias", -1)
    BY <1>2
  <2>4. Laid(g, e, j, b) /\ SameRecords(w, b)
    <3> HIDE DEF b, B
    <3> QED BY <1>1, <2>2, <2>3, PlaceLaid
  <2> QED BY <2>2, <2>4 DEF SameRecords, w
<1>3. CASE job.streaming
  <2>1. e.streaming /\ s.slots = e.slots
    BY <1>3 DEF Given, Laid, Stands
  <2>2. slot = Slot(e, j)
    BY <2>1 DEF Slot
  <2> DEFINE r == WeightArea(g, e, j)
             q == BiasArea(g, e, j)
  <2>3. r = <<who, "weight", slot, slot + W>> /\ q = <<who, "bias", slot + W, (slot + W) + B>>
    BY <2>2 DEF WeightArea, BiasArea
  <2>4. /\ slot \in Nat /\ r[3] \in Nat /\ r[4] \in Nat /\ r[3] % 16 = 0
        /\ q[3] \in Nat /\ q[4] \in Nat /\ q[3] % 16 = 0
    BY <2>1, <2>2, InSlot
  <2> HIDE DEF r, q, slot
  <2>5. Known(g, e, j, r) /\ Known(g, e, j, q)
    <3>1. j \in 1 .. j
      BY <1>1
    <3> QED BY <2>1, <3>1 DEF Known, r, q
  <2>6. r[4] <= e.base /\ q[4] <= e.base
    BY <1>1, <2>5, KnownEnds
  <2>7. s.next \in Nat /\ e.base <= s.next
    BY DEF Laid, Stands
  <2>8. Sized(r, s.next)
    <3> DEFINE c == s.next
               h == e.base
               y == r[4]
    <3>1. c \in Nat /\ h <= c /\ y <= h /\ h \in Nat /\ y \in Nat
      BY <1>1, <2>4, <2>6, <2>7
    <3> HIDE DEF c, h, y
    <3>2. y <= c
      BY ONLY <3>1
    <3> QED BY <2>4, <3>2 DEF Sized, c, y
  <2>9. w = PlaceSegment(s, W, tag, who, "weight", slot)
    BY <1>3
  <2>10. Laid(g, e, j, w) /\ SameRecords(s, w)
    <3> HIDE DEF w, W
    <3> QED BY <1>1, <2>3, <2>4, <2>5, <2>8, <2>9, SlotLaid
  <2> HIDE DEF w
  <2>11. w.next \in Nat /\ e.base <= w.next
    BY <2>10 DEF Laid, Stands
  <2>12. Sized(q, w.next)
    <3> DEFINE c == w.next
               h == e.base
               y == q[4]
    <3>1. c \in Nat /\ h <= c /\ y <= h /\ h \in Nat /\ y \in Nat
      BY <1>1, <2>4, <2>6, <2>11
    <3> HIDE DEF c, h, y
    <3>2. y <= c
      BY ONLY <3>1
    <3> QED BY <2>4, <3>2 DEF Sized, c, y
  <2>13. b = PlaceSegment(w, B, tagb, who, "bias", slot + W)
    BY <1>3
  <2>14. slot + W \in Nat
    <3> HIDE DEF W
    <3> QED BY <1>1, <2>4
  <2>15. Laid(g, e, j, b) /\ SameRecords(w, b)
    <3> DEFINE there == slot + W
    <3>1. there \in Nat /\ b = PlaceSegment(w, B, tagb, who, "bias", there)
          /\ q = <<who, "bias", there, there + B>>
      BY <2>3, <2>13, <2>14
    <3> HIDE DEF b, B, there
    <3> QED BY <1>1, <2>5, <2>10, <2>12, <3>1, SlotLaid
  <2> QED BY <2>10, <2>15 DEF SameRecords, w, slot
<1> QED BY <1>2, <1>3

\* A matrix product and what is fused with it: a layer of its own.
LEMMA MatMulStep ==
  ASSUME NEW g, Shape(g), NEW e, Earth(g, e), Given(e), e.dense \in Nat,
         NEW j \in 1 .. g.n, NEW s, Laid(g, e, s.fcs, s), InOrder(s, s.fcs), s.fcs = j - 1
  PROVE  LET t == LowerMatMul(s, MatMulNode(j, g.first)) IN
         Laid(g, e, j, t) /\ InOrder(t, j) /\ t.fcs = j /\ t.node = s.node
<1> DEFINE n == MatMulNode(j, g.first)
           chain == Chain(n)
           x == n.ins[1]
           k == g.d[j]
           d == g.d[j + 1]
           p == pad16(d)
           fed == FeedFc(s, x, k)
           slot == fed.slots[1 + (fed.fcs % 2)]
           bias == IF chain.add = {} THEN Absent
                   ELSE LET a == CHOOSE a \in chain.add : TRUE
                        IN model.content[a.ins[CHOOSE i \in DOMAIN a.ins : IsInit(a.ins[i])]]
           tag == Tag(model.content[n.ins[2]], 0, Absent, training)
           tagb == Tag(bias, 0, ScaleOf(x), training)
           w == PlaceSegment(fed, WeightBytes(n), tag, n.name, "weight",
                             IF job.streaming THEN slot ELSE -1)
           b == PlaceSegment(w, BiasBytes(n), tagb, n.name, "bias",
                             IF job.streaming THEN slot + WeightBytes(n) ELSE -1)
           acc == Alloc(b, p * 4)
           final == IsFinal(chain.out)
           done == IF final THEN acc ELSE Alloc(acc, p)
           out == IF final THEN b.next ELSE acc.next
           error == IF final \/ ResultScale(chain.out) # Absent THEN done.error ELSE "StopIteration"
           L == [name |-> n.name, kind |-> "fc", in |-> fed.addr[x],
                 k |-> k, kpad |-> pad16(k), n |-> d, mpad |-> p,
                 w |-> IF job.streaming THEN slot ELSE fed.next,
                 b |-> IF job.streaming THEN slot + WeightBytes(n) ELSE w.next,
                 acc |-> b.next, out |-> out, relu |-> chain.relu # {},
                 final |-> final, inscale |-> ScaleOf(x),
                 outscale |-> ResultScale(chain.out), stream |-> job.streaming]
           v == [done EXCEPT !.fcs = @ + 1, !.error = error, !.layers = Append(@, L)]
           t == LowerMatMul(s, n)
<1>1. t = Produced(v, chain.out, out)
  <2>1. model.shape[n.ins[2]] = <<k, d>>
    <3>1. n.ins[2] = <<"w", j>>
      BY DEF MatMulNode, Node
    <3>2. model.shape[<<"w", j>>] = <<g.d[j], g.d[j + 1]>>
      BY ShapeNumbers
    <3> QED BY <3>1, <3>2
  <2>2. model.shape[n.ins[2]][1] = k /\ model.shape[n.ins[2]][2] = d
    BY <2>1
  <2> HIDE DEF n, k, d
  <2> QED BY <2>2 DEF LowerMatMul
<1>2. /\ e.base \in Nat /\ k \in Nat /\ p \in Nat /\ p % 16 = 0 /\ p >= 1 /\ j \in Nat /\ j - 1 \in Nat
      /\ WeightBytes(n) = WBytes(g, j) /\ BiasBytes(n) = BBytes(g, j)
  <2>1. j \in 1 .. g.n + 1 /\ g.n \in Nat /\ g.d[j] \in Nat
    BY ShapeNumbers
  <2> QED BY <2>1, BytesAre DEF Earth
<1>3. n.name = <<"MatMul", j>>
  BY DEF MatMulNode, Node
<1>4. (j - 1) + 1 = j
  BY <1>2
<1>5. Laid(g, e, j, s)
  <2>1. Laid(g, e, j - 1, s)
    OBVIOUS
  <2>2. Laid(g, e, (j - 1) + 1, s)
    BY <1>2, <2>1, MoreKnown
  <2> QED BY <1>4, <2>2
<1> HIDE DEF k, p, d, x, tag, tagb, bias, chain
<1>6. /\ Laid(g, e, j, fed) /\ fed.layers = s.layers /\ fed.fcs = s.fcs /\ fed.node = s.node
  BY <1>2, <1>5, FeedLaid
<1> HIDE DEF fed
<1>7. Laid(g, e, j, b) /\ b.layers = s.layers /\ b.fcs = s.fcs /\ b.node = s.node
  <2> DEFINE b2 == Weighted(fed, g, j, tag, tagb)
  <2>1. fed.fcs = j - 1 /\ Laid(g, e, j, fed) /\ e.dense \in Nat
    BY <1>6
  <2>2. Laid(g, e, j, b2) /\ b2.layers = fed.layers /\ b2.fcs = fed.fcs /\ b2.node = fed.node
    BY ONLY <2>1, Shape(g), Earth(g, e), Given(e), j \in 1 .. g.n, WeightsLaid
  <2>3. b2 = b
    <3> DEFINE W == WBytes(g, j)
               B == BBytes(g, j)
    <3>1. WeightBytes(n) = W /\ BiasBytes(n) = B
      BY <1>2
    <3>2. b2 = PlaceSegment(PlaceSegment(fed, W, tag, <<"MatMul", j>>, "weight",
                                         IF job.streaming THEN slot ELSE -1),
                            B, tagb, <<"MatMul", j>>, "bias",
                            IF job.streaming THEN slot + W ELSE -1)
      BY DEF Weighted
    <3> HIDE DEF b2, W, B, n
    <3> QED BY <1>3, <3>1, <3>2
  <2> HIDE DEF b2, b
  <2> QED BY <1>6, <2>2, <2>3
<1> HIDE DEF b
<1>8. p * 4 \in Nat /\ (p * 4) % 16 = 0 /\ p * 4 >= 1 /\ p * 4 = 4 * p
  BY <1>2
<1>9. b.next \in Nat /\ b.next % 16 = 0 /\ IsLowering(b)
  BY <1>7 DEF Laid, Stands
<1>10. /\ Laid(g, e, j, acc) /\ Follows(b, acc) /\ SameRecords(b, acc)
       /\ acc.segments = b.segments /\ acc.next = b.next + p * 4
  <2>1. acc.next = b.next + p * 4
    BY <1>8, <1>9, AllocMoves
  <2> QED BY <1>2, <1>7, <1>8, <2>1, AllocLaid
<1> HIDE DEF acc
<1>11. /\ Follows(b, done) /\ SameRecords(b, done) /\ done.segments = b.segments
       /\ acc.next <= done.next /\ (~final => acc.next + p <= done.next)
  <2>1. CASE final
    <3>1. done = acc
      BY <2>1
    <3>2. acc.next <= acc.next
      BY <1>10 DEF Follows
    <3> HIDE DEF done, final
    <3> QED BY <1>10, <2>1, <3>1, <3>2
  <2>2. CASE ~final
    <3>1. done = Alloc(acc, p)
      BY <2>2
    <3> HIDE DEF done, final
    <3>2. /\ Follows(acc, done) /\ SameRecords(acc, done) /\ done.segments = acc.segments
          /\ acc.next + p <= done.next
      <4> DEFINE u == Alloc(acc, p)
      <4>1. /\ Follows(acc, u) /\ SameRecords(acc, u) /\ u.segments = acc.segments
            /\ acc.next + p <= u.next
        <5>1. e.base \in Nat /\ j \in Nat /\ Laid(g, e, j, acc) /\ p \in Nat
          BY <1>2, <1>10
        <5> QED BY ONLY <5>1, AllocLaid
      <4>2. done = u
        BY <3>1
      <4> HIDE DEF u
      <4> QED BY <4>1, <4>2
    <3>3. Follows(b, done)
      <4> DEFINE u == b.next
                 y == acc.next
                 z == done.next
      <4>1. u \in Nat /\ y \in Nat /\ z \in Nat /\ u <= y /\ y <= z
        BY <1>9, <1>10, <3>2 DEF Follows
      <4> HIDE DEF u, y, z
      <4>2. u <= z
        BY ONLY <4>1
      <4> QED BY <1>10, <3>2, <4>2 DEF Follows, u, z
    <3>4. SameRecords(b, done)
      BY <1>10, <3>2 DEF SameRecords
    <3> QED BY <1>10, <3>2, <3>3, <3>4 DEF Follows
  <2> QED BY <2>1, <2>2
<1>12. L.name = n.name /\ L.kind = "fc" /\ L.mpad = p /\ L.acc = b.next /\ L.out = out
  OBVIOUS
<1>13. ~L.final => out = acc.next
  <2>1. L.final = final
    OBVIOUS
  <2> HIDE DEF L, final
  <2> QED BY <2>1
<1>14. ~L.final => ~final
  <2>1. L.final = final
    OBVIOUS
  <2> HIDE DEF L, final
  <2> QED BY <2>1
<1> HIDE DEF L, done, out, final, error
<1>15. /\ IsLowering(v) /\ v.layers = Append(done.layers, L) /\ v.fcs = done.fcs + 1
       /\ v.segments = done.segments /\ v.inputs = done.inputs /\ v.pinned = done.pinned
       /\ v.slots = done.slots /\ v.next = done.next /\ v.node = done.node
  BY <1>11 DEF IsLowering, Follows
<1> HIDE DEF v
<1>16. /\ IsLowering(t) /\ t.next = v.next /\ t.segments = v.segments /\ t.inputs = v.inputs
       /\ t.layers = v.layers /\ t.pinned = v.pinned /\ t.slots = v.slots /\ t.fcs = v.fcs
       /\ t.node = v.node
  BY <1>1, <1>15, ProducedIs
<1> HIDE DEF t, n
<1>17. Follows(b, t)
  BY <1>11, <1>15, <1>16 DEF Follows
<1>18. t.layers = Append(b.layers, L) /\ t.segments = b.segments /\ t.inputs = b.inputs
  BY <1>11, <1>15, <1>16 DEF SameRecords
<1>19. /\ b.next + 4 * p <= t.next
       /\ ~L.final => L.out = b.next + 4 * p /\ (b.next + 4 * p) + p <= t.next
  <2>1. t.next = done.next /\ acc.next = b.next + 4 * p
    BY <1>8, <1>10, <1>15, <1>16
  <2> QED BY <1>11, <1>12, <1>13, <1>14, <2>1
<1>20. Laid(g, e, j, t)
  BY <1>2, <1>7, <1>12, <1>17, <1>18, <1>19, FcLaid
<1>21. t.fcs = j /\ t.node = s.node
  <2>1. t.fcs = b.fcs + 1 /\ t.node = b.node
    BY <1>11, <1>15, <1>16 DEF SameRecords
  <2> QED BY <1>4, <1>7, <2>1
<1>22. InOrder(t, j)
  <2> DEFINE f == FcsOf(s.layers)
             h == FcsOf(t.layers)
  <2>1. PICK i \in Nat : Listed(s.layers, i)
    BY DEF Laid, Stands, Lists
  <2>2. FcsOf(Append(s.layers, L)) = Append(f, L)
    <3>1. L.kind = "fc"
      BY <1>12
    <3> QED BY <2>1, <3>1, FcsAppend
  <2>3. h = Append(f, L)
    BY <1>7, <1>18, <2>2
  <2>4. Listed(f, j - 1) /\ \A i2 \in 1 .. j - 1 : f[i2].name = <<"MatMul", i2>>
    BY DEF InOrder
  <2> HIDE DEF f, h
  <2>5. /\ Listed(h, (j - 1) + 1) /\ h[(j - 1) + 1] = L
        /\ \A i2 \in 1 .. j - 1 : h[i2] = f[i2]
    BY <1>2, <2>3, <2>4, Appended
  <2>6. Listed(h, j) /\ h[j] = L
    BY <1>4, <2>5
  <2>7. \A i2 \in 1 .. j : i2 \in 1 .. j - 1 \/ i2 = j
    BY <1>2
  <2>8. \A i2 \in 1 .. j : h[i2].name = <<"MatMul", i2>>
    BY <1>3, <1>12, <2>4, <2>5, <2>6, <2>7
  <2> QED BY <2>6, <2>8 DEF InOrder, h
<1> QED BY <1>20, <1>21, <1>22 DEF t, n

\* A node that lays nothing out.
LEMMA OtherStep ==
  ASSUME NEW g, NEW e, e.base \in Nat, NEW m \in Nat, NEW s, Laid(g, e, m, s), NEW n
  PROVE  LET t == LowerOther(s, n) IN
         Laid(g, e, m, t) /\ t.layers = s.layers /\ t.fcs = s.fcs /\ t.node = s.node
<1> DEFINE t == LowerOther(s, n)
           u == [s EXCEPT !.error = "NotImplementedError"]
           p == Produced(s, n.out, s.addr[n.ins[1]])
           Same(v) == /\ IsLowering(v) /\ v.next = s.next /\ v.segments = s.segments
                      /\ v.inputs = s.inputs /\ v.layers = s.layers /\ v.pinned = s.pinned
                      /\ v.slots = s.slots /\ v.fcs = s.fcs /\ v.node = s.node
<1>1. IsLowering(s) /\ s.next \in Nat /\ s.next % 16 = 0
  BY DEF Laid, Stands
<1>2. t = s \/ t = p \/ t = u
  BY DEF LowerOther
<1>3. Same(s) /\ Same(u)
  BY <1>1 DEF IsLowering
<1>4. Same(p)
  BY <1>1, ProducedIs
<1> HIDE DEF t, u, p
<1>5. Same(t)
  <2> HIDE DEF Same
  <2> QED BY <1>2, <1>3, <1>4
<1>6. Follows(s, t)
  <2>1. s.next <= s.next
    BY <1>1
  <2> QED BY <1>1, <1>5, <2>1 DEF Follows
<1>7. Laid(g, e, m, t)
  BY <1>5, <1>6, SameLaid
<1> QED BY <1>5, <1>7 DEF t

\* On to the next node.
LEMMA MovedOn ==
  ASSUME NEW g, NEW e, e.base \in Nat, NEW m \in Nat, NEW s, Laid(g, e, m, s)
  PROVE  LET t == [s EXCEPT !.node = @ + 1] IN
         /\ Laid(g, e, m, t) /\ t.layers = s.layers /\ t.fcs = s.fcs /\ t.addr = s.addr
         /\ t.node = s.node + 1
<1> DEFINE t == [s EXCEPT !.node = @ + 1]
<1>1. IsLowering(s) /\ s.next \in Nat /\ s.next % 16 = 0 /\ s.next <= s.next
  BY DEF Laid, Stands
<1>2. /\ IsLowering(t) /\ t.next = s.next /\ t.segments = s.segments /\ t.inputs = s.inputs
      /\ t.layers = s.layers /\ t.pinned = s.pinned /\ t.slots = s.slots /\ t.fcs = s.fcs
      /\ t.addr = s.addr /\ t.node = s.node + 1
  BY <1>1 DEF IsLowering
<1> HIDE DEF t
<1>3. Follows(s, t)
  BY <1>1, <1>2 DEF Follows
<1>4. Laid(g, e, m, t)
  BY <1>2, <1>3, SameLaid
<1> QED BY <1>2, <1>4 DEF t

-----------------------------------------------------------------------------
(***************************************************************************)
(* The lowering, node by node.                                             *)
(***************************************************************************)
\* The fc layers counted so far, by the node that comes next.
Counted(g, s) ==
  /\ s.node \in Nat /\ s.node >= 1 /\ s.fcs \in Nat /\ s.fcs <= g.n
  /\ s.node <= g.pre + 1 => s.fcs = 0
  /\ s.node > g.pre + 1 => g.pre + 3 * s.fcs - 1 <= s.node /\ s.node <= g.pre + 3 * s.fcs + 1

\* Up to the concat, the gathers' results and nothing else have an address.
Addressed(g, s) ==
  g.t > 0 /\ s.node <= g.t + 1 => DOMAIN s.addr = {<<"emb_out", k>> : k \in 1 .. s.node - 1}

Ongoing(g, e, s) ==
  Laid(g, e, s.fcs, s) /\ InOrder(s, s.fcs) /\ Counted(g, s) /\ Addressed(g, s)

Underway(s) ==
  \E g, e : Shape(g) /\ Given(e) /\ e.dense \in Nat /\ Earth(g, e) /\ Ongoing(g, e, s)

\* What a node's step is, and what the next node makes of the count.
LEMMA NodeStep ==
  ASSUME NEW g, Shape(g), NEW e, Given(e), e.dense \in Nat, Earth(g, e), NEW s, Ongoing(g, e, s),
         s.node <= Len(Nodes)
  PROVE  Ongoing(g, e, LowerNode(s, Nodes[s.node]))
<1> DEFINE i == s.node
           f == s.fcs
           n == Nodes[i]
           t == CASE n.op = "Gather" -> LowerGather(s, n)
                  [] n.op = "Concat" -> LowerConcat(s, n)
                  [] n.op = "MatMul" -> LowerMatMul(s, n)
                  [] OTHER -> LowerOther(s, n)
           v == [t EXCEPT !.node = @ + 1]
           whole == LowerNode(s, Nodes[i])
           After(h) == /\ h <= g.n /\ (i + 1 <= g.pre + 1 => h = 0)
                       /\ i + 1 > g.pre + 1 => g.pre + 3 * h - 1 <= i + 1 /\ i + 1 <= g.pre + 3 * h + 1
           Named(k) == {<<"emb_out", l>> : l \in 1 .. k}
<1> SUFFICES Ongoing(g, e, whole)
  OBVIOUS
<1>1. whole = v
  BY DEF LowerNode
<1>2. /\ Laid(g, e, f, s) /\ InOrder(s, f) /\ Counted(g, s) /\ Addressed(g, s) /\ e.base \in Nat
  BY DEF Ongoing, Earth
<1>3. /\ i \in Nat /\ i >= 1 /\ f \in Nat /\ f <= g.n /\ (i <= g.pre + 1 => f = 0)
      /\ i > g.pre + 1 => g.pre + 3 * f - 1 <= i /\ i <= g.pre + 3 * f + 1
  BY <1>2 DEF Counted
<1>4. g.n \in Nat /\ g.t \in Nat /\ g.pre \in Nat /\ (g.t > 0 => g.pre = g.t + 1)
  BY ShapeNumbers
<1>5. i \in 1 .. g.pre + 3 * g.n
  BY <1>3, <1>4, ShapeNumbers DEF Nodes
<1>6. g.t > 0 /\ i <= g.t + 1 => DOMAIN s.addr = Named(i - 1)
  BY <1>2 DEF Addressed
<1> HIDE DEF whole, v
<1>7. ASSUME NEW h \in Nat, Laid(g, e, h, t), InOrder(t, h), t.fcs = h, t.node = i, After(h),
             g.t > 0 /\ i <= g.t => DOMAIN t.addr = Named(i)
      PROVE  Ongoing(g, e, whole)
  <2> HIDE DEF t
  <2>1. /\ Laid(g, e, h, v) /\ v.layers = t.layers /\ v.fcs = h /\ v.addr = t.addr
        /\ v.node = i + 1
    BY <1>2, <1>7, MovedOn DEF v
  <2>2. InOrder(v, h)
    BY <1>7, <2>1 DEF InOrder
  <2> DEFINE j == i + 1
  <2>3. j \in Nat /\ j >= 1 /\ j - 1 = i /\ (g.t > 0 /\ j <= g.t + 1 => i <= g.t)
    BY <1>3, <1>4
  <2>4. /\ h <= g.n /\ (j <= g.pre + 1 => h = 0)
        /\ j > g.pre + 1 => g.pre + 3 * h - 1 <= j /\ j <= g.pre + 3 * h + 1
    BY <1>7
  <2>5. v.node = j
    BY <2>1
  <2> HIDE DEF j, i, After
  <2>6. Counted(g, v)
    BY <2>1, <2>3, <2>4, <2>5 DEF Counted
  <2>7. g.t > 0 /\ v.node <= g.t + 1 => DOMAIN v.addr = Named(v.node - 1)
    BY <1>7, <2>1, <2>3, <2>5
  <2>8. Addressed(g, v)
    BY <2>7 DEF Addressed
  <2>9. Ongoing(g, e, v)
    BY <2>1, <2>2, <2>6, <2>8 DEF Ongoing
  <2> HIDE DEF v, whole
  <2> QED BY <1>1, <2>9
<1>8. ASSUME n.op \notin {"Gather", "Concat", "MatMul"}, After(f), ~(g.t > 0 /\ i <= g.t)
      PROVE  Ongoing(g, e, whole)
  <2>1. t = LowerOther(s, n)
    BY <1>8
  <2>2. Laid(g, e, f, t) /\ t.layers = s.layers /\ t.fcs = f /\ t.node = i
    <3> DEFINE u == LowerOther(s, n)
    <3>1. Laid(g, e, f, u) /\ u.layers = s.layers /\ u.fcs = s.fcs /\ u.node = s.node
      <4> HIDE DEF n, t
      <4>1. e.base \in Nat /\ f \in Nat /\ Laid(g, e, f, s)
        BY <1>2, <1>3
      <4> QED BY ONLY <4>1, OtherStep
    <3> HIDE DEF u, t
    <3>2. t = u
      BY <2>1 DEF u
    <3> QED BY <3>1, <3>2
  <2> HIDE DEF t
  <2>3. InOrder(t, f)
    BY <1>2, <2>2 DEF InOrder
  <2> HIDE DEF After, Named, i, f
  <2> QED BY <1>3, <1>7, <1>8, <2>2, <2>3
<1>9. CASE g.t > 0 /\ i \in 1 .. g.t /\ n = GatherNode(i)
  <2>1. n.op = "Gather"
    BY <1>9 DEF GatherNode, Node
  <2>2. t = LowerGather(s, GatherNode(i))
    BY <1>9, <2>1
  <2> DEFINE u == LowerGather(s, GatherNode(i))
  <2>3. /\ Laid(g, e, f, u) /\ u.fcs = s.fcs /\ u.node = s.node
        /\ FcsOf(u.layers) = FcsOf(s.layers)
        /\ \E a : u.addr = Put(s.addr, <<"emb_out", i>>, a)
    <3> HIDE DEF n, t
    <3>1. g.t > 0 /\ i \in 1 .. g.t /\ f \in Nat /\ f <= g.n /\ Laid(g, e, f, s)
      BY <1>2, <1>3, <1>9
    <3> HIDE DEF f, i
    <3> QED BY SMTT(30), <3>1, GatherStep
  <2>4. t = u
    BY <2>2
  <2> HIDE DEF u, t, n
  <2>5. InOrder(t, f)
    BY <1>2, <2>3, <2>4 DEF InOrder
  <2>6. After(f)
    BY <1>3, <1>4, <1>9
  <2>7. DOMAIN t.addr = Named(i)
    <3>1. PICK a : t.addr = Put(s.addr, <<"emb_out", i>>, a)
      BY <2>3, <2>4
    <3>2. DOMAIN t.addr = DOMAIN s.addr \cup {<<"emb_out", i>>}
      BY <3>1 DEF Put
    <3>3. DOMAIN s.addr = Named(i - 1)
      BY <1>4, <1>6, <1>9
    <3>4. \A l : l \in 1 .. i <=> l \in 1 .. i - 1 \/ l = i
      BY <1>3
    <3>5. Named(i) = Named(i - 1) \cup {<<"emb_out", i>>}
      BY <3>4
    <3> QED BY <3>2, <3>3, <3>5
  <2> HIDE DEF After, Named, i, f
  <2> QED BY <1>3, <1>7, <2>3, <2>4, <2>5, <2>6, <2>7 DEF i, f
<1>10. CASE g.t > 0 /\ i = g.t + 1 /\ n = ConcatNode(g.t)
  <2>1. n.op = "Concat"
    BY <1>10 DEF ConcatNode, Node
  <2>2. t = LowerConcat(s, ConcatNode(g.t))
    BY <1>10, <2>1
  <2> DEFINE u == LowerConcat(s, ConcatNode(g.t))
  <2>3. DOMAIN s.addr = {<<"emb_out", k>> : k \in 1 .. g.t}
    BY <1>4, <1>6, <1>10
  <2>4. /\ Laid(g, e, f, u) /\ u.fcs = s.fcs /\ u.node = s.node
        /\ FcsOf(u.layers) = FcsOf(s.layers)
    <3> HIDE DEF n, t
    <3>1. g.t > 0 /\ f \in Nat /\ f <= g.n /\ Laid(g, e, f, s)
      BY <1>2, <1>3, <1>10
    <3> HIDE DEF f, i
    <3> QED BY <2>3, <3>1, ConcatStep
  <2>5. t = u
    BY <2>2
  <2> HIDE DEF u, t, n
  <2>6. InOrder(t, f)
    BY <1>2, <2>4, <2>5 DEF InOrder
  <2>7. After(f) /\ ~(g.t > 0 /\ i <= g.t)
    BY <1>3, <1>4, <1>10
  <2> HIDE DEF After, Named, i, f
  <2> QED BY <1>3, <1>7, <2>4, <2>5, <2>6, <2>7 DEF i, f
<1>11. CASE \E j \in 1 .. g.n : i = g.pre + 3 * j - 2 /\ n = MatMulNode(j, g.first)
  <2>1. PICK j \in 1 .. g.n : i = g.pre + 3 * j - 2 /\ n = MatMulNode(j, g.first)
    BY <1>11
  <2>2. n.op = "MatMul"
    BY <2>1 DEF MatMulNode, Node
  <2>3. t = LowerMatMul(s, MatMulNode(j, g.first))
    BY <2>1, <2>2
  <2> DEFINE u == LowerMatMul(s, MatMulNode(j, g.first))
  <2>4. f = j - 1
    <3> HIDE DEF n, t, i, f
    <3>1. i <= g.pre + 1 => j = 1
      BY <1>4, <2>1
    <3> QED BY <1>3, <1>4, <2>1, <3>1
  <2>5. Laid(g, e, j, u) /\ InOrder(u, j) /\ u.fcs = j /\ u.node = s.node
    <3> HIDE DEF n, t
    <3> QED BY <1>2, <2>4, MatMulStep
  <2>6. t = u
    BY <2>3
  <2> HIDE DEF u, t, n
  <2>7. After(j) /\ ~(g.t > 0 /\ i <= g.t) /\ j \in Nat
    BY SMTT(30), <1>3, <1>4, <2>1
  <2> HIDE DEF After, Named, f
  <2> QED BY <1>7, <2>5, <2>6, <2>7
<1>12. CASE g.t = 0 /\ g.pre = 1 /\ i = 1 /\ n = Node("Flatten", 0, <<Dense>>, g.first)
  <2>1. n.op \notin {"Gather", "Concat", "MatMul"}
    BY <1>12 DEF Node
  <2>2. After(f) /\ ~(g.t > 0 /\ i <= g.t)
    <3> HIDE DEF n, t
    <3> QED BY <1>3, <1>4, <1>12
  <2> HIDE DEF After, n, t
  <2> QED BY <1>8, <2>1, <2>2
<1>13. CASE \E j \in 1 .. g.n : i = g.pre + 3 * j - 1 /\ n = AddNode(j)
  <2>1. PICK j \in 1 .. g.n : i = g.pre + 3 * j - 1 /\ n = AddNode(j)
    BY <1>13
  <2>2. n.op \notin {"Gather", "Concat", "MatMul"}
    BY <2>1 DEF AddNode, Node
  <2>3. After(f) /\ ~(g.t > 0 /\ i <= g.t)
    <3> HIDE DEF n, t
    <3> QED BY SMTT(30), <1>3, <1>4, <2>1
  <2> HIDE DEF After, n, t
  <2> QED BY <1>8, <2>2, <2>3
<1>14. CASE \E j \in 1 .. g.n : i = g.pre + 3 * j /\ n = LastNode(j, g.n, g.act)
  <2>1. PICK j \in 1 .. g.n : i = g.pre + 3 * j /\ n = LastNode(j, g.n, g.act)
    BY <1>14
  <2>2. g.act \notin {"Gather", "Concat", "MatMul"}
    BY DEF Shape, Form
  <2>3. n.op \notin {"Gather", "Concat", "MatMul"}
    BY <2>1, <2>2 DEF LastNode, Node
  <2>4. After(f) /\ ~(g.t > 0 /\ i <= g.t)
    <3> HIDE DEF n, t
    <3> QED BY SMTT(30), <1>3, <1>4, <2>1
  <2> HIDE DEF After, n, t
  <2> QED BY <1>8, <2>3, <2>4
<1>15. \/ g.t = 0 /\ g.pre = 1 /\ i = 1 /\ n = Node("Flatten", 0, <<Dense>>, g.first)
       \/ /\ g.t > 0 /\ i \in 1 .. g.t /\ n = GatherNode(i)
       \/ /\ g.t > 0 /\ i = g.t + 1 /\ n = ConcatNode(g.t)
       \/ \E j \in 1 .. g.n : i = g.pre + 3 * j - 2 /\ n = MatMulNode(j, g.first)
       \/ \E j \in 1 .. g.n : i = g.pre + 3 * j - 1 /\ n = AddNode(j)
       \/ \E j \in 1 .. g.n : i = g.pre + 3 * j /\ n = LastNode(j, g.n, g.act)
  BY <1>5, NodeForms DEF Nodes
<1> HIDE DEF n, t, i
<1> QED BY <1>9, <1>10, <1>11, <1>12, <1>13, <1>14, <1>15

\* Nothing is laid out on the ground yet.
LEMMA GroundOngoing ==
  ASSUME NEW g, Shape(g), ~Failed(Ground)
  PROVE  Underway(Ground)
<1> DEFINE s == Ground
<1>1. PICK e : /\ Given(e) /\ Earth(g, e)
               /\ e.base = s.next /\ e.pinned = s.pinned /\ e.slots = s.slots
  BY EarthExists
<1>2. Pinned(g, s) /\ IsLowering(s)
  BY GroundLaid
<1> HIDE DEF s
<1>3. /\ s.segments = <<>> /\ s.inputs = <<>> /\ s.layers = <<>>
      /\ s.fcs = 0 /\ s.addr = <<>> /\ s.node = 1
      /\ s.next \in Nat /\ s.next % 16 = 0
  BY <1>2 DEF Pinned
<1>4. e.dense \in Nat
  BY <1>1, DenseLen DEF Given
<1>5. Listed(<<>>, 0) /\ Range(<<>>) = {}
  BY DEF Listed, Range
<1>6. FcsOf(s.layers) = <<>>
  <2> DEFINE a == <<>>
             S == {L \in Range(a) : L.kind = "fc"}
  <2>1. Len(a) = 0 /\ 0 \in Nat
    OBVIOUS
  <2> HIDE DEF a, S
  <2>2. PICK u : IsSelect(u, a, S, 0) /\ Select(a, S) = u[0]
    BY <2>1, SelectIs
  <2>3. u[0] = <<>>
    BY <2>2 DEF IsSelect
  <2> QED BY <1>3, <2>2, <2>3 DEF FcsOf, a, S
<1>7. Lists(s)
  BY <1>3, <1>5 DEF Lists
<1>8. Areas(s) = {}
  BY <1>3, <1>5, <1>6 DEF Areas, AreasOfSegments, AreasOfInputs, AreasOfFcs, AreasOfGathers
<1>9. Stands(e, s)
  BY <1>1, <1>2, <1>3, <1>7 DEF Stands
<1>10. Laid(g, e, 0, s)
  BY <1>8, <1>9 DEF Laid, Fits
<1>11. InOrder(s, 0)
  BY <1>5, <1>6 DEF InOrder
<1>12. g.n \in Nat /\ g.t \in Nat /\ g.pre \in Nat
  BY ShapeNumbers
<1>13. Counted(g, s)
  BY <1>3, <1>12 DEF Counted
<1>14. Addressed(g, s)
  <2>1. DOMAIN s.addr = {}
    BY <1>3
  <2>2. {<<"emb_out", k>> : k \in 1 .. s.node - 1} = {}
    BY <1>3
  <2> QED BY <2>1, <2>2 DEF Addressed
<1>15. Ongoing(g, e, s)
  BY <1>3, <1>10, <1>11, <1>13, <1>14 DEF Ongoing
<1> QED BY <1>1, <1>4, <1>15 DEF Underway, s

\* One node more of the layout,
LEMMA UnderwayNode ==
  ASSUME NEW s, Underway(s), s.node <= Len(Nodes)
  PROVE  Underway(LowerNode(s, Nodes[s.node]))
<1>1. PICK g, e : Shape(g) /\ Given(e) /\ e.dense \in Nat /\ Earth(g, e) /\ Ongoing(g, e, s)
  BY DEF Underway
<1> DEFINE t == LowerNode(s, Nodes[s.node])
<1>2. Ongoing(g, e, t)
  BY <1>1, NodeStep
<1> HIDE DEF t
<1>3. Underway(t)
  BY <1>1, <1>2 DEF Underway
<1> QED BY <1>3 DEF t

\* and its end.
LEMMA UnderwayFits ==
  ASSUME NEW s, Underway(s), s.next <= Ddr2Bytes
  PROVE  FitsIn(Document(s))
<1>1. PICK g, e : Shape(g) /\ Given(e) /\ e.dense \in Nat /\ Earth(g, e) /\ Ongoing(g, e, s)
  BY DEF Underway
<1> DEFINE f == s.fcs
<1>2. f \in Nat /\ f <= g.n /\ Laid(g, e, f, s) /\ InOrder(s, f)
  BY <1>1 DEF Ongoing, Counted
<1> HIDE DEF f
<1> QED BY <1>1, <1>2, LayoutOf

\* It is the same for the model it was made for.
LEMMA UnderwaySame ==
  ASSUME job' = job, model' = model, Underway(lw')
  PROVE  Underway(lw)'
<1>1. ASSUME NEW g, Shape(g) PROVE Shape(g)'
  BY <1>1 DEF Shape
<1>2. ASSUME NEW e, Given(e) PROVE Given(e)'
  BY <1>2 DEF Given
<1>3. PICK g, e : Shape(g) /\ Given(e) /\ e.dense \in Nat /\ Earth(g, e) /\ Ongoing(g, e, lw')
  BY DEF Underway
<1>4. Shape(g)' /\ Given(e)'
  BY <1>1, <1>2, <1>3
<1> QED BY <1>3, <1>4 DEF Underway

-----------------------------------------------------------------------------
(***************************************************************************)
(* The documents on disk.                                                  *)
(***************************************************************************)
\* The tools after the manifest, as a layout in the making needs them.
Written ==
  /\ program = <<>> \/ \E r : program = <<r>> /\ DOMAIN r = {"doc", "image", "vectors"}
  /\ stage \in {"lower", "write_image", "write_vectors"} => program # <<>>
  /\ \A doc \in Docs : FitsIn(doc)

LayingOut == /\ stage = "lower" /\ ~Failed(lw) => Underway(lw)
             /\ Written

\* A step that writes no document.
LEMMA OtherWritten ==
  ASSUME Written, program' = program, stage' \in {"lower", "write_image", "write_vectors"} => program # <<>>
  PROVE  Written'
BY DEF Written, Docs, FitsIn, Regions, FcLayers, TakeTurns

\* A step that replaces the program by one with these documents.
LEMMA NewWritten ==
  ASSUME NEW r, program' = <<r>>, DOMAIN r = {"doc", "image", "vectors"},
         \A doc \in Range(r.doc) : FitsIn(doc)
  PROVE  Written'
<1>1. program' # <<>> /\ program'[1] = r
  OBVIOUS
<1>2. Docs' = Range(r.doc)
  BY <1>1 DEF Docs
<1> QED BY <1>1, <1>2 DEF Written

\* Tools other than the lowering write no document and resume no layout.
LEMMA OthersWrite ==
  ASSUME Place \/ Run \/ Baseline
  PROVE  program' = program /\ stage' \notin {"lower", "write_image", "write_vectors"}
<1>1. CASE Place
  BY <1>1 DEF Place, Generate, Parse, SolveStart, SolveFirst, SolveLayer, SolveEnd, Backtrack,
              WriteManifest, Fail, files
<1>2. CASE Run
  BY <1>2 DEF Run, Start, Prepare, PrepareFails, BeginIteration, RunOneLayer, LinkFails,
              ReadOutput, Compare, Exit, files
<1>3. CASE Baseline
  BY <1>3 DEF Baseline, Split, RunPart, DumpWeights, RunSwapped, ProfileNode, ProfileEnd, files
<1> QED BY <1>1, <1>2, <1>3

\* Nothing is laid out at the start.
LEMMA LayingInit ==
  ASSUME Init
  PROVE  LayingOut
BY DEF Init, PlacementInit, LayingOut, Written, Docs

\* Every step keeps the layout.
LEMMA LayingStep ==
  ASSUME ModelKept, LayingOut, [Next]_vars
  PROVE  LayingOut'
<1> DEFINE Files == {"doc", "image", "vectors"}
           Busy == {"lower", "write_image", "write_vectors"}
<1>1. CASE UNCHANGED vars
  <2>1. /\ job' = job /\ model' = model /\ program' = program /\ stage' = stage /\ lw' = lw
    BY <1>1 DEF vars, files
  <2>2. Written'
    BY <2>1, OtherWritten DEF LayingOut, Written
  <2>3. (stage = "lower" /\ ~Failed(lw) => Underway(lw))'
    <3>1. ASSUME stage' = "lower", ~Failed(lw)' PROVE Underway(lw)'
      <4>1. Underway(lw)
        BY <2>1, <3>1 DEF LayingOut, Failed
      <4>2. Underway(lw')
        BY <2>1, <4>1
      <4> QED BY <2>1, <4>2, UnderwaySame
    <3> QED BY <3>1
  <2> QED BY <2>2, <2>3 DEF LayingOut
<1>2. CASE Place \/ Run \/ Baseline
  <2>1. program' = program /\ stage' \notin Busy
    BY <1>2, OthersWrite
  <2>2. Written'
    BY <2>1, OtherWritten DEF LayingOut
  <2> QED BY <2>1, <2>2 DEF LayingOut
<1>3. CASE Lower
  <2>0. stage # "generate"
    BY <1>3 DEF Lower, LowerStart, LowerStep, LowerRaise, Lowered, WriteDoc, WriteImage,
         WriteVectors, LowerDies, Retrain
  <2>1. CASE LowerStart
    <3>1. /\ job' = job /\ model' = model /\ lw' = Ground /\ stage' = "lower"
          /\ program' = IF program = <<>> THEN <<NoProgram>> ELSE program
      BY <2>1 DEF LowerStart, Ground
    <3>2. Written'
      <4>1. CASE program = <<>>
        <5>1. DOMAIN NoProgram = Files /\ NoProgram.doc = <<>>
          BY DEF NoProgram
        <5>2. \A doc \in Range(NoProgram.doc) : FitsIn(doc)
          BY <5>1 DEF Range
        <5> QED BY <3>1, <4>1, <5>1, <5>2, NewWritten
      <4>2. CASE program # <<>>
        BY <3>1, <4>2, OtherWritten DEF LayingOut
      <4> QED BY <4>1, <4>2
    <3>3. ASSUME ~Failed(lw)' PROVE Underway(lw)'
      <4>1. ~Failed(Ground)
        BY <3>1, <3>3 DEF Failed
      <4>2. PICK g : Shape(g)
        BY <2>0, ShapeExists
      <4>3. Underway(Ground)
        BY <4>1, <4>2, GroundOngoing
      <4>4. Underway(lw')
        BY <3>1, <4>3
      <4> QED BY <3>1, <4>4, UnderwaySame
    <3> QED BY <3>2, <3>3 DEF LayingOut
  <2>2. CASE LowerStep
    <3>1. /\ job' = job /\ model' = model /\ program' = program /\ stage' = stage
          /\ stage = "lower" /\ ~Failed(lw) /\ lw.node <= Len(Nodes)
          /\ lw' = LowerNode(lw, Nodes[lw.node])
      BY <2>2 DEF LowerStep, files, Failed
    <3>2. Written'
      BY <3>1, OtherWritten DEF LayingOut, Written
    <3>3. Underway(LowerNode(lw, Nodes[lw.node]))
      BY <3>1, UnderwayNode DEF LayingOut
    <3>4. Underway(lw')
      BY <3>1, <3>3
    <3>5. Underway(lw)'
      BY <3>1, <3>4, UnderwaySame
    <3> QED BY <3>2, <3>5 DEF LayingOut
  <2>3. CASE LowerRaise \/ Retrain
    <3>1. program' = program /\ stage' \notin Busy
      BY <2>3 DEF LowerRaise, Retrain, Fail, Errors, files
    <3>2. Written'
      BY <3>1, OtherWritten DEF LayingOut
    <3> QED BY <3>1, <3>2 DEF LayingOut
  <2>4. CASE WriteDoc \/ WriteImage \/ WriteVectors \/ LowerDies
    <3>1. stage' # "lower" /\ stage \in Busy
      BY <2>4 DEF WriteDoc, WriteImage, WriteVectors, LowerDies, Lowered
    <3>2. PICK r : program = <<r>> /\ DOMAIN r = Files
      BY <3>1 DEF LayingOut, Written
    <3>3. program[1] = r /\ Docs = Range(r.doc) /\ \A doc \in Range(r.doc) : FitsIn(doc)
      BY <3>2 DEF Docs, LayingOut, Written
    <3>4. CASE WriteDoc
      <4> DEFINE d == Document(lw)
                 q == [r EXCEPT !.doc = <<d>>]
      <4>1. program' = <<q>> /\ stage = "lower" /\ ~Failed(lw) /\ lw.next <= Ddr2Bytes
        BY <3>3, <3>4 DEF WriteDoc, Lowered, Failed
      <4>2. FitsIn(d)
        BY <4>1, UnderwayFits DEF LayingOut
      <4> HIDE DEF d
      <4>3. DOMAIN q = Files /\ q.doc = <<d>>
        BY <3>2
      <4>4. \A doc \in Range(q.doc) : FitsIn(doc)
        BY <4>2, <4>3 DEF Range
      <4> HIDE DEF q
      <4>5. Written'
        BY <4>1, <4>3, <4>4, NewWritten
      <4> QED BY <3>1, <4>5 DEF LayingOut
    <3>5. ASSUME NEW q, program' = <<q>>, DOMAIN q = Files, q.doc \in {r.doc, <<>>}
          PROVE  Written'
      <4>1. \A doc \in Range(q.doc) : FitsIn(doc)
        BY <3>3, <3>5 DEF Range
      <4> QED BY <3>5, <4>1, NewWritten
    <3>6. program' = program => Written'
      BY <3>2, <3>5
    <3>7. CASE WriteImage
      <4> DEFINE im == <<[bytes |-> lw.image, size |-> lw.end]>>
                 q == [r EXCEPT !.image = im]
      <4>1. program' = <<q>>
        BY <3>3, <3>7 DEF WriteImage
      <4> HIDE DEF im
      <4>2. DOMAIN q = Files /\ q.doc = r.doc
        BY <3>2
      <4> HIDE DEF q
      <4> QED BY <3>1, <3>5, <4>1, <4>2 DEF LayingOut
    <3>8. CASE WriteVectors
      <4> DEFINE im == <<TestVectors(Document(lw), lw.image)>>
                 q == [r EXCEPT !.vectors = im]
      <4>1. program' = <<q>>
        BY <3>3, <3>8 DEF WriteVectors
      <4> HIDE DEF im
      <4>2. DOMAIN q = Files /\ q.doc = r.doc
        BY <3>2
      <4> HIDE DEF q
      <4> QED BY <3>1, <3>5, <4>1, <4>2 DEF LayingOut
    <3>9. CASE LowerDies
      <4> DEFINE q == [r EXCEPT !.doc = <<>>]
                 p == [r EXCEPT !.image = <<>>]
      <4>1. program' = program \/ program' = <<q>> \/ program' = <<p>>
        BY <3>3, <3>9 DEF LowerDies
      <4>2. DOMAIN q = Files /\ q.doc = <<>> /\ DOMAIN p = Files /\ p.doc = r.doc
        BY <3>2
      <4> HIDE DEF q, p
      <4> QED BY <3>1, <3>5, <3>6, <4>1, <4>2 DEF LayingOut
    <3> QED BY <2>4, <3>4, <3>7, <3>8, <3>9
  <2> QED BY <1>3, <2>1, <2>2, <2>3, <2>4 DEF Lower
<1> QED BY <1>1, <1>2, <1>3 DEF Next

\* Everything a lowering lays out fits in the DDR2 and apart, save layers that
\* take turns in a slot (lowering.lower, _pin_concats, _place).
THEOREM LayoutTheorem == Spec => []LayoutFits
<1>1. Init => ModelKept /\ LayingOut
  BY ModelInit, LayingInit
<1>2. (ModelKept /\ LayingOut) /\ [Next]_vars => (ModelKept /\ LayingOut)'
  BY ModelKeeps, LayingStep
<1>3. LayingOut => LayoutFits
  BY DEF LayingOut, Written, FitsIn, LayoutFits
<1> QED BY <1>1, <1>2, <1>3, PTL DEF Spec

=============================================================================
