-------------------------- MODULE V2RuntimeProofs --------------------------
(***************************************************************************)
(* What a measurement of the cold pool pays for (ColdIsCold), for every    *)
(* model the generators build, any page size, prefetch and number of runs. *)
(***************************************************************************)
EXTENDS LoweringProofs

-----------------------------------------------------------------------------
(***************************************************************************)
(* Where the layers of a layout that does not stream read the image.       *)
(***************************************************************************)
\* The table of a gather, the weights and the bias of an fc layer end by top.
Within(L, top) ==
  /\ L.kind \in {"gather", "concat", "fc"}
  /\ L.kind = "gather" =>
       /\ L.table \in Nat /\ L.rows \in Nat /\ L.rows >= 1 /\ L.width \in Nat
       /\ L.dim \in Nat /\ L.dim >= 1 /\ L.dim <= L.width
       /\ L.table + L.rows * L.width <= top
  /\ L.kind = "fc" =>
       /\ L.w \in Nat /\ L.mpad \in Nat /\ L.mpad >= 1 /\ L.kpad \in Nat /\ L.kpad >= 1
       /\ L.w + L.mpad * L.kpad <= top
       /\ L.b \in Nat /\ L.n \in Nat /\ L.n >= 1 /\ L.n <= L.mpad /\ L.b + L.mpad * 4 <= top

Inside(s) == \A L \in Range(s.layers) : Within(L, s.next)

\* A step of the layout: the allocator moves on, one layer more at most.
Grows(s, t) ==
  /\ t.next \in Nat /\ s.next <= t.next
  /\ t.layers = s.layers \/ \E L : t.layers = Append(s.layers, L) /\ Within(L, t.next)

LEMMA WithinGrows ==
  ASSUME NEW L, NEW a \in Nat, NEW b \in Nat, a <= b, Within(L, a)
  PROVE  Within(L, b)
<1>1. ASSUME L.kind = "gather" PROVE L.table + L.rows * L.width <= b
  <2> DEFINE x == L.table + L.rows * L.width
  <2>1. x \in Nat /\ x <= a
    <3>1. \A y, z \in Nat : y * z \in Nat
      OBVIOUS
    <3> QED BY <1>1, <3>1 DEF Within
  <2> HIDE DEF x
  <2>2. x <= b
    BY <2>1
  <2> QED BY <2>2 DEF x
<1>2. ASSUME L.kind = "fc" PROVE L.w + L.mpad * L.kpad <= b /\ L.b + L.mpad * 4 <= b
  <2> DEFINE x == L.w + L.mpad * L.kpad
             y == L.b + L.mpad * 4
  <2>1. x \in Nat /\ x <= a /\ y \in Nat /\ y <= a
    <3>1. \A p, q \in Nat : p * q \in Nat
      OBVIOUS
    <3> QED BY <1>2, <3>1 DEF Within
  <2> HIDE DEF x, y
  <2>2. x <= b /\ y <= b
    BY <2>1
  <2> QED BY <2>2 DEF x, y
<1> QED BY <1>1, <1>2 DEF Within

LEMMA InsideGrows ==
  ASSUME NEW s, NEW t, Lists(s), s.next \in Nat, Inside(s), Grows(s, t)
  PROVE  Inside(t)
<1>1. PICK n \in Nat : Listed(s.layers, n)
  BY DEF Lists
<1>2. \A L \in Range(s.layers) : Within(L, t.next)
  BY WithinGrows DEF Inside, Grows
<1>3. ASSUME NEW L, t.layers = Append(s.layers, L), Within(L, t.next)
      PROVE  Inside(t)
  <2>1. Range(t.layers) = Range(s.layers) \cup {L}
    BY <1>1, <1>3, RangeAppend
  <2> QED BY <1>2, <1>3, <2>1 DEF Inside
<1>4. CASE t.layers = s.layers
  BY <1>2, <1>4 DEF Inside
<1> QED BY <1>3, <1>4 DEF Grows

-----------------------------------------------------------------------------
(***************************************************************************)
(* The names of the inputs and of the tensors with an address.             *)
(***************************************************************************)
InputsOf(s) == {x.name : x \in Range(s.inputs)}

LEMMA InputsAppend ==
  ASSUME NEW s, NEW t, NEW x, Lists(s), t.inputs = Append(s.inputs, x)
  PROVE  InputsOf(t) = InputsOf(s) \cup {x.name}
<1>1. PICK n \in Nat : Listed(s.inputs, n)
  BY DEF Lists
<1>2. Range(t.inputs) = Range(s.inputs) \cup {x}
  BY <1>1, RangeAppend
<1> QED BY <1>2 DEF InputsOf

\* A step that adds N to the names of the inputs and K to the tensors with an address.
Goes(s, t, N, K) ==
  /\ IsLowering(t) /\ t.node = s.node
  /\ Grows(s, t) /\ InputsOf(t) = InputsOf(s) \cup N /\ DOMAIN t.addr = DOMAIN s.addr \cup K

\* A segment where the allocator stands.
LEMMA PlaceMoves ==
  ASSUME NEW s, IsLowering(s), s.next \in Nat, s.next % 16 = 0, NEW len \in Nat, NEW tag,
         NEW who, NEW kind
  PROVE  LET t == PlaceSegment(s, len, tag, who, kind, -1)
         IN /\ IsLowering(t) /\ SameRecords(s, t)
            /\ t.next \in Nat /\ t.next % 16 = 0 /\ s.next + len <= t.next
<1> DEFINE t == PlaceSegment(s, len, tag, who, kind, -1)
           x == [addr |-> s.next, off |-> s.end, len |-> len, layer |-> who, kind |-> kind]
<1>1. /\ IsLowering(t) /\ SameRecords(s, t) /\ t.segments = Append(s.segments, x)
      /\ t.next = pad16(s.next + Room(len))
  BY PlaceIs
<1>2. t.next = Alloc(s, len).next
  BY <1>1, AllocIs
<1> HIDE DEF t
<1>3. t.next \in Nat /\ t.next % 16 = 0 /\ s.next + len <= t.next
  BY <1>2, AllocMoves
<1> QED BY <1>1, <1>3 DEF t

\* What a gather leaves,
LEMMA GatherReads ==
  ASSUME NEW g, Shape(g), g.t > 0, NEW k \in 1 .. g.t, NEW s, IsLowering(s), Lists(s),
         s.next \in Nat, s.next % 16 = 0, <<"emb_out", k>> \in DOMAIN s.pinned
  PROVE  LET n == GatherNode(k)
             t == LowerGather(s, n)
         IN Goes(s, t, {n.ins[2]}, {n.out})
<1> DEFINE n == GatherNode(k)
           w == pad16(g.cols)
           out == s.pinned[<<"emb_out", k>>]
           scale == IF ScaleOf(n.out) = Absent THEN n.ins[1] ELSE ScaleOf(n.out)
           table == PlaceSegment(s, g.rows * w, Tag(model.content[n.ins[1]], 0, scale, training),
                                 n.name, "table", -1)
           idx == Alloc(table, 16)
           x == [name |-> n.ins[2], kind |-> "index", addr |-> table.next,
                 count |-> 4, scale |-> Absent]
           L == [name |-> n.name, kind |-> "gather", table |-> s.next,
                 rows |-> g.rows, dim |-> g.cols, width |-> w,
                 idx |-> table.next, out |-> out, scale |-> scale, stream |-> FALSE]
           v == [idx EXCEPT !.inputs = Append(@, x), !.layers = Append(@, L)]
           t == LowerGather(s, n)
<1>1. /\ g.rows \in Nat /\ g.cols \in Nat /\ g.t \in Nat /\ g.rows >= 1 /\ g.cols >= 1
      /\ model.shape[<<"emb_table", k>>] = <<g.rows, g.cols>>
  BY ShapeNumbers
<1>2. /\ n.ins[1] = <<"emb_table", k>> /\ n.out = <<"emb_out", k>>
  BY DEF GatherNode, Node
<1>3. n.out \in DOMAIN s.pinned /\ s.pinned[n.out] = out
  BY <1>2
<1>4. t = Produced(v, n.out, out)
  <2>1. model.shape[n.ins[1]] = <<g.rows, g.cols>>
    BY <1>1, <1>2
  <2>2. model.shape[n.ins[1]][1] = g.rows /\ model.shape[n.ins[1]][2] = g.cols
    BY <2>1
  <2> HIDE DEF n, out
  <2> QED BY <1>3, <2>2 DEF LowerGather
<1>5. w \in Nat /\ g.rows * w \in Nat /\ g.cols <= w
  BY <1>1, PadIs
<1>6. L.kind = "gather" /\ L.table = s.next /\ L.rows = g.rows /\ L.width = w /\ L.dim = g.cols
  OBVIOUS
<1> HIDE DEF w, out, scale
<1>7. /\ IsLowering(table) /\ SameRecords(s, table)
      /\ table.next \in Nat /\ table.next % 16 = 0 /\ s.next + g.rows * w <= table.next
  BY <1>5, PlaceMoves
<1> HIDE DEF table
<1>8. /\ IsLowering(idx) /\ SameRecords(table, idx) /\ idx.next \in Nat /\ table.next <= idx.next
  <2>1. 16 \in Nat
    OBVIOUS
  <2> QED BY <1>7, <2>1, AllocIs, AllocMoves
<1> HIDE DEF idx
<1>9. /\ IsLowering(v) /\ v.inputs = Append(idx.inputs, x) /\ v.layers = Append(idx.layers, L)
      /\ v.next = idx.next /\ v.addr = idx.addr /\ v.node = idx.node
  <2> HIDE DEF x, L
  <2> QED BY <1>8 DEF IsLowering
<1>10. x.name = n.ins[2]
  OBVIOUS
<1> HIDE DEF v, x, L
<1>11. /\ t.next = v.next /\ t.inputs = v.inputs /\ t.layers = v.layers
       /\ t.addr = Put(v.addr, n.out, out) /\ IsLowering(t) /\ t.node = v.node
  BY SMTT(30), <1>4, <1>9, ProducedIs
<1> HIDE DEF t, n
<1>12. /\ t.inputs = Append(s.inputs, x) /\ t.layers = Append(s.layers, L) /\ t.next = idx.next
       /\ t.addr = Put(s.addr, n.out, out) /\ IsLowering(t) /\ t.node = s.node
  BY <1>7, <1>8, <1>9, <1>11 DEF SameRecords
<1>13. s.next + g.rows * w <= t.next /\ t.next \in Nat /\ s.next <= t.next
  <2> DEFINE W == g.rows * w
             a == s.next
             b == table.next
             c == idx.next
  <2>1. /\ W \in Nat /\ a \in Nat /\ b \in Nat /\ c \in Nat /\ a + W <= b /\ b <= c
    BY <1>5, <1>7, <1>8
  <2> HIDE DEF W, a, b, c
  <2>2. a + W <= c /\ a <= c
    BY ONLY <2>1
  <2> QED BY <1>8, <1>12, <2>2 DEF W, a, c
<1>14. Within(L, t.next)
  BY <1>1, <1>5, <1>6, <1>13 DEF Within
<1>15. Grows(s, t)
  BY <1>12, <1>13, <1>14 DEF Grows
<1>16. InputsOf(t) = InputsOf(s) \cup {n.ins[2]}
  <2>1. t.inputs = Append(s.inputs, x) /\ Lists(s)
    BY <1>12
  <2>2. InputsOf(t) = InputsOf(s) \cup {x.name}
    BY ONLY <2>1, InputsAppend
  <2> QED BY <1>10, <2>2
<1>17. DOMAIN t.addr = DOMAIN s.addr \cup {n.out}
  BY <1>12 DEF Put
<1> QED BY <1>12, <1>15, <1>16, <1>17 DEF Goes, t, n

\* Two lists together have the elements of both.
LEMMA RangeCat ==
  ASSUME NEW m \in Nat, NEW n \in Nat, NEW a, NEW b, Listed(a, m), Listed(b, n)
  PROVE  Range(Cat(a, b)) = Range(a) \cup Range(b)
<1> DEFINE c == Cat(a, b)
<1>1. /\ Listed(c, m + n)
      /\ \A i \in 1 .. m : c[i] = a[i]
      /\ \A i \in 1 .. n : c[m + i] = b[i]
  BY Joined
<1> HIDE DEF c
<1>2. DOMAIN a = 1 .. m /\ DOMAIN b = 1 .. n
  BY LenListed
<1>3. DOMAIN c = 1 .. m + n
  <2>1. m + n \in Nat
    OBVIOUS
  <2> QED BY <1>1, <2>1, LenListed
<1>4. ASSUME NEW i \in 1 .. m + n PROVE c[i] \in Range(a) \cup Range(b)
  <2>1. CASE i \in 1 .. m
    BY <1>1, <1>2, <2>1 DEF Range
  <2>2. CASE ~(i \in 1 .. m)
    <3> DEFINE j == i - m
    <3>1. j \in 1 .. n /\ m + j = i
      BY <2>2
    <3> HIDE DEF j
    <3> QED BY <1>1, <1>2, <3>1 DEF Range
  <2> QED BY <2>1, <2>2
<1>5. \A i \in 1 .. m : a[i] \in Range(c)
  <2>1. \A i \in 1 .. m : i \in 1 .. m + n
    OBVIOUS
  <2> QED BY <1>1, <1>3, <2>1 DEF Range
<1>6. \A i \in 1 .. n : b[i] \in Range(c)
  <2>1. \A i \in 1 .. n : m + i \in 1 .. m + n
    OBVIOUS
  <2> QED BY <1>1, <1>3, <2>1 DEF Range
<1>7. Range(c) \subseteq Range(a) \cup Range(b)
  BY <1>3, <1>4 DEF Range
<1>8. Range(a) \cup Range(b) \subseteq Range(c)
  BY <1>2, <1>5, <1>6 DEF Range
<1>9. Range(c) = Range(a) \cup Range(b)
  BY <1>7, <1>8
<1> QED BY <1>9 DEF c

\* what a concat leaves,
LEMMA ConcatReads ==
  ASSUME NEW g, Shape(g), g.t > 0, NEW s, IsLowering(s), Lists(s), s.next \in Nat
  PROVE  LET n == ConcatNode(g.t)
             t == LowerConcat(s, n)
         IN Goes(s, t, Range(Select(n.ins, Range(n.ins) \ DOMAIN s.addr)), {n.out})
<1> DEFINE n == ConcatNode(g.t)
           dense == Select(n.ins, Range(n.ins) \ DOMAIN s.addr)
           new == [k \in DOMAIN dense |->
                     [name |-> dense[k], kind |-> "dense", addr |-> s.pinned[dense[k]],
                      count |-> PartLen(dense[k]), scale |-> ScaleOf(dense[k])]]
           L == [name |-> n.name, kind |-> "concat",
                 parts |-> [k \in DOMAIN n.ins |->
                    [tensor |-> n.ins[k], fed |-> n.ins[k] \notin DOMAIN s.addr,
                     addr |-> IF n.ins[k] \in DOMAIN s.addr THEN s.addr[n.ins[k]]
                              ELSE s.pinned[n.ins[k]]]],
                 lens |-> [k \in DOMAIN n.ins |-> PartLen(n.ins[k])],
                 out |-> s.pinned[n.out], stream |-> FALSE]
           v == [s EXCEPT !.inputs = @ \o new, !.layers = Append(@, L)]
           t == LowerConcat(s, n)
           N == g.t + 1
<1>1. t = Produced(v, n.out, s.pinned[n.out])
  BY DEF LowerConcat
<1>2. Listed(n.ins, N) /\ N \in Nat
  <2>1. g.t \in Nat
    BY ShapeNumbers
  <2>2. n.ins = [k \in 1 .. g.t + 1 |-> IF k <= g.t THEN <<"emb_out", k>> ELSE Dense]
    BY DEF ConcatNode, Node
  <2> QED BY <2>1, <2>2 DEF Listed
<1>3. PICK q \in Nat : Listed(dense, q)
  <2> DEFINE S == Range(n.ins) \ DOMAIN s.addr
  <2> HIDE DEF S, n
  <2>1. \E q \in Nat : Listed(Select(n.ins, S), q)
    BY <1>2, SelectRange
  <2> QED BY <2>1 DEF S
<1> HIDE DEF dense
<1>4. DOMAIN dense = 1 .. q
  BY <1>3, LenListed
<1>5. Listed(new, q) /\ DOMAIN new = 1 .. q /\ \A i \in 1 .. q : new[i].name = dense[i]
  BY <1>4 DEF Listed
<1> HIDE DEF new
<1>6. {x.name : x \in Range(new)} = Range(dense)
  BY <1>4, <1>5 DEF Range
<1>7. /\ IsLowering(v) /\ v.inputs = Cat(s.inputs, new) /\ v.layers = Append(s.layers, L)
      /\ v.next = s.next /\ v.addr = s.addr /\ v.node = s.node
  <2> HIDE DEF L
  <2> QED BY DEF IsLowering, Cat
<1>8. Within(L, s.next)
  BY DEF Within
<1> HIDE DEF v, L, n
<1>9. /\ t.next = v.next /\ t.inputs = v.inputs /\ t.layers = v.layers
      /\ t.addr = Put(v.addr, n.out, s.pinned[n.out]) /\ IsLowering(t) /\ t.node = v.node
  BY <1>1, <1>7, ProducedIs
<1> HIDE DEF t
<1>10. t.next = s.next /\ t.inputs = Cat(s.inputs, new) /\ t.layers = Append(s.layers, L)
  BY <1>7, <1>9
<1>11. s.next <= t.next
  BY <1>10
<1>12. Grows(s, t)
  BY <1>8, <1>10, <1>11 DEF Grows
<1>13. InputsOf(t) = InputsOf(s) \cup Range(dense)
  <2>1. PICK l \in Nat : Listed(s.inputs, l)
    BY DEF Lists
  <2>2. Range(t.inputs) = Range(s.inputs) \cup Range(new)
    BY <1>5, <1>10, <2>1, RangeCat
  <2> QED BY <1>6, <2>2 DEF InputsOf
<1>14. DOMAIN t.addr = DOMAIN s.addr \cup {n.out}
  BY <1>7, <1>9 DEF Put
<1> QED BY <1>7, <1>9, <1>12, <1>13, <1>14 DEF Goes, t, n, dense

\* what feeding a layer leaves,
LEMMA FeedReads ==
  ASSUME NEW s, IsLowering(s), Lists(s), s.next \in Nat, s.next % 16 = 0, NEW x, NEW k \in Nat
  PROVE  LET t == FeedFc(s, x, k)
         IN /\ IsLowering(t) /\ t.next \in Nat /\ t.next % 16 = 0 /\ s.next <= t.next
            /\ t.layers = s.layers /\ t.node = s.node
            /\ InputsOf(t) = InputsOf(s) \cup ({x} \ DOMAIN s.addr)
            /\ DOMAIN t.addr = DOMAIN s.addr \cup {x}
<1> DEFINE t == FeedFc(s, x, k)
<1>1. CASE x \in DOMAIN s.addr
  <2>1. t = s
    BY <1>1 DEF FeedFc
  <2>2. s.next <= s.next
    OBVIOUS
  <2> HIDE DEF t
  <2>3. {x} \ DOMAIN s.addr = {} /\ DOMAIN s.addr = DOMAIN s.addr \cup {x}
    BY <1>1
  <2> QED BY <2>1, <2>2, <2>3 DEF t
<1>2. CASE x \notin DOMAIN s.addr
  <2> DEFINE a == Alloc(s, pad16(k))
             new == [name |-> x, kind |-> "dense", addr |-> s.next, count |-> k,
                     scale |-> ScaleOf(x)]
             v == [a EXCEPT !.inputs = Append(@, new)]
  <2>1. t = Produced(v, x, s.next)
    BY <1>2 DEF FeedFc
  <2>2. pad16(k) \in Nat
    BY PadIs
  <2>3. /\ IsLowering(a) /\ SameRecords(s, a) /\ a.next \in Nat /\ a.next % 16 = 0
        /\ s.next <= a.next
    BY <2>2, AllocIs, AllocMoves
  <2>4. new.name = x
    OBVIOUS
  <2> HIDE DEF t, a, new
  <2>5. /\ IsLowering(v) /\ v.inputs = Append(a.inputs, new) /\ v.layers = a.layers
        /\ v.next = a.next /\ v.addr = a.addr /\ v.node = a.node
    BY <2>3 DEF IsLowering
  <2> HIDE DEF v
  <2>6. /\ IsLowering(t) /\ t.next = v.next /\ t.inputs = v.inputs /\ t.layers = v.layers
        /\ t.addr = Put(v.addr, x, s.next) /\ t.node = v.node
    BY <2>1, <2>5, ProducedIs
  <2>7. t.inputs = Append(s.inputs, new) /\ Lists(s)
    BY <2>3, <2>5, <2>6 DEF SameRecords
  <2>8. InputsOf(t) = InputsOf(s) \cup {new.name}
    BY ONLY <2>7, InputsAppend
  <2>9. {x} \ DOMAIN s.addr = {x}
    BY <1>2
  <2>10. DOMAIN t.addr = DOMAIN s.addr \cup {x}
    BY <2>3, <2>5, <2>6 DEF SameRecords, Put
  <2>11. t.layers = s.layers /\ t.node = s.node
    BY <2>3, <2>5, <2>6 DEF SameRecords
  <2> QED BY <2>3, <2>4, <2>5, <2>6, <2>8, <2>9, <2>10, <2>11 DEF t
<1> QED BY <1>1, <1>2

\* what a matrix product leaves in a layout that does not stream: its weights and its
\* bias, one after the other,
LEMMA MatMulReads ==
  ASSUME ~job.streaming, NEW g, Shape(g), NEW j \in 1 .. g.n,
         NEW s, IsLowering(s), Lists(s), s.next \in Nat, s.next % 16 = 0
  PROVE  LET n == MatMulNode(j, g.first)
             t == LowerMatMul(s, n)
         IN Goes(s, t, {n.ins[1]} \ DOMAIN s.addr, {n.ins[1], Chain(n).out})
<1> DEFINE n == MatMulNode(j, g.first)
           chain == Chain(n)
           x == n.ins[1]
           k == g.d[j]
           d == g.d[j + 1]
           p == pad16(d)
           fed == FeedFc(s, x, k)
           slot == fed.slots[1 + (fed.fcs % 2)]
           bias == IF chain.add = {} THEN Absent
                   ELSE LET a == CHOOSE a \in chain.add : TRUE
                        IN model.content[a.ins[CHOOSE i \in DOMAIN a.ins : IsInit(a.ins[i])]]
           tag == Tag(model.content[n.ins[2]], 0, Absent, training)
           tagb == Tag(bias, 0, ScaleOf(x), training)
           w == PlaceSegment(fed, WeightBytes(n), tag, n.name, "weight", -1)
           b == PlaceSegment(w, BiasBytes(n), tagb, n.name, "bias", -1)
           acc == Alloc(b, p * 4)
           final == IsFinal(chain.out)
           done == IF final THEN acc ELSE Alloc(acc, p)
           out == IF final THEN b.next ELSE acc.next
           error == IF final \/ ResultScale(chain.out) # Absent THEN done.error ELSE "StopIteration"
           L == [name |-> n.name, kind |-> "fc", in |-> fed.addr[x],
                 k |-> k, kpad |-> pad16(k), n |-> d, mpad |-> p,
                 w |-> fed.next, b |-> w.next,
                 acc |-> b.next, out |-> out, relu |-> chain.relu # {},
                 final |-> final, inscale |-> ScaleOf(x),
                 outscale |-> ResultScale(chain.out), stream |-> job.streaming]
           v == [done EXCEPT !.fcs = @ + 1, !.error = error, !.layers = Append(@, L)]
           t == LowerMatMul(s, n)
           W == WBytes(g, j)
           B == BBytes(g, j)
<1>1. t = Produced(v, chain.out, out)
  <2>1. model.shape[n.ins[2]] = <<k, d>>
    <3>1. n.ins[2] = <<"w", j>>
      BY DEF MatMulNode, Node
    <3>2. model.shape[<<"w", j>>] = <<g.d[j], g.d[j + 1]>>
      BY ShapeNumbers
    <3> QED BY <3>1, <3>2
  <2>2. model.shape[n.ins[2]][1] = k /\ model.shape[n.ins[2]][2] = d
    BY <2>1
  <2> DEFINE w2 == PlaceSegment(fed, WeightBytes(n), tag, n.name, "weight",
                                IF job.streaming THEN slot ELSE -1)
             b2 == PlaceSegment(w2, BiasBytes(n), tagb, n.name, "bias",
                                IF job.streaming THEN slot + WeightBytes(n) ELSE -1)
             acc2 == Alloc(b2, p * 4)
             done2 == IF final THEN acc2 ELSE Alloc(acc2, p)
             out2 == IF final THEN b2.next ELSE acc2.next
             L2 == [name |-> n.name, kind |-> "fc", in |-> fed.addr[x],
                    k |-> k, kpad |-> pad16(k), n |-> d, mpad |-> p,
                    w |-> IF job.streaming THEN slot ELSE fed.next,
                    b |-> IF job.streaming THEN slot + WeightBytes(n) ELSE w2.next,
                    acc |-> b2.next, out |-> out2, relu |-> chain.relu # {},
                    final |-> final, inscale |-> ScaleOf(x),
                    outscale |-> ResultScale(chain.out), stream |-> job.streaming]
             v2 == [done2 EXCEPT
                      !.fcs = @ + 1,
                      !.error = IF final \/ ResultScale(chain.out) # Absent THEN @ ELSE "StopIteration",
                      !.layers = Append(@, L2)]
  <2>3. t = Produced(v2, chain.out, out2)
    <3> HIDE DEF n, k, d
    <3> QED BY <2>2 DEF LowerMatMul
  <2> HIDE DEF t, slot, fed, tag, tagb, n, k, d, x, chain, p, final
  <2>4. w2 = w
    OBVIOUS
  <2> HIDE DEF w2
  <2>5. b2 = b
    BY <2>4
  <2> HIDE DEF w, b2, b
  <2>6. done2 = done /\ out2 = out
    BY <2>5
  <2>7. L2 = L
    <3> HIDE DEF out, out2
    <3> QED BY <2>4, <2>5, <2>6
  <2> HIDE DEF L, L2, done, done2, out, out2
  <2>8. v2 = v
    BY <2>6, <2>7
  <2> HIDE DEF v, v2
  <2> QED BY <2>3, <2>6, <2>8
<1>2. /\ k \in Nat /\ k >= 1 /\ d \in Nat /\ d >= 1
      /\ W \in Nat /\ B \in Nat /\ WeightBytes(n) = W /\ BiasBytes(n) = B
      /\ W = p * pad16(k) /\ B = p * 4
  <2>1. j \in 1 .. g.n + 1 /\ j + 1 \in 1 .. g.n + 1
    BY ShapeNumbers
  <2>2. k \in Nat /\ k >= 1 /\ d \in Nat /\ d >= 1
    BY <2>1, ShapeNumbers
  <2> QED BY <2>2, BytesAre DEF WBytes, BBytes
<1>3. L.kind = "fc" /\ L.mpad = p /\ L.kpad = pad16(k) /\ L.n = d /\ L.w = fed.next /\ L.b = w.next
  OBVIOUS
<1> HIDE DEF k, d, x, tag, tagb, bias, chain, W, B
<1>4. /\ p \in Nat /\ p >= 1 /\ d <= p /\ pad16(k) \in Nat /\ pad16(k) >= 1
  BY SMTT(30), <1>2, PadIs
<1>5. /\ IsLowering(fed) /\ fed.next \in Nat /\ fed.next % 16 = 0 /\ s.next <= fed.next
      /\ fed.layers = s.layers /\ fed.node = s.node
      /\ InputsOf(fed) = InputsOf(s) \cup ({x} \ DOMAIN s.addr)
      /\ DOMAIN fed.addr = DOMAIN s.addr \cup {x}
  BY <1>2, FeedReads
<1> HIDE DEF fed, p
<1>6. /\ IsLowering(w) /\ SameRecords(fed, w)
      /\ w.next \in Nat /\ w.next % 16 = 0 /\ fed.next + W <= w.next
  BY <1>2, <1>5, PlaceMoves
<1> HIDE DEF w
<1>7. /\ IsLowering(b) /\ SameRecords(w, b)
      /\ b.next \in Nat /\ b.next % 16 = 0 /\ w.next + B <= b.next
  BY <1>2, <1>6, PlaceMoves
<1> HIDE DEF b
<1>8. /\ IsLowering(acc) /\ SameRecords(b, acc)
      /\ acc.next \in Nat /\ acc.next % 16 = 0 /\ b.next <= acc.next
  <2>1. p * 4 \in Nat
    BY <1>4
  <2> QED BY <1>7, <2>1, AllocIs, AllocMoves
<1> HIDE DEF acc
<1>9. /\ IsLowering(done) /\ SameRecords(b, done) /\ done.next \in Nat /\ b.next <= done.next
  <2> DEFINE u == Alloc(acc, p)
  <2>1. IsLowering(u) /\ SameRecords(acc, u) /\ u.next \in Nat /\ acc.next <= u.next
    BY <1>4, <1>8, AllocIs, AllocMoves
  <2>2. done = acc \/ done = u
    OBVIOUS
  <2> HIDE DEF u, done
  <2>3. b.next <= u.next
    <3> DEFINE y == b.next
               z == acc.next
               q == u.next
    <3>1. y \in Nat /\ z \in Nat /\ q \in Nat /\ y <= z /\ z <= q
      BY <1>7, <1>8, <2>1
    <3> HIDE DEF y, z, q
    <3>2. y <= q
      BY ONLY <3>1
    <3> QED BY <3>2 DEF y, q
  <2>4. SameRecords(b, u)
    BY <1>8, <2>1 DEF SameRecords
  <2> QED BY <1>8, <2>1, <2>2, <2>3, <2>4
<1> HIDE DEF done, out, final, error, L
<1>10. /\ IsLowering(v) /\ v.layers = Append(done.layers, L) /\ v.inputs = done.inputs
       /\ v.next = done.next /\ v.addr = done.addr /\ v.node = done.node
  BY <1>9 DEF IsLowering
<1> HIDE DEF v
<1>11. /\ t.next = v.next /\ t.inputs = v.inputs /\ t.layers = v.layers
       /\ t.addr = Put(v.addr, chain.out, out) /\ IsLowering(t) /\ t.node = v.node
  BY <1>1, <1>10, ProducedIs
<1> HIDE DEF t, n
<1>12. /\ t.next = done.next /\ t.inputs = fed.inputs /\ t.layers = Append(s.layers, L)
       /\ t.addr = Put(fed.addr, chain.out, out) /\ IsLowering(t) /\ t.node = s.node
  BY <1>5, <1>6, <1>7, <1>9, <1>10, <1>11 DEF SameRecords
<1>13. /\ t.next \in Nat /\ s.next <= t.next /\ fed.next + W <= t.next /\ w.next + B <= t.next
  <2> DEFINE a == s.next
             c == fed.next
             e == w.next
             f == b.next
             h == done.next
  <2>1. /\ a \in Nat /\ c \in Nat /\ e \in Nat /\ f \in Nat /\ h \in Nat /\ W \in Nat /\ B \in Nat
        /\ a <= c /\ c + W <= e /\ e + B <= f /\ f <= h
    BY <1>2, <1>5, <1>6, <1>7, <1>9
  <2> HIDE DEF a, c, e, f, h
  <2>2. a <= h /\ c + W <= h /\ e + B <= h
    BY ONLY <2>1
  <2> QED BY <1>9, <1>12, <2>2 DEF a, c, e, h
<1>14. Within(L, t.next)
  BY <1>2, <1>3, <1>4, <1>5, <1>6, <1>13 DEF Within
<1>15. Grows(s, t)
  BY <1>12, <1>13, <1>14 DEF Grows
<1>16. InputsOf(t) = InputsOf(s) \cup ({x} \ DOMAIN s.addr)
  BY <1>5, <1>12 DEF InputsOf
<1>17. DOMAIN t.addr = DOMAIN s.addr \cup {x, chain.out}
  BY <1>5, <1>12 DEF Put
<1> QED BY <1>12, <1>15, <1>16, <1>17 DEF Goes, t, n, x, chain

\* and what a fused node or the identity leaves, unless the lowering fails.
LEMMA OtherReads ==
  ASSUME NEW s, IsLowering(s), s.next \in Nat, NEW n
  PROVE  LET t == LowerOther(s, n)
         IN (IsLowering(t) /\ Failed(t)) \/ Goes(s, t, {}, IF n \in Fused THEN {} ELSE {n.out})
<1> DEFINE t == LowerOther(s, n)
           u == [s EXCEPT !.error = "NotImplementedError"]
           p == Produced(s, n.out, s.addr[n.ins[1]])
<1>1. s.next <= s.next
  OBVIOUS
<1>2. CASE n \in Fused
  <2>1. t = s
    BY <1>2 DEF LowerOther
  <2> HIDE DEF t
  <2> QED BY <1>1, <1>2, <2>1 DEF Goes, Grows, t
<1>3. CASE n \notin Fused /\ n.op = "Identity"
  <2>1. t = p
    BY <1>3 DEF LowerOther
  <2>2. /\ p.next = s.next /\ p.inputs = s.inputs /\ p.layers = s.layers
        /\ DOMAIN p.addr = DOMAIN s.addr \cup {n.out} /\ IsLowering(p) /\ p.node = s.node
    <3> DEFINE o == n.out
               a == s.addr[n.ins[1]]
    <3> HIDE DEF o, a
    <3>1. /\ p.next = s.next /\ p.inputs = s.inputs /\ p.layers = s.layers
          /\ p.addr = Put(s.addr, o, a) /\ IsLowering(p) /\ p.node = s.node
      BY ProducedIs DEF o, a
    <3> HIDE DEF p
    <3> QED BY <3>1 DEF Put, o
  <2> HIDE DEF t, p
  <2>3. Goes(s, t, {}, {n.out})
    BY <1>1, <2>1, <2>2 DEF Goes, Grows, InputsOf
  <2> QED BY <1>3, <2>3 DEF t
<1>4. CASE n \notin Fused /\ n.op # "Identity"
  <2>1. t = u
    BY <1>4 DEF LowerOther
  <2>2. IsLowering(u) /\ Failed(u)
    BY DEF Failed, IsLowering
  <2> QED BY <2>1, <2>2
<1> QED BY <1>2, <1>3, <1>4

-----------------------------------------------------------------------------
(***************************************************************************)
(* The names the model's nodes lead to, whatever lowering is under way:    *)
(* two lowerings of a model write the same inputs.                         *)
(***************************************************************************)
\* The inputs a node adds when these tensors have an address, and the tensors it
\* gives one.
Fresh(n, had) ==
  CASE n.op = "Gather" -> {n.ins[2]}
    [] n.op = "Concat" -> Range(Select(n.ins, Range(n.ins) \ had))
    [] n.op = "MatMul" -> {n.ins[1]} \ had
    [] OTHER -> {}
Makes(n) ==
  CASE n.op = "Gather" -> {n.out}
    [] n.op = "Concat" -> {n.out}
    [] n.op = "MatMul" -> {n.ins[1], Chain(n).out}
    [] OTHER -> IF n \in Fused THEN {} ELSE {n.out}

IsFeeds(u, n) ==
  u = [i \in 0 .. n |->
         IF i = 0 THEN [fed |-> {}, had |-> {}]
         ELSE [fed |-> u[i - 1].fed \cup Fresh(Nodes[i], u[i - 1].had),
               had |-> u[i - 1].had \cup Makes(Nodes[i])]]

\* After every node: the inputs fed so far and the tensors with an address.
Feeds == CHOOSE u : IsFeeds(u, Len(Nodes))

LEMMA FeedsExist == \A n \in Nat : \E u : IsFeeds(u, n)
<1> DEFINE D == {n \in Nat : \E u : IsFeeds(u, n)}
           None == [fed |-> {}, had |-> {}]
           Step(before, i) == [fed |-> before.fed \cup Fresh(Nodes[i], before.had),
                               had |-> before.had \cup Makes(Nodes[i])]
<1>1. 0 \in D
  <2>1. IsFeeds([i \in 0 .. 0 |-> None], 0)
    BY DEF IsFeeds
  <2> QED BY <2>1
<1>2. ASSUME NEW n \in Nat, n \in D PROVE n + 1 \in D
  <2>1. PICK u : IsFeeds(u, n)
    BY <1>2
  <2> DEFINE q == [i \in 0 .. n + 1 |-> IF i <= n THEN u[i] ELSE Step(u[n], n + 1)]
  <2>2. ASSUME NEW i \in 0 .. n + 1
        PROVE  q[i] = IF i = 0 THEN None ELSE Step(q[i - 1], i)
    <3>1. CASE i = n + 1
      <4>1. q[i] = Step(u[n], n + 1) /\ q[i - 1] = u[n] /\ i # 0
        BY <3>1
      <4> HIDE DEF q, Step
      <4> QED BY <4>1, <3>1
    <3>2. CASE i # n + 1
      <4>1. i \in 0 .. n /\ q[i] = u[i] /\ (i # 0 => q[i - 1] = u[i - 1])
        BY <3>2
      <4>2. u[i] = IF i = 0 THEN None ELSE Step(u[i - 1], i)
        BY <2>1, <4>1 DEF IsFeeds
      <4> HIDE DEF q, Step
      <4> QED BY <4>1, <4>2
    <3> QED BY <3>1, <3>2
  <2>3. IsFeeds(q, n + 1)
    BY <2>2 DEF IsFeeds
  <2> QED BY <2>3
<1> HIDE DEF D
<1>3. \A n \in Nat : n \in D
  BY <1>1, <1>2, Induction
<1> QED BY <1>3 DEF D

\* None at first, and a node's after the node.
LEMMA FeedsAre ==
  ASSUME NEW n \in Nat, Len(Nodes) = n
  PROVE  /\ Feeds[0] = [fed |-> {}, had |-> {}]
         /\ \A i \in 1 .. n : /\ Feeds[i].fed = Feeds[i - 1].fed \cup Fresh(Nodes[i], Feeds[i - 1].had)
                              /\ Feeds[i].had = Feeds[i - 1].had \cup Makes(Nodes[i])
<1>1. IsFeeds(Feeds, n)
  BY FeedsExist DEF Feeds
<1> HIDE DEF Feeds
<1> DEFINE u == Feeds
           R(i) == IF i = 0 THEN [fed |-> {}, had |-> {}]
                   ELSE [fed |-> u[i - 1].fed \cup Fresh(Nodes[i], u[i - 1].had),
                         had |-> u[i - 1].had \cup Makes(Nodes[i])]
<1>2. \A i \in 0 .. n : u[i] = R(i)
  <2>1. u = [i \in 0 .. n |-> R(i)]
    BY <1>1 DEF IsFeeds
  <2> HIDE DEF R, u
  <2> QED BY <2>1
<1>3. Feeds[0] = [fed |-> {}, had |-> {}]
  <2>1. 0 \in 0 .. n /\ R(0) = [fed |-> {}, had |-> {}]
    OBVIOUS
  <2>2. u[0] = R(0)
    BY <1>2, <2>1
  <2> HIDE DEF R
  <2> QED BY <2>1, <2>2
<1>4. ASSUME NEW i \in 1 .. n
      PROVE  /\ Feeds[i].fed = Feeds[i - 1].fed \cup Fresh(Nodes[i], Feeds[i - 1].had)
             /\ Feeds[i].had = Feeds[i - 1].had \cup Makes(Nodes[i])
  <2>1. i \in 0 .. n /\ i # 0
    OBVIOUS
  <2>2. u[i] = R(i)
    BY <1>2, <2>1
  <2>3. /\ R(i).fed = u[i - 1].fed \cup Fresh(Nodes[i], u[i - 1].had)
        /\ R(i).had = u[i - 1].had \cup Makes(Nodes[i])
    BY <2>1
  <2> HIDE DEF R
  <2> QED BY <2>2, <2>3
<1> QED BY <1>3, <1>4

-----------------------------------------------------------------------------
(***************************************************************************)
(* A layout under way that does not stream.                                *)
(***************************************************************************)
Reading(s) ==
  job.streaming \/ /\ Inside(s) /\ InputsOf(s) = Feeds[s.node - 1].fed
                   /\ DOMAIN s.addr = Feeds[s.node - 1].had

\* The record a layout under way stands in.
LEMMA UnderwayIs ==
  ASSUME NEW s, Underway(s)
  PROVE  /\ IsLowering(s) /\ Lists(s) /\ s.next \in Nat /\ s.next % 16 = 0
         /\ s.node \in Nat /\ s.node >= 1
<1>1. PICK g, e : Ongoing(g, e, s)
  BY DEF Underway
<1> QED BY <1>1 DEF Ongoing, Laid, Stands, Counted

\* One node more.
LEMMA ReadingNode ==
  ASSUME NEW s, Underway(s), Reading(s), s.node <= Len(Nodes)
  PROVE  LET t == LowerNode(s, Nodes[s.node]) IN Failed(t) \/ Reading(t)
<1> DEFINE i == s.node
           n == Nodes[i]
           u == CASE n.op = "Gather" -> LowerGather(s, n)
                  [] n.op = "Concat" -> LowerConcat(s, n)
                  [] n.op = "MatMul" -> LowerMatMul(s, n)
                  [] OTHER -> LowerOther(s, n)
           v == [u EXCEPT !.node = @ + 1]
           t == LowerNode(s, Nodes[i])
           had == DOMAIN s.addr
<1> SUFFICES ASSUME ~job.streaming PROVE Failed(t) \/ Reading(t)
  <2> HIDE DEF t
  <2> QED BY DEF Reading, t
<1>1. PICK g, e : Shape(g) /\ Earth(g, e) /\ Ongoing(g, e, s)
  BY DEF Underway
<1>2. /\ IsLowering(s) /\ Lists(s) /\ s.next \in Nat /\ s.next % 16 = 0
      /\ i \in Nat /\ i >= 1 /\ i - 1 \in Nat
  BY UnderwayIs
<1>3. s.pinned = e.pinned
  BY <1>1 DEF Ongoing, Laid, Stands
<1>4. i \in 1 .. g.pre + 3 * g.n /\ Len(Nodes) = g.pre + 3 * g.n /\ Len(Nodes) \in Nat
  <2>1. Len(Nodes) = g.pre + 3 * g.n /\ g.pre \in Nat /\ g.n \in Nat
    BY <1>1, ShapeNumbers DEF Nodes
  <2> QED BY <1>2, <2>1
<1>5. t = v
  BY DEF LowerNode
<1>6. (IsLowering(u) /\ Failed(u)) \/ Goes(s, u, Fresh(n, had), Makes(n))
  <2>1. CASE n.op = "Gather"
    <3>1. g.t > 0 /\ i \in 1 .. g.t /\ n = GatherNode(i)
      BY <1>1, <1>4, <2>1, Kinds DEF Nodes
    <3>2. <<"emb_out", i>> \in DOMAIN s.pinned
      BY <1>1, <1>3, <3>1 DEF Earth
    <3>3. u = LowerGather(s, n) /\ Fresh(n, had) = {n.ins[2]} /\ Makes(n) = {n.out}
      BY <2>1 DEF Fresh, Makes
    <3> DEFINE m == GatherNode(i)
               w == LowerGather(s, m)
    <3>4. Goes(s, w, {m.ins[2]}, {m.out})
      <4> HIDE DEF n, u
      <4> QED BY ONLY <1>1, <1>2, <3>1, <3>2, GatherReads
    <3>5. m = n
      BY <3>1
    <3> HIDE DEF m, n, u, had
    <3> QED BY <3>3, <3>4, <3>5
  <2>2. CASE n.op = "Concat"
    <3>1. g.t > 0 /\ n = ConcatNode(g.t)
      BY <1>1, <1>4, <2>2, Kinds DEF Nodes
    <3>2. /\ u = LowerConcat(s, n) /\ Fresh(n, had) = Range(Select(n.ins, Range(n.ins) \ had))
          /\ Makes(n) = {n.out}
      BY <2>2 DEF Fresh, Makes
    <3> DEFINE m == ConcatNode(g.t)
               w == LowerConcat(s, m)
    <3>3. Goes(s, w, Range(Select(m.ins, Range(m.ins) \ had)), {m.out})
      <4> HIDE DEF n, u
      <4> QED BY ONLY <1>1, <1>2, <3>1, ConcatReads
    <3>4. m = n
      BY <3>1
    <3> HIDE DEF m, n, u, had
    <3> QED BY <3>2, <3>3, <3>4
  <2>3. CASE n.op = "MatMul"
    <3>1. PICK j \in 1 .. g.n : n = MatMulNode(j, g.first)
      BY <1>1, <1>4, <2>3, Kinds DEF Nodes
    <3>2. /\ u = LowerMatMul(s, n) /\ Fresh(n, had) = {n.ins[1]} \ had
          /\ Makes(n) = {n.ins[1], Chain(n).out}
      BY <2>3 DEF Fresh, Makes
    <3> DEFINE m == MatMulNode(j, g.first)
               w == LowerMatMul(s, m)
    <3>3. Goes(s, w, {m.ins[1]} \ had, {m.ins[1], Chain(m).out})
      <4> HIDE DEF n, u
      <4> QED BY ONLY ~job.streaming, <1>1, <1>2, j \in 1 .. g.n, MatMulReads
    <3>4. m = n
      BY <3>1
    <3> HIDE DEF m, n, u, had
    <3> QED BY <3>2, <3>3, <3>4
  <2>4. CASE n.op \notin {"Gather", "Concat", "MatMul"}
    <3>1. /\ u = LowerOther(s, n) /\ Fresh(n, had) = {}
          /\ Makes(n) = IF n \in Fused THEN {} ELSE {n.out}
      BY <2>4 DEF Fresh, Makes
    <3> DEFINE w == LowerOther(s, n)
    <3>2. (IsLowering(w) /\ Failed(w)) \/ Goes(s, w, {}, IF n \in Fused THEN {} ELSE {n.out})
      <4> HIDE DEF n, u
      <4> QED BY ONLY <1>2, OtherReads
    <3>3. u = w
      BY <3>1
    <3> HIDE DEF n, u, w
    <3> QED BY <3>1, <3>2, <3>3
  <2> QED BY <2>1, <2>2, <2>3, <2>4
<1> HIDE DEF u, n, t
<1>7. CASE IsLowering(u) /\ Failed(u)
  <2>1. v.error = u.error
    BY <1>7 DEF IsLowering
  <2> HIDE DEF v
  <2>2. Failed(v)
    BY <1>7, <2>1 DEF Failed
  <2> QED BY <1>5, <2>2
<1>8. CASE Goes(s, u, Fresh(n, had), Makes(n))
  <2>1. /\ v.layers = u.layers /\ v.next = u.next /\ v.inputs = u.inputs /\ v.addr = u.addr
        /\ v.node = i + 1
    BY <1>8 DEF Goes, IsLowering
  <2>2. Inside(u)
    BY <1>2, <1>8, InsideGrows DEF Goes, Reading
  <2>3. Inside(v)
    BY <2>1, <2>2 DEF Inside
  <2>4. /\ InputsOf(s) = Feeds[i - 1].fed /\ had = Feeds[i - 1].had
    BY DEF Reading
  <2>5. InputsOf(v) = InputsOf(s) \cup Fresh(n, had) /\ DOMAIN v.addr = had \cup Makes(n)
    BY <1>8, <2>1 DEF Goes, InputsOf
  <2>6. /\ Feeds[i].fed = Feeds[i - 1].fed \cup Fresh(n, Feeds[i - 1].had)
        /\ Feeds[i].had = Feeds[i - 1].had \cup Makes(n)
    BY <1>4, FeedsAre DEF n
  <2>7. v.node - 1 = i
    BY <1>2, <2>1
  <2> HIDE DEF v, had, i
  <2>8. Reading(v)
    BY <2>3, <2>4, <2>5, <2>6, <2>7 DEF Reading
  <2> QED BY <1>5, <2>8
<1> QED BY <1>6, <1>7, <1>8 DEF t

\* The ground.
LEMMA GroundReading ==
  ASSUME NEW g, Shape(g), ~Failed(Ground)
  PROVE  Reading(Ground)
<1> DEFINE s == Ground
<1>1. Pinned(g, s)
  BY GroundLaid
<1> HIDE DEF s
<1>2. s.inputs = <<>> /\ s.layers = <<>> /\ s.addr = <<>> /\ s.node = 1
  BY <1>1 DEF Pinned
<1>3. Range(<<>>) = {}
  BY DEF Range
<1>4. Inside(s) /\ InputsOf(s) = {} /\ DOMAIN s.addr = {}
  BY <1>2, <1>3 DEF Inside, InputsOf
<1>5. Len(Nodes) \in Nat
  BY ShapeNumbers DEF Nodes
<1>6. Feeds[0] = [fed |-> {}, had |-> {}]
  BY <1>5, FeedsAre
<1>7. s.node - 1 = 0
  BY <1>2
<1> QED BY <1>4, <1>6, <1>7 DEF Reading, s

-----------------------------------------------------------------------------
(***************************************************************************)
(* The documents and the vectors on disk.                                  *)
(***************************************************************************)
\* A document the runtime can read: its layers end inside the layout.
Readable(doc) ==
  /\ doc.streaming = job.streaming
  /\ job.streaming \/ /\ doc.layoutend \in Nat
                      /\ \E n \in Nat : Listed(doc.layers, n)
                      /\ \E n \in Nat : Listed(doc.inputs, n)
                      /\ \A L \in Range(doc.layers) : Within(L, doc.layoutend)
                      /\ Within(doc.last, doc.layoutend) /\ doc.last.kind = "fc"
                      /\ InputsOf(doc) = Feeds[Len(Nodes)].fed

\* Test vectors that give each of those inputs.
Feeding(vectors) ==
  job.streaming \/ /\ Listed(vectors, Vectors)
                   /\ \A k \in 1 .. Vectors : /\ InputsOf(vectors[k]) = Feeds[Len(Nodes)].fed
                                              /\ \A x \in Range(vectors[k].inputs) : x.tag.vec \in Nat

\* A layout that has done the last node has an fc layer, and is such a document.
LEMMA DocumentReadable ==
  ASSUME NEW s, Underway(s), Reading(s), s.node > Len(Nodes)
  PROVE  Readable(Document(s))
<1> DEFINE d == Document(s)
           h == FcsOf(s.layers)
           f == s.fcs
<1>1. /\ d.streaming = job.streaming /\ d.layoutend = s.next /\ d.layers = s.layers
      /\ d.inputs = s.inputs /\ d.last = Last(h)
  BY DEF Document
<1> HIDE DEF d
<1> SUFFICES ASSUME ~job.streaming PROVE Readable(d)
  BY <1>1 DEF Readable, d
<1>2. PICK g, e : Shape(g) /\ Ongoing(g, e, s)
  BY DEF Underway
<1>3. /\ g.n \in Nat /\ g.n >= 1 /\ g.pre \in Nat /\ Len(Nodes) = g.pre + 3 * g.n
  BY <1>2, ShapeNumbers DEF Nodes
<1>4. InOrder(s, f) /\ Counted(g, s)
  BY <1>2 DEF Ongoing
<1>5. f \in Nat /\ f >= 1 /\ s.node - 1 = Len(Nodes)
  <2> DEFINE i == s.node
             len == Len(Nodes)
  <2>1. /\ i \in Nat /\ f \in Nat /\ f <= g.n /\ i > len /\ len = g.pre + 3 * g.n
        /\ i > g.pre + 1 => i <= g.pre + 3 * f + 1
    BY <1>3, <1>4 DEF Counted
  <2> HIDE DEF i, f, len
  <2>2. f >= 1 /\ i - 1 = len
    BY SMTT(30), <1>3, <2>1
  <2> QED BY <2>1, <2>2 DEF i, len
<1>6. Last(h) = h[f]
  <2>1. Listed(h, f)
    BY <1>4 DEF InOrder
  <2>2. Len(h) = f
    BY <1>5, <2>1, LenListed
  <2> HIDE DEF h, f
  <2> QED BY <2>2 DEF Last
<1>7. Lists(s) /\ s.next \in Nat
  BY UnderwayIs
<1>8. PICK n \in Nat : Listed(s.layers, n)
  BY <1>7 DEF Lists
<1>9. h[f].kind = "fc" /\ h[f] \in Range(s.layers)
  <2>1. PICK k \in Nat : /\ Listed(h, k)
                         /\ \A i \in 1 .. k : h[i].kind = "fc" /\ \E j \in 1 .. n : h[i] = s.layers[j]
    BY ONLY n \in Nat, <1>8, FcsListed
  <2>2. Listed(h, f)
    BY <1>4 DEF InOrder
  <2> HIDE DEF h, f
  <2>3. k = f
    BY <1>5, <2>1, <2>2, LenListed
  <2>4. f \in 1 .. k
    BY <1>5, <2>3
  <2>5. PICK j \in 1 .. n : h[f] = s.layers[j]
    BY <2>1, <2>4
  <2>6. DOMAIN s.layers = 1 .. n
    BY <1>8, LenListed
  <2> QED BY <2>1, <2>4, <2>5, <2>6 DEF Range
<1> HIDE DEF h, f
<1>10. \A L \in Range(s.layers) : Within(L, s.next)
  BY DEF Reading, Inside
<1>11. InputsOf(d) = Feeds[Len(Nodes)].fed
  <2>1. InputsOf(d) = InputsOf(s)
    BY <1>1 DEF InputsOf
  <2> QED BY <1>5, <2>1 DEF Reading
<1>12. /\ \E q \in Nat : Listed(d.layers, q)
       /\ \E q \in Nat : Listed(d.inputs, q)
  BY <1>1, <1>7 DEF Lists
<1>13. /\ Within(d.last, d.layoutend) /\ d.last.kind = "fc" /\ d.layoutend \in Nat
       /\ \A L \in Range(d.layers) : Within(L, d.layoutend)
  BY <1>1, <1>6, <1>7, <1>9, <1>10
<1> QED BY <1>1, <1>11, <1>12, <1>13 DEF Readable

\* The vectors written for a document feed it.
LEMMA VectorsFeed ==
  ASSUME NEW doc, Readable(doc), NEW image
  PROVE  Feeding(TestVectors(doc, image))
<1> DEFINE vs == TestVectors(doc, image)
           One(k) == [i \in DOMAIN doc.inputs |->
                        [name |-> doc.inputs[i].name, count |-> doc.inputs[i].count,
                         tag |-> InputTag(doc, i, k)]]
<1> SUFFICES ASSUME ~job.streaming PROVE Feeding(vs)
  BY DEF Feeding
<1>1. \A k \in 1 .. Vectors : vs[k].inputs = One(k)
  BY DEF TestVectors
<1>2. Listed(vs, Vectors)
  BY DEF TestVectors, Listed
<1> HIDE DEF vs
<1>3. ASSUME NEW k \in 1 .. Vectors
      PROVE  InputsOf(vs[k]) = Feeds[Len(Nodes)].fed /\ \A x \in Range(vs[k].inputs) : x.tag.vec \in Nat
  <2> DEFINE q == One(k)
  <2>1. /\ DOMAIN q = DOMAIN doc.inputs
        /\ \A i \in DOMAIN doc.inputs : q[i].name = doc.inputs[i].name /\ q[i].tag = InputTag(doc, i, k)
    OBVIOUS
  <2> HIDE DEF q
  <2>2. vs[k].inputs = q
    BY <1>1 DEF q
  <2>3. \A i \in DOMAIN doc.inputs : InputTag(doc, i, k).vec = k
    BY DEF InputTag, TensorTag, Tag
  <2>4. InputsOf(vs[k]) = InputsOf(doc)
    BY <2>1, <2>2 DEF InputsOf, Range
  <2>5. k \in Nat
    BY LoweringAssumption
  <2>6. \A x \in Range(vs[k].inputs) : x.tag.vec \in Nat
    BY <2>1, <2>2, <2>3, <2>5 DEF Range
  <2> QED BY <2>4, <2>6 DEF Readable
<1> QED BY <1>2, <1>3 DEF Feeding

\* All this is said of the job and the model.
LEMMA FeedsSame ==
  ASSUME model' = model
  PROVE  Feeds' = Feeds /\ Nodes' = Nodes
<1>1. Nodes' = Nodes
  BY DEF Nodes
<1>2. ASSUME NEW t, NEW op PROVE OnlyConsumer(t, op)' = OnlyConsumer(t, op)
  <2>1. Consumers(t)' = Consumers(t)
    BY <1>1 DEF Consumers
  <2> QED BY <1>1, <2>1 DEF OnlyConsumer
<1>3. ASSUME NEW n PROVE Chain(n)' = Chain(n)
  <2> DEFINE add == {a \in OnlyConsumer(n.out, "Add") : \E k \in DOMAIN a.ins : IsInit(a.ins[k])}
             mid == IF add = {} THEN n.out ELSE (CHOOSE a \in add : TRUE).out
             relu == OnlyConsumer(mid, "Relu")
             out == IF relu = {} THEN mid ELSE (CHOOSE r \in relu : TRUE).out
  <2>1. \A a : (\E k \in DOMAIN a.ins : IsInit(a.ins[k]))' = (\E k \in DOMAIN a.ins : IsInit(a.ins[k]))
    BY DEF IsInit
  <2>2. add' = add
    BY <1>2, <2>1
  <2> HIDE DEF add
  <2>3. mid' = mid
    BY <2>2
  <2> HIDE DEF mid
  <2>4. relu' = relu
    BY <1>1, <2>3 DEF OnlyConsumer, Consumers
  <2> HIDE DEF relu
  <2>5. out' = out
    BY <2>3, <2>4
  <2> HIDE DEF out
  <2>6. Chain(n) = [add |-> add, relu |-> relu, out |-> out]
    BY DEF Chain, add, mid, relu, out
  <2>7. Chain(n)' = [add |-> add', relu |-> relu', out |-> out']
    BY DEF Chain, add, mid, relu, out
  <2> QED BY <2>2, <2>4, <2>5, <2>6, <2>7
<1>4. Fused' = Fused
  <2>1. MatMuls' = MatMuls
    BY <1>1 DEF MatMuls
  <2> QED BY <1>3, <2>1 DEF Fused
<1>5. ASSUME NEW n PROVE Makes(n)' = Makes(n)
  BY <1>3, <1>4 DEF Makes
<1>6. ASSUME NEW u, NEW k PROVE IsFeeds(u, k)' = IsFeeds(u, k)
  BY <1>1, <1>5 DEF IsFeeds, Fresh
<1>7. Feeds' = Feeds
  BY <1>1, <1>6 DEF Feeds
<1> QED BY <1>1, <1>7

LEMMA ReadableSame ==
  ASSUME job' = job, model' = model
  PROVE  /\ \A s : Reading(s) => Reading(s)'
         /\ \A doc : Readable(doc) => Readable(doc)'
         /\ \A vectors : Feeding(vectors) => Feeding(vectors)'
<1>1. Feeds' = Feeds /\ Nodes' = Nodes
  BY FeedsSame
<1>2. ASSUME NEW s, Reading(s) PROVE Reading(s)'
  BY <1>1, <1>2 DEF Reading, Inside, InputsOf
<1>3. ASSUME NEW doc, Readable(doc) PROVE Readable(doc)'
  BY <1>1, <1>3 DEF Readable, InputsOf
<1>4. ASSUME NEW vectors, Feeding(vectors) PROVE Feeding(vectors)'
  BY <1>1, <1>4 DEF Feeding, InputsOf
<1> QED BY <1>2, <1>3, <1>4

-----------------------------------------------------------------------------
(***************************************************************************)
(* Pages.                                                                  *)
(***************************************************************************)
\* Division rounds down.
LEMMA DivIs ==
  ASSUME NEW d \in Nat, d >= 1, NEW x \in Nat
  PROVE  /\ x \div d \in Nat /\ d * (x \div d) <= x /\ x < d * (x \div d) + d
         /\ \A q \in Nat : d * q <= x => q <= x \div d
         /\ \A q \in Nat : x < d * q => x \div d < q
<1>1. /\ x \div d \in Nat /\ d * (x \div d) <= x /\ x < d * (x \div d) + d
  BY SMTT(30)
<1> DEFINE r == x \div d
<1> HIDE DEF r
<1>2. \A q \in Nat : d * q <= x => q <= r
  <2> SUFFICES ASSUME NEW q \in Nat, d * q <= x, r < q PROVE FALSE
    BY <1>1 DEF r
  <2>1. r \in Nat /\ x < d * r + d
    BY <1>1 DEF r
  <2>2. \A y \in Nat : d * (r + 1 + y) = d * r + d + d * y /\ d * y \in Nat /\ d * r \in Nat
    BY <2>1, SMTT(30)
  <2>3. q - r - 1 \in Nat /\ r + 1 + (q - r - 1) = q
    BY <2>1
  <2>4. d * q = d * r + d + d * (q - r - 1) /\ d * (q - r - 1) \in Nat /\ d * r \in Nat
    BY <2>2, <2>3
  <2> DEFINE u == d * q
             v == d * r
             w == d * (q - r - 1)
  <2>5. u = v + d + w /\ w \in Nat /\ v \in Nat /\ u <= x /\ x < v + d
    BY <2>1, <2>4
  <2> HIDE DEF u, v, w
  <2> QED BY <2>5
<1>3. \A q \in Nat : x < d * q => r < q
  <2> SUFFICES ASSUME NEW q \in Nat, x < d * q, q <= r PROVE FALSE
    BY <1>1 DEF r
  <2>1. r \in Nat /\ d * r <= x
    BY <1>1 DEF r
  <2>2. \A y \in Nat : d * (q + y) = d * q + d * y /\ d * y \in Nat /\ d * q \in Nat
    BY SMTT(30)
  <2>3. r - q \in Nat /\ q + (r - q) = r
    BY <2>1
  <2>4. d * r = d * q + d * (r - q) /\ d * (r - q) \in Nat /\ d * q \in Nat
    BY <2>2, <2>3
  <2> DEFINE u == d * r
             v == d * q
             w == d * (r - q)
  <2>5. u = v + w /\ w \in Nat /\ v \in Nat /\ u <= x /\ x < v
    BY <2>1, <2>4
  <2> HIDE DEF u, v, w
  <2> QED BY <2>5
<1> QED BY <1>1, <1>2, <1>3 DEF r

PagesTo(top) == (top + PageSize - 1) \div PageSize

\* What is read below the end of the layout is on the pages of the window.
LEMMA PagesBelow ==
  ASSUME NEW a \in Nat, NEW len \in Nat, len >= 1, NEW top \in Nat, a + len <= top
  PROVE  PagesTo(top) \in Nat /\ PagesOf(a, len) \subseteq 0 .. PagesTo(top) - 1
<1> DEFINE d == PageSize
           W == PagesTo(top)
           y == a + len - 1
           z == top + d - 1
<1>1. d \in Nat /\ d >= 1
  BY V2RuntimeAssumption
<1>2. y \in Nat /\ z \in Nat /\ y <= top - 1
  BY <1>1
<1>3. W = z \div d
  BY DEF PagesTo
<1>4. /\ a \div d \in Nat /\ y \div d \in Nat /\ z \div d \in Nat
      /\ \A q \in Nat : y < d * q => y \div d < q
      /\ \A q \in Nat : z < d * q => z \div d < q
  BY <1>1, <1>2, DivIs
<1> HIDE DEF W
<1>5. W \in Nat
  BY <1>3, <1>4
<1>6. y < d * W
  <2> DEFINE u == d * W
  <2>1. z < u + d
    BY <1>1, <1>2, <1>3, DivIs
  <2>2. u \in Nat
    BY <1>1, <1>5
  <2>3. y <= z - d
    BY <1>1
  <2> HIDE DEF u, y, z
  <2>4. y < u
    BY <1>1, <1>2, <2>1, <2>2, <2>3
  <2> QED BY <2>4 DEF u
<1>7. y \div d < W
  BY <1>4, <1>5, <1>6
<1> DEFINE lo == a \div d
           hi == y \div d
<1>8. PagesOf(a, len) = lo .. hi
  BY DEF PagesOf
<1>9. lo \in Nat /\ hi \in Nat /\ hi < W /\ W \in Nat
  BY <1>4, <1>5, <1>7
<1> HIDE DEF lo, hi
<1>10. lo .. hi \subseteq 0 .. W - 1
  BY ONLY <1>9
<1> QED BY <1>8, <1>9, <1>10 DEF W

-----------------------------------------------------------------------------
(***************************************************************************)
(* The vectors the bytes of the arena come from.                           *)
(***************************************************************************)
Numbered(mem) == \A e \in mem : DOMAIN e = {"at", "len", "tag"} /\ e.tag.vec \in Nat

LEMMA StoreNumbered ==
  ASSUME NEW mem, Numbered(mem), NEW a, NEW len, NEW width, NEW tag, tag.vec \in Nat
  PROVE  Numbered(Store(mem, a, len, width, tag))
BY DEF Numbered, Store

LEMMA MarkNumbered ==
  ASSUME NEW mem, Numbered(mem), NEW a, NEW width
  PROVE  Mark(Loaded(mem, a, width)).vec \in Nat
<1> DEFINE value == Loaded(mem, a, width)
<1>1. \A e \in value : e.tag.vec \in Nat
  <2>1. ASSUME NEW e \in mem PROVE [e EXCEPT !.at = @ - a].tag.vec \in Nat
    <3>1. DOMAIN e = {"at", "len", "tag"} /\ e.tag.vec \in Nat
      BY DEF Numbered
    <3>2. [e EXCEPT !.at = @ - a].tag = e.tag
      BY <3>1
    <3> QED BY <3>1, <3>2
  <2> QED BY <2>1 DEF Loaded, Touched
<1>2. Bad.vec = 0
  BY DEF Bad, Tag
<1> HIDE DEF value
<1>3. Mark(value).vec \in Nat
  <2>1. CASE value = {}
    BY <1>2, <2>1 DEF Mark
  <2>2. CASE value # {}
    <3>1. Mark(value) = (CHOOSE e \in value : TRUE).tag
      BY <2>2 DEF Mark
    <3>2. (CHOOSE e \in value : TRUE) \in value
      BY <2>2
    <3> QED BY <1>1, <3>1, <3>2
  <2> QED BY <2>1, <2>2
<1> QED BY <1>3 DEF value

\* The kernels keep the vector of the operands, or make it none.
LEMMA GatherNumbered ==
  ASSUME NEW L, NEW weights, NEW mem, Numbered(mem)
  PROVE  Numbered(RunGather(L, weights, mem))
<1> DEFINE idx == Loaded(mem, L.idx, 4)
           table == Loaded(weights, L.table, L.rows * L.width)
           r == GatherResult(L, table, idx)
<1>1. Mark(idx).vec \in Nat
  BY MarkNumbered
<1> HIDE DEF idx, table
<1>2. r.vec \in Nat
  <2>1. Bad.vec = 0
    BY DEF Bad, Tag
  <2>2. r = Bad \/ \E of, scale, gen : r = Tag(of, Mark(idx).vec, scale, gen)
    BY DEF GatherResult
  <2> HIDE DEF r
  <2>3. CASE r = Bad
    BY <2>1, <2>3
  <2>4. CASE \E of, scale, gen : r = Tag(of, Mark(idx).vec, scale, gen)
    BY <1>1, <2>4 DEF Tag
  <2> QED BY <2>2, <2>3, <2>4
<1>3. RowOf(L, weights, idx) = r
  BY DEF RowOf, table
<1> HIDE DEF r
<1>4. Numbered(Store(mem, L.out, L.dim, RowWidth(L), r))
  BY <1>2, StoreNumbered
<1> QED BY <1>3, <1>4 DEF RunGather, idx

LEMMA FcNumbered ==
  ASSUME NEW L, NEW weights, NEW mem, Numbered(mem)
  PROVE  Numbered(RunFc(L, weights, mem))
<1> DEFINE x == Loaded(mem, L.in, L.kpad)
           w == Loaded(weights, L.w, L.mpad * L.kpad)
           bias == Loaded(weights, L.b, L.mpad * 4)
           acc == FcAcc(L, w, x)
           summed == Store(mem, L.acc, L.mpad * 4, L.mpad * 4, acc)
           sum == WithBias(L, acc, bias)
           res == Epilogue(L, Doc.gen, acc, bias)
           done == Store(summed, L.out, L.n, L.mpad, res)
<1>0. Bad.vec \in Nat
  BY DEF Bad, Tag
<1>1. Mark(x).vec \in Nat
  BY MarkNumbered
<1>2. RunFc(L, weights, mem) = IF L.final THEN summed ELSE done
  BY DEF RunFc
<1> HIDE DEF x, w, bias
<1>3. acc.vec \in Nat
  <2>1. acc = Bad \/ \E of, scale, gen : acc = Tag(of, Mark(x).vec, scale, gen)
    BY DEF FcAcc
  <2> HIDE DEF acc
  <2>2. CASE \E of, scale, gen : acc = Tag(of, Mark(x).vec, scale, gen)
    BY <1>1, <2>2 DEF Tag
  <2> QED BY <1>0, <2>1, <2>2
<1> HIDE DEF acc
<1>4. sum.vec \in Nat
  <2>1. sum = Bad \/ \E of, scale, gen : sum = Tag(of, acc.vec, scale, gen)
    BY DEF WithBias
  <2> HIDE DEF sum
  <2>2. CASE \E of, scale, gen : sum = Tag(of, acc.vec, scale, gen)
    BY <1>3, <2>2 DEF Tag
  <2> QED BY <1>0, <2>1, <2>2
<1>5. res.vec \in Nat
  <2>1. res = Bad \/ \E of, scale, gen : res = Tag(of, sum.vec, scale, gen)
    BY DEF Epilogue
  <2> HIDE DEF res, sum
  <2>2. CASE \E of, scale, gen : res = Tag(of, sum.vec, scale, gen)
    BY <1>4, <2>2 DEF Tag
  <2> QED BY <1>0, <2>1, <2>2
<1> HIDE DEF res, sum
<1>6. Numbered(summed)
  BY <1>3, StoreNumbered
<1> HIDE DEF summed
<1>7. Numbered(done)
  BY <1>5, <1>6, StoreNumbered
<1> HIDE DEF done
<1> QED BY <1>2, <1>6, <1>7

LEMMA LayerNumbered ==
  ASSUME NEW L, L.kind \in {"gather", "concat", "fc"}, NEW weights, NEW mem, Numbered(mem)
  PROVE  Numbered(RunLayer(L, weights, mem))
<1>1. CASE L.kind = "gather"
  <2>1. RunLayer(L, weights, mem) = RunGather(L, weights, mem)
    BY <1>1 DEF RunLayer
  <2> QED BY <2>1, GatherNumbered
<1>2. CASE L.kind = "concat"
  <2>1. RunLayer(L, weights, mem) = mem
    BY <1>2 DEF RunLayer
  <2> QED BY <2>1
<1>3. CASE L.kind = "fc"
  <2>1. RunLayer(L, weights, mem) = RunFc(L, weights, mem)
    BY <1>3 DEF RunLayer
  <2> QED BY <2>1, FcNumbered
<1> QED BY <1>1, <1>2, <1>3

-----------------------------------------------------------------------------
(***************************************************************************)
(* What a layer reads lies in the window.                                  *)
(***************************************************************************)
LEMMA RowBelow ==
  ASSUME NEW a \in Nat, NEW rows \in Nat, rows >= 1, NEW width \in Nat, NEW dim \in Nat, dim <= width,
         NEW v \in Nat, NEW top \in Nat, a + rows * width <= top
  PROVE  LET row == a + (v % rows) * width IN row \in Nat /\ row + dim <= top
<1> DEFINE m == v % rows
           row == a + m * width
<1>1. m \in Nat /\ m + 1 <= rows
  BY SMTT(30)
<1> HIDE DEF m
<1> DEFINE u == m * width
           rest == rows - (m + 1)
           y == rest * width
           z == rows * width
<1>2. rest \in Nat /\ rows = (m + 1) + rest
  BY <1>1
<1> HIDE DEF rest
<1>3. u \in Nat /\ y \in Nat /\ z = u + width + y
  <2>1. \A p, q \in Nat : p * q \in Nat
    OBVIOUS
  <2>2. \A p, q, r \in Nat : ((p + 1) + q) * r = p * r + r + q * r
    BY SMTT(30)
  <2>3. ((m + 1) + rest) * width = u + width + y
    BY <1>1, <1>2, <2>2
  <2> HIDE DEF u, y
  <2>4. z = u + width + y
    BY <1>2, <2>3
  <2> QED BY <1>1, <1>2, <2>1, <2>4 DEF u, y
<1>4. a + z <= top
  OBVIOUS
<1> HIDE DEF u, y, z
<1>5. a + u \in Nat /\ a + u + dim <= top
  BY <1>3, <1>4
<1> QED BY <1>5 DEF u, m

LEMMA ReadsBelow ==
  ASSUME NEW L, NEW top \in Nat, Within(L, top), NEW mem, Numbered(mem)
  PROVE  LayerReads(L, mem) \subseteq 0 .. PagesTo(top) - 1
<1> DEFINE Here == 0 .. PagesTo(top) - 1
<1>1. CASE L.kind = "gather"
  <2> DEFINE v == Mark(Loaded(mem, L.idx, 4)).vec
             row == L.table + (v % L.rows) * L.width
  <2>1. v \in Nat
    BY MarkNumbered
  <2>2. LayerReads(L, mem) = PagesOf(row, L.dim)
    BY <1>1 DEF LayerReads, Row
  <2> HIDE DEF v
  <2>3. row \in Nat /\ row + L.dim <= top /\ L.dim \in Nat /\ L.dim >= 1
    BY <1>1, <2>1, RowBelow DEF Within
  <2> HIDE DEF row
  <2> QED BY <2>2, <2>3, PagesBelow
<1>2. CASE L.kind = "concat"
  BY <1>2 DEF LayerReads
<1>3. CASE L.kind = "fc"
  <2> DEFINE wl == L.mpad * L.kpad
             bl == L.mpad * 4
  <2>1. /\ L.w \in Nat /\ wl \in Nat /\ wl >= 1 /\ L.w + wl <= top
        /\ L.b \in Nat /\ bl \in Nat /\ bl >= 1 /\ L.b + bl <= top
    <3>1. \A p, q \in Nat : p >= 1 /\ q >= 1 => p * q \in Nat /\ p * q >= 1
      BY SMTT(30)
    <3> QED BY <1>3, <3>1 DEF Within
  <2>2. LayerReads(L, mem) = PagesOf(L.w, wl) \cup IF L.final THEN {} ELSE PagesOf(L.b, bl)
    BY <1>3 DEF LayerReads
  <2> HIDE DEF wl, bl
  <2>3. PagesOf(L.w, wl) \subseteq Here /\ PagesOf(L.b, bl) \subseteq Here
    BY <2>1, PagesBelow
  <2> QED BY <2>2, <2>3
<1> QED BY <1>1, <1>2, <1>3 DEF Within

\* The bias the output's sum gets.
LEMMA LastBelow ==
  ASSUME NEW L, NEW top \in Nat, Within(L, top), L.kind = "fc"
  PROVE  PagesOf(L.b, L.n * 4) \subseteq 0 .. PagesTo(top) - 1
<1> DEFINE len == L.n * 4
           b == L.b
<1>1. b \in Nat /\ len \in Nat /\ len >= 1 /\ b + len <= top
  BY DEF Within
<1> HIDE DEF len, b
<1>2. PagesOf(b, len) \subseteq 0 .. PagesTo(top) - 1
  BY <1>1, PagesBelow
<1> QED BY <1>2 DEF b, len

-----------------------------------------------------------------------------
(***************************************************************************)
(* The faults of a read, and the inputs of an iteration.                   *)
(***************************************************************************)
IsFaults(u, reads, n) ==
  u = [p \in 0 .. n |->
         IF p = 0 THEN pages
         ELSE IF p - 1 \notin reads \/ p - 1 \in u[p - 1] THEN u[p - 1]
              ELSE u[p - 1] \cup {q \in (p - 1) .. (p + run[1].opts.prefetch - 2) : q < WindowPages}]

LEMMA FaultsExist == ASSUME NEW reads PROVE \A n \in Nat : \E u : IsFaults(u, reads, n)
<1> DEFINE D == {n \in Nat : \E u : IsFaults(u, reads, n)}
           Step(before, p) ==
             IF p - 1 \notin reads \/ p - 1 \in before THEN before
             ELSE before \cup {q \in (p - 1) .. (p + run[1].opts.prefetch - 2) : q < WindowPages}
<1>1. 0 \in D
  <2>1. IsFaults([p \in 0 .. 0 |-> pages], reads, 0)
    BY DEF IsFaults
  <2> QED BY <2>1
<1>2. ASSUME NEW n \in Nat, n \in D PROVE n + 1 \in D
  <2>1. PICK u : IsFaults(u, reads, n)
    BY <1>2
  <2> DEFINE w == [p \in 0 .. n + 1 |-> IF p <= n THEN u[p] ELSE Step(u[n], n + 1)]
  <2>2. ASSUME NEW p \in 0 .. n + 1
        PROVE  w[p] = IF p = 0 THEN pages ELSE Step(w[p - 1], p)
    <3>1. CASE p = n + 1
      <4>1. w[p] = Step(u[n], n + 1) /\ w[p - 1] = u[n] /\ p # 0
        BY <3>1
      <4> HIDE DEF w, Step
      <4> QED BY <4>1, <3>1
    <3>2. CASE p # n + 1
      <4>1. p \in 0 .. n /\ w[p] = u[p] /\ (p # 0 => w[p - 1] = u[p - 1])
        BY <3>2
      <4>2. u[p] = IF p = 0 THEN pages ELSE Step(u[p - 1], p)
        BY <2>1, <4>1 DEF IsFaults
      <4> HIDE DEF w, Step
      <4> QED BY <4>1, <4>2
    <3> QED BY <3>1, <3>2
  <2>3. IsFaults(w, reads, n + 1)
    BY <2>2 DEF IsFaults
  <2> QED BY <2>3
<1> HIDE DEF D
<1>3. \A n \in Nat : n \in D
  BY <1>1, <1>2, Induction
<1> QED BY <1>3 DEF D

\* Afterwards all that was read is in the host's memory, with what was there before.
LEMMA FaultsBring ==
  ASSUME NEW reads, WindowPages \in Nat, reads \subseteq 0 .. WindowPages - 1,
         run[1].opts.prefetch \in Nat, run[1].opts.prefetch >= 1
  PROVE  pages \subseteq Faulted(reads) /\ reads \subseteq Faulted(reads)
<1> DEFINE W == WindowPages
           u == CHOOSE v : IsFaults(v, reads, W)
           ahead == run[1].opts.prefetch
<1>1. IsFaults(u, reads, W)
  BY FaultsExist
<1>2. Faulted(reads) = u[W]
  BY DEF Faulted, IsFaults
<1> HIDE DEF u
<1>3. W \in Nat /\ ahead \in Nat /\ ahead >= 1
  OBVIOUS
<1> DEFINE There(p) == pages \subseteq u[p] /\ \A q \in reads : q < p => q \in u[p]
           D == {p \in Nat : p <= W => There(p)}
<1>4. 0 \in D
  <2>1. u[0] = pages
    BY <1>1, <1>3 DEF IsFaults
  <2>2. \A q \in reads : ~(q < 0)
    BY <1>3
  <2> QED BY <2>1, <2>2
<1>5. ASSUME NEW p \in Nat, p \in D PROVE p + 1 \in D
  <2> SUFFICES ASSUME p + 1 <= W PROVE There(p + 1)
    OBVIOUS
  <2>1. There(p)
    BY <1>3, <1>5
  <2> DEFINE r == p + 1
             S == {q \in (r - 1) .. (r + ahead - 2) : q < W}
  <2>2. u[r] = IF r - 1 \notin reads \/ r - 1 \in u[r - 1] THEN u[r - 1] ELSE u[r - 1] \cup S
    <3>1. r \in 0 .. W /\ r # 0
      BY <1>3
    <3> QED BY <1>1, <3>1 DEF IsFaults
  <2>3. r - 1 = p /\ p \in S
    BY <1>3
  <2> HIDE DEF S, r
  <2>4. u[r] = u[p] \/ (u[r] = u[p] \cup S)
    BY <2>2, <2>3
  <2>5. p \in reads => p \in u[r]
    BY <2>2, <2>3
  <2>6. \A q \in reads : q < r => q < p \/ q = p
    BY <1>3 DEF r
  <2>7. There(r)
    BY <2>1, <2>4, <2>5, <2>6
  <2> QED BY <2>7 DEF r
<1> HIDE DEF D
<1>6. \A p \in Nat : p \in D
  BY <1>4, <1>5, Induction
<1>7. There(W)
  <2>1. W \in D
    BY <1>3, <1>6
  <2> HIDE DEF There, W
  <2>2. W <= W
    BY <1>3
  <2> QED BY <2>1, <2>2 DEF D
<1>8. \A q \in reads : q < W
  BY <1>3
<1> QED BY <1>2, <1>7, <1>8

IsWritten(u, mem, vec, n) ==
  u = [i \in 0 .. n |->
         IF i = 0 THEN mem
         ELSE LET fed == CHOOSE x \in Range(vec.inputs) : x.name = Doc.inputs[i].name
              IN Store(u[i - 1], Doc.inputs[i].addr, fed.count, InputWidth(fed.count), fed.tag)]

LEMMA WrittenExist ==
  ASSUME NEW mem, NEW vec
  PROVE  \A n \in Nat : \E u : IsWritten(u, mem, vec, n)
<1> DEFINE D == {n \in Nat : \E u : IsWritten(u, mem, vec, n)}
           Step(before, i) ==
             LET fed == CHOOSE x \in Range(vec.inputs) : x.name = Doc.inputs[i].name
             IN Store(before, Doc.inputs[i].addr, fed.count, InputWidth(fed.count), fed.tag)
<1>1. 0 \in D
  <2>1. IsWritten([i \in 0 .. 0 |-> mem], mem, vec, 0)
    BY DEF IsWritten
  <2> QED BY <2>1
<1>2. ASSUME NEW n \in Nat, n \in D PROVE n + 1 \in D
  <2>1. PICK u : IsWritten(u, mem, vec, n)
    BY <1>2
  <2> DEFINE w == [i \in 0 .. n + 1 |-> IF i <= n THEN u[i] ELSE Step(u[n], n + 1)]
  <2>2. ASSUME NEW i \in 0 .. n + 1
        PROVE  w[i] = IF i = 0 THEN mem ELSE Step(w[i - 1], i)
    <3>1. CASE i = n + 1
      <4>1. w[i] = Step(u[n], n + 1) /\ w[i - 1] = u[n] /\ i # 0
        BY <3>1
      <4> HIDE DEF w, Step
      <4> QED BY <4>1, <3>1
    <3>2. CASE i # n + 1
      <4>1. i \in 0 .. n /\ w[i] = u[i] /\ (i # 0 => w[i - 1] = u[i - 1])
        BY <3>2
      <4>2. u[i] = IF i = 0 THEN mem ELSE Step(u[i - 1], i)
        BY <2>1, <4>1 DEF IsWritten
      <4> HIDE DEF w, Step
      <4> QED BY <4>1, <4>2
    <3> QED BY <3>1, <3>2
  <2>3. IsWritten(w, mem, vec, n + 1)
    BY <2>2 DEF IsWritten
  <2> QED BY <2>3
<1> HIDE DEF D
<1>3. \A n \in Nat : n \in D
  BY <1>1, <1>2, Induction
<1> QED BY <1>3 DEF D

\* A vector that gives every input of the document leaves its own number in the arena.
LEMMA WrittenNumbered ==
  ASSUME NEW mem, Numbered(mem), NEW vec, NEW n \in Nat, Listed(Doc.inputs, n),
         InputsOf(vec) = InputsOf(Doc), \A x \in Range(vec.inputs) : x.tag.vec \in Nat
  PROVE  Numbered(InputsWritten(mem, vec))
<1> DEFINE u == CHOOSE v : IsWritten(v, mem, vec, n)
<1>1. IsWritten(u, mem, vec, n)
  BY WrittenExist
<1>2. Len(Doc.inputs) = n /\ DOMAIN Doc.inputs = 1 .. n
  BY LenListed
<1>3. InputsWritten(mem, vec) = u[n]
  BY <1>2 DEF InputsWritten, InputsUpTo, IsWritten
<1> HIDE DEF u
<1> DEFINE D == {i \in Nat : i <= n => Numbered(u[i])}
<1>4. 0 \in D
  BY <1>1 DEF IsWritten
<1>5. ASSUME NEW i \in Nat, i \in D PROVE i + 1 \in D
  <2> SUFFICES ASSUME i + 1 <= n PROVE Numbered(u[i + 1])
    OBVIOUS
  <2> DEFINE k == i + 1
             fed == CHOOSE x \in Range(vec.inputs) : x.name = Doc.inputs[k].name
  <2>1. k \in 1 .. n /\ k \in 0 .. n /\ k # 0 /\ k - 1 = i
    OBVIOUS
  <2>2. u[k] = Store(u[k - 1], Doc.inputs[k].addr, fed.count, InputWidth(fed.count), fed.tag)
    <3> HIDE DEF k
    <3> QED BY <1>1, <2>1 DEF IsWritten
  <2>3. Numbered(u[i])
    BY <1>5
  <2> HIDE DEF k
  <2>4. Doc.inputs[k].name \in InputsOf(vec)
    BY <1>2, <2>1 DEF InputsOf, Range
  <2>5. fed \in Range(vec.inputs)
    BY <2>4 DEF InputsOf
  <2>6. fed.tag.vec \in Nat
    BY <2>5
  <2> HIDE DEF fed
  <2>7. Numbered(u[k])
    BY <2>1, <2>2, <2>3, <2>6, StoreNumbered
  <2> QED BY <2>7 DEF k
<1> HIDE DEF D
<1>6. \A i \in Nat : i \in D
  BY <1>4, <1>5, Induction
<1>7. Numbered(u[n])
  BY <1>6 DEF D
<1> QED BY <1>3, <1>7

-----------------------------------------------------------------------------
(***************************************************************************)
(* What the lowering keeps and leaves.                                     *)
(***************************************************************************)
Executing == {"prepare", "iterate", "layers", "compare"}
Writing == {"lower", "write_image", "write_vectors"}

\* A file that is there or not.
OneFile(content) == content = <<>> \/ content = <<content[1]>>

Filed ==
  /\ \A doc \in Docs : Readable(doc)
  /\ program # <<>> => /\ \A v \in Range(program[1].vectors) : Feeding(v)
                       /\ OneFile(program[1].doc) /\ OneFile(program[1].vectors)
  /\ stage \in Executing \cup {"lowered"} => program # <<>>

Kept ==
  /\ stage = "lower" /\ ~Failed(lw) => Reading(lw)
  /\ stage \in {"write_image", "write_vectors"} => Readable(Document(lw))
  /\ Filed

\* The runtime writes no file, and only it takes the stages of a run.
LEMMA RunStages ==
  ASSUME Run
  PROVE  /\ program' = program /\ stage \in Executing \cup {"lowered"}
         /\ stage' \in Executing \cup {"lowered"}
BY DEF Run, Start, Prepare, PrepareFails, BeginIteration, RunOneLayer, LinkFails,
       ReadOutput, Compare, Exit, files, Executing

LEMMA OtherStages ==
  ASSUME Place \/ Baseline \/ LowerRaise \/ Retrain
  PROVE  program' = program /\ stage' \notin Executing \cup Writing \cup {"lowered"}
<1>1. CASE Place
  BY <1>1 DEF Place, Generate, Parse, SolveStart, SolveFirst, SolveLayer, SolveEnd, Backtrack,
              WriteManifest, Fail, files, Executing, Writing
<1>2. CASE Baseline
  BY <1>2 DEF Baseline, Split, RunPart, DumpWeights, RunSwapped, ProfileNode, ProfileEnd, files,
              Executing, Writing
<1>3. CASE LowerRaise \/ Retrain
  BY <1>3 DEF LowerRaise, Retrain, Fail, Errors, files, Executing, Writing
<1> QED BY <1>1, <1>2, <1>3

\* Files that stay.
LEMMA FiledSame ==
  ASSUME Filed, job' = job, model' = model, program' = program,
         stage' \in Executing \cup {"lowered"} => program # <<>>
  PROVE  Filed'
<1>1. Docs' = Docs
  BY DEF Docs
<1> QED BY <1>1, ReadableSame DEF Filed

\* Files that are written.
LEMMA FiledNew ==
  ASSUME job' = job, model' = model, NEW r, program' = <<r>>,
         OneFile(r.doc), OneFile(r.vectors), \A doc \in Range(r.doc) : Readable(doc), \A v \in Range(r.vectors) : Feeding(v)
  PROVE  Filed'
<1>1. program' # <<>> /\ program'[1] = r
  OBVIOUS
<1>2. Docs' = Range(r.doc)
  BY <1>1 DEF Docs
<1> QED BY <1>1, <1>2, ReadableSame DEF Filed

\* At the start there are none.
LEMMA KeptInit ==
  ASSUME Init
  PROVE  Kept
<1>1. stage = "generate" /\ program = <<>>
  BY DEF Init, PlacementInit
<1> QED BY <1>1 DEF Kept, Filed, Docs, Executing

\* Every step keeps them.
LEMMA KeptStep ==
  ASSUME ModelKept, LayingOut, Kept, [Next]_vars
  PROVE  Kept'
<1>1. CASE UNCHANGED vars
  <2>1. /\ job' = job /\ model' = model /\ program' = program /\ stage' = stage /\ lw' = lw
        /\ training' = training
    BY <1>1 DEF vars, files
  <2>2. Filed'
    BY <2>1, FiledSame DEF Kept, Filed
  <2>3. ASSUME stage' = "lower", ~Failed(lw)' PROVE Reading(lw)'
    <3>1. Reading(lw)
      BY <2>1, <2>3 DEF Kept, Failed
    <3>2. Reading(lw')
      BY <2>1, <3>1
    <3> QED BY <2>1, <3>2, ReadableSame
  <2>4. ASSUME stage' \in {"write_image", "write_vectors"} PROVE Readable(Document(lw))'
    <3>1. Readable(Document(lw))
      BY <2>1, <2>4 DEF Kept
    <3>2. Document(lw)' = Document(lw)
      BY <2>1 DEF Document
    <3>3. Readable(Document(lw)')
      BY <3>1, <3>2
    <3> QED BY <2>1, <3>3, ReadableSame
  <2> QED BY <2>2, <2>3, <2>4 DEF Kept
<1>2. CASE Next /\ stage = "generate"
  <2>1. stage' = "parse" /\ program' = <<>>
    BY <1>2, GenerateFirst DEF Generate, ModelKept
  <2> QED BY <2>1 DEF Kept, Filed, Docs, Executing
<1>3. CASE Next /\ stage # "generate"
  <2>0. job' = job /\ model' = model
    BY <1>3, ModelStep
  <2>1. CASE Place \/ Baseline \/ LowerRaise \/ Retrain
    <3>1. program' = program /\ stage' \notin Executing \cup Writing \cup {"lowered"}
      BY <2>1, OtherStages
    <3>2. Filed'
      BY <2>0, <3>1, FiledSame DEF Kept
    <3> QED BY <3>1, <3>2 DEF Kept, Writing
  <2>2. CASE Run
    <3>1. /\ program' = program /\ stage \in Executing \cup {"lowered"}
          /\ stage' \in Executing \cup {"lowered"}
      BY <2>2, RunStages
    <3>2. Filed'
      BY <2>0, <3>1, FiledSame DEF Kept, Filed
    <3> QED BY <3>1, <3>2 DEF Kept, Executing
  <2>3. CASE LowerStart
    <3>1. /\ lw' = Ground /\ stage' = "lower"
          /\ program' = IF program = <<>> THEN <<NoProgram>> ELSE program
      BY <2>3 DEF LowerStart, Ground
    <3>2. Filed'
      <4>1. CASE program = <<>>
        <5>1. NoProgram.doc = <<>> /\ NoProgram.vectors = <<>> /\ Range(<<>>) = {}
          BY DEF NoProgram, Range
        <5>2. program' = <<NoProgram>>
          BY <3>1, <4>1
        <5> DEFINE r == NoProgram
        <5>3. /\ OneFile(r.doc) /\ OneFile(r.vectors)
              /\ \A doc \in Range(r.doc) : Readable(doc)
              /\ \A v \in Range(r.vectors) : Feeding(v)
          BY <5>1 DEF OneFile
        <5> HIDE DEF r
        <5> QED BY <2>0, <5>2, <5>3, FiledNew DEF r
      <4>2. CASE program # <<>>
        BY <2>0, <3>1, <4>2, FiledSame DEF Kept, Executing
      <4> QED BY <4>1, <4>2
    <3>3. ASSUME ~Failed(lw)' PROVE Reading(lw)'
      <4>1. ~Failed(Ground)
        BY <3>1, <3>3 DEF Failed
      <4>2. PICK g : Shape(g)
        BY <1>3, ShapeExists
      <4>3. Reading(Ground)
        BY <4>1, <4>2, GroundReading
      <4>4. Reading(lw')
        BY <3>1, <4>3
      <4> QED BY <2>0, <4>4, ReadableSame
    <3> QED BY <3>1, <3>2, <3>3 DEF Kept
  <2>4. CASE LowerStep
    <3>1. /\ program' = program /\ stage' = stage
          /\ stage = "lower" /\ ~Failed(lw) /\ lw.node <= Len(Nodes)
          /\ lw' = LowerNode(lw, Nodes[lw.node])
      BY <2>4 DEF LowerStep, files, Failed
    <3>2. Filed'
      BY <2>0, <3>1, FiledSame DEF Kept, Executing
    <3> DEFINE t == LowerNode(lw, Nodes[lw.node])
    <3>3. Failed(t) \/ Reading(t)
      BY <3>1, ReadingNode DEF LayingOut, Kept
    <3> HIDE DEF t
    <3>4. lw' = t
      BY <3>1 DEF t
    <3>5. ASSUME ~Failed(lw)' PROVE Reading(lw)'
      <4>1. Reading(lw')
        BY <3>3, <3>4, <3>5 DEF Failed
      <4> QED BY <2>0, <4>1, ReadableSame
    <3> QED BY <3>1, <3>2, <3>5 DEF Kept
  <2>5. CASE WriteDoc \/ WriteImage \/ WriteVectors \/ LowerDies
    <3> DEFINE Files == {"doc", "image", "vectors"}
    <3>1. /\ stage \in Writing /\ lw' = lw /\ training' = training
          /\ stage' \in {"write_image", "write_vectors", "lowered"}
      BY <2>5 DEF WriteDoc, WriteImage, WriteVectors, LowerDies, Lowered, Writing
    <3>2. PICK r : program = <<r>> /\ DOMAIN r = Files
      BY <3>1 DEF LayingOut, Written, Writing
    <3>3. /\ program[1] = r /\ program # <<>> /\ Docs = Range(r.doc)
          /\ \A doc \in Range(r.doc) : Readable(doc)
          /\ \A v \in Range(r.vectors) : Feeding(v)
          /\ OneFile(r.doc) /\ OneFile(r.vectors)
      BY <3>2 DEF Docs, Kept, Filed
    <3> DEFINE d == Document(lw)
    <3>4. d' = d
      BY <2>0, <3>1 DEF Document
    <3>5. stage = "lower" /\ WriteDoc => Readable(d)
      BY DocumentReadable, UnderwayIs DEF WriteDoc, Lowered, Failed, LayingOut, Kept
    <3>6. stage' \in {"write_image", "write_vectors"} => Readable(d)
      BY <2>5, <3>5 DEF WriteDoc, WriteImage, WriteVectors, LowerDies, Lowered, Kept
    <3> HIDE DEF d
    <3>7. stage' \in {"write_image", "write_vectors"} => Readable(d)'
      BY <2>0, <3>4, <3>6, ReadableSame
    <3>8. Filed' => Kept'
      BY <3>1, <3>7 DEF Kept, d
    <3>9. CASE WriteDoc
      <4> DEFINE q == [r EXCEPT !.doc = <<d>>]
      <4>1. program' = <<q>> /\ Readable(d)
        BY <3>3, <3>5, <3>9 DEF WriteDoc, Lowered, d
      <4>2. q.doc = <<d>> /\ q.vectors = r.vectors
        BY <3>2
      <4> HIDE DEF q
      <4>3. OneFile(q.doc) /\ \A doc \in Range(q.doc) : Readable(doc)
        BY <4>1, <4>2 DEF Range, OneFile
      <4>4. Filed'
        BY <2>0, <3>3, <4>1, <4>2, <4>3, FiledNew
      <4> QED BY <3>8, <4>4
    <3>10. CASE WriteImage
      <4> DEFINE im == <<[bytes |-> lw.image, size |-> lw.end]>>
                 q == [r EXCEPT !.image = im]
      <4>1. program' = <<q>>
        BY <3>3, <3>10 DEF WriteImage
      <4> HIDE DEF im
      <4>2. q.doc = r.doc /\ q.vectors = r.vectors
        BY <3>2
      <4> HIDE DEF q
      <4>3. Filed'
        BY <2>0, <3>3, <4>1, <4>2, FiledNew
      <4> QED BY <3>8, <4>3
    <3>11. CASE WriteVectors
      <4> DEFINE vs == TestVectors(d, lw.image)
                 q == [r EXCEPT !.vectors = <<vs>>]
      <4>1. program' = <<q>>
        BY <3>3, <3>11 DEF WriteVectors, d
      <4>2. Readable(d)
        BY <3>11 DEF WriteVectors, Kept, d
      <4>3. Feeding(vs)
        BY <4>2, VectorsFeed
      <4> HIDE DEF vs
      <4>4. q.doc = r.doc /\ q.vectors = <<vs>>
        BY <3>2
      <4> HIDE DEF q
      <4>5. OneFile(q.vectors) /\ \A v \in Range(q.vectors) : Feeding(v)
        BY <4>3, <4>4 DEF Range, OneFile
      <4>6. Filed'
        BY <2>0, <3>3, <4>1, <4>4, <4>5, FiledNew
      <4> QED BY <3>8, <4>6
    <3>12. CASE LowerDies
      <4> DEFINE q == [r EXCEPT !.doc = <<>>]
                 p == [r EXCEPT !.image = <<>>]
      <4>1. program' = program \/ program' = <<q>> \/ program' = <<p>>
        BY <3>3, <3>12 DEF LowerDies
      <4>2. q.doc = <<>> /\ q.vectors = r.vectors /\ p.doc = r.doc /\ p.vectors = r.vectors
        BY <3>2
      <4> HIDE DEF q, p
      <4>3. OneFile(q.doc) /\ \A doc \in Range(q.doc) : Readable(doc)
        BY <4>2 DEF Range, OneFile
      <4>4. program' = <<q>> => Filed'
        BY <2>0, <3>3, <4>2, <4>3, FiledNew
      <4>5. program' = <<p>> => Filed'
        BY <2>0, <3>3, <4>2, FiledNew
      <4>6. program' = program => Filed'
        BY <2>0, <3>3, FiledSame DEF Kept
      <4> QED BY <3>8, <4>1, <4>4, <4>5, <4>6
    <3> QED BY <2>5, <3>9, <3>10, <3>11, <3>12
  <2> QED BY <1>3, <2>1, <2>2, <2>3, <2>4, <2>5 DEF Next, Lower
<1> QED BY <1>1, <1>2, <1>3

-----------------------------------------------------------------------------
(***************************************************************************)
(* A run.                                                                  *)
(***************************************************************************)
\* What a run has been given and has loaded.
Held(r) == r.opts \in job.runs /\ Readable(r.doc) /\ Feeding(r.vectors)

\* In a cold run of the pool, what has been read is in the host's memory, and
\* all of that has been fetched in this iteration.
PoolKept(r) ==
  /\ Numbered(arena)
  /\ stage # "prepare" => ~job.streaming
  /\ stage = "layers" => layer \in Nat
  /\ stage \in {"layers", "compare"} /\ ~r.opts.warm => touched \subseteq pages /\ pages \subseteq fetched

Running ==
  stage \in Executing => \E r : /\ run = <<r>> /\ Held(r) /\ iteration \in Nat
                                /\ r.opts.mode = "pool" => PoolKept(r)

LEMMA RunningInit ==
  ASSUME Init
  PROVE  Running
<1>1. stage = "generate"
  BY DEF Init, PlacementInit
<1> QED BY <1>1 DEF Running, Executing

LEMMA HeldSame ==
  ASSUME job' = job, model' = model, NEW r, Held(r)
  PROVE  Held(r)'
BY ReadableSame DEF Held

\* A read of pages of the window.
LEMMA PoolReads ==
  ASSUME ModelKept, NEW r, run = <<r>>, Held(r), r.opts.mode = "pool", ~job.streaming,
         NEW reads, reads \subseteq 0 .. PagesTo(r.doc.layoutend) - 1, ReadWindow(reads),
         touched \subseteq pages, pages \subseteq fetched
  PROVE  touched' \subseteq pages' /\ pages' \subseteq fetched'
<1>1. run[1] = r /\ Doc = r.doc
  BY DEF Doc
<1>2. /\ pages' = Faulted(reads) /\ fetched' = fetched \cup (pages' \ pages)
      /\ touched' = touched \cup reads
  BY <1>1 DEF ReadWindow, Mode
<1>3. WindowPages = PagesTo(r.doc.layoutend)
  BY <1>1 DEF WindowPages, PagesTo
<1>4. r.doc.layoutend \in Nat
  BY DEF Held, Readable
<1> DEFINE top == r.doc.layoutend
<1> HIDE DEF top
<1>5. PagesTo(top) \in Nat
  <2>1. PageSize \in Nat /\ PageSize # 0
    BY V2RuntimeAssumption
  <2> DEFINE z == top + PageSize - 1
  <2>2. z \in Nat
    BY <1>4, <2>1 DEF top
  <2> HIDE DEF z
  <2>3. z \div PageSize \in Nat
    BY ONLY <2>1, <2>2, DivIs
  <2> QED BY <2>3 DEF PagesTo, z
<1>6. run[1].opts.prefetch \in Nat /\ run[1].opts.prefetch >= 1
  <2>1. job \in Jobs /\ r.opts \in job.runs
    BY DEF ModelKept, Held
  <2>2. r.opts.prefetch \in Nat \ {0}
    BY <2>1, OptionsAssumption
  <2> QED BY <1>1, <2>2
<1>7. pages \subseteq Faulted(reads) /\ reads \subseteq Faulted(reads)
  <2>1. WindowPages \in Nat /\ reads \subseteq 0 .. WindowPages - 1
    BY <1>3, <1>5 DEF top
  <2> QED BY ONLY <1>6, <2>1, FaultsBring
<1> QED BY <1>2, <1>7

\* A run starts with what the directory holds.
LEMMA RunStarts ==
  ASSUME ModelKept, Kept, Running, Start
  PROVE  Running'
<1>1. /\ stage = "lowered" /\ iteration' = 0 /\ arena' = {} /\ job' = job /\ model' = model
      /\ stage' = "lowered" \/ stage' = "prepare"
  BY DEF Start, files
<1> SUFFICES ASSUME stage' = "prepare" PROVE Running'
  BY <1>1 DEF Running, Executing
<1>2. PICK opts \in job.runs :
        /\ Loads
        /\ run' = <<[opts |-> opts, doc |-> program[1].doc[1], image |-> program[1].image[1],
                     vectors |-> program[1].vectors[1]]>>
  BY <1>1 DEF Start
<1>3. program # <<>>
  BY <1>1 DEF Kept, Filed
<1>4. Readable(program[1].doc[1]) /\ Feeding(program[1].vectors[1])
  <2> DEFINE docs == program[1].doc
             vs == program[1].vectors
  <2>1. /\ docs # <<>> /\ vs # <<>>
        /\ \A doc \in Range(docs) : Readable(doc)
        /\ \A v \in Range(vs) : Feeding(v)
    BY <1>2, <1>3 DEF Loads, Kept, Filed, Docs
  <2>2. (docs = <<>> \/ docs = <<docs[1]>>) /\ (vs = <<>> \/ vs = <<vs[1]>>)
    BY <1>3 DEF Kept, Filed, OneFile
  <2> QED BY <2>1, <2>2 DEF Range
<1>5. PICK r : run' = <<r>> /\ Held(r)
  BY <1>2, <1>4 DEF Held
<1>6. Held(r)'
  BY <1>1, <1>5, HeldSame
<1>7. PoolKept(r)'
  BY <1>1 DEF PoolKept, Numbered
<1> QED BY <1>1, <1>5, <1>6, <1>7 DEF Running

\* A run goes on or ends.
LEMMA RunGoes ==
  ASSUME ModelKept, Running, Run, stage \in Executing
  PROVE  Running'
<1>1. PICK r : run = <<r>> /\ Held(r) /\ iteration \in Nat /\ (r.opts.mode = "pool" => PoolKept(r))
  BY DEF Running
<1>2. run[1] = r /\ Doc = r.doc /\ Mode = r.opts.mode
  BY <1>1 DEF Doc, Mode
<1>3. Prepare \/ PrepareFails \/ BeginIteration \/ RunOneLayer \/ LinkFails \/ ReadOutput \/ Compare
  BY DEF Run, Start, Executing
<1>4. job' = job /\ model' = model /\ run' = run
  BY <1>3 DEF Prepare, PrepareFails, BeginIteration, RunOneLayer, LinkFails, ReadOutput, Compare,
              files, Exit
<1>5. Held(r)'
  BY <1>1, <1>4, HeldSame
<1>6. iteration' \in Nat
  <2>1. iteration' = iteration \/ iteration' = iteration + 1
    BY <1>3 DEF Prepare, PrepareFails, BeginIteration, RunOneLayer, LinkFails, ReadOutput, Compare,
                Exit
  <2> QED BY <1>1, <2>1
<1>7. ASSUME stage' \in Executing, r.opts.mode = "pool" PROVE PoolKept(r)'
  <2>1. PoolKept(r)
    BY <1>1, <1>7
  <2>2. Mode = "pool" /\ ~OnDevice /\ Activations = arena
    BY <1>2, <1>7 DEF OnDevice, Activations
  <2>3. Readable(r.doc) /\ Feeding(r.vectors) /\ stage' # "lowered"
    BY <1>1, <1>7 DEF Held, Executing
  <2>4. CASE Prepare
    <3>1. /\ arena' = arena /\ stage' = "iterate" /\ ~Doc.streaming
      BY <2>2, <2>3, <2>4 DEF Prepare, Exit
    <3>2. ~job.streaming
      BY <1>2, <2>3, <3>1 DEF Readable
    <3> QED BY <1>4, <2>1, <3>1, <3>2 DEF PoolKept, Numbered
  <2>5. CASE PrepareFails \/ LinkFails
    BY <2>3, <2>5 DEF PrepareFails, LinkFails, Exit
  <2>6. CASE BeginIteration
    <3> DEFINE vec == CurrentVector
    <3>1. /\ stage = "iterate" /\ stage' = "layers" /\ layer' = 0 /\ fetched' = {} /\ touched' = {}
          /\ ~r.opts.warm => pages' = {}
          /\ arena' = InputsWritten(arena, vec)
      BY <1>2, <2>2, <2>6 DEF BeginIteration
    <3>2. ~job.streaming /\ Numbered(arena)
      BY <2>1, <3>1 DEF PoolKept
    <3>3. InputsOf(vec) = InputsOf(r.doc) /\ \A x \in Range(vec.inputs) : x.tag.vec \in Nat
      <4> DEFINE vs == r.vectors
                 n == Len(vs)
                 i == iteration
                 k == 1 + (i % n)
      <4>1. Listed(vs, Vectors) /\ Vectors \in Nat /\ Vectors >= 1
        BY <2>3, <3>2, LoweringAssumption DEF Feeding
      <4>2. Len(vs) = Vectors
        BY <4>1, LenListed
      <4> HIDE DEF n, i
      <4>3. k \in 1 .. Vectors
        <5>1. i \in Nat /\ n \in Nat /\ n >= 1 /\ n = Vectors
          BY <1>1, <4>1, <4>2 DEF n, i
        <5>2. i % n \in 0 .. n - 1
          BY ONLY <5>1, SMTT(30)
        <5> QED BY ONLY <5>1, <5>2
      <4>4. vec = vs[k]
        BY <1>2 DEF CurrentVector, n, i
      <4> HIDE DEF k, vec
      <4>5. /\ InputsOf(vs[k]) = Feeds[Len(Nodes)].fed
            /\ \A x \in Range(vs[k].inputs) : x.tag.vec \in Nat
        BY <2>3, <3>2, <4>3 DEF Feeding
      <4>6. InputsOf(r.doc) = Feeds[Len(Nodes)].fed
        BY <2>3, <3>2 DEF Readable
      <4> QED BY <4>4, <4>5, <4>6
    <3> HIDE DEF vec
    <3>4. Numbered(InputsWritten(arena, vec))
      <4>1. PICK n \in Nat : Listed(Doc.inputs, n)
        BY <1>2, <2>3, <3>2 DEF Readable
      <4>2. InputsOf(vec) = InputsOf(Doc)
        BY <1>2, <3>3
      <4> QED BY <3>2, <3>3, <4>1, <4>2, WrittenNumbered
    <3>5. Numbered(arena')
      BY <3>1, <3>4
    <3>6. Numbered(arena)'
      BY <3>5 DEF Numbered
    <3> QED BY <1>4, <3>1, <3>2, <3>6 DEF PoolKept
  <2>7. CASE RunOneLayer
    <3> DEFINE L == Doc.layers[layer + 1]
    <3>1. /\ stage = "layers" /\ stage' = "layers" /\ layer < Len(Doc.layers) /\ layer' = layer + 1
          /\ arena' = RunLayer(L, ddr2, arena) /\ ReadWindow(LayerReads(L, arena))
      BY <2>2, <2>7 DEF RunOneLayer
    <3>2. ~job.streaming /\ Numbered(arena) /\ layer \in Nat
      BY <2>1, <3>1 DEF PoolKept
    <3>3. Within(L, r.doc.layoutend) /\ r.doc.layoutend \in Nat
      <4>1. PICK n \in Nat : Listed(Doc.layers, n)
        BY <1>2, <2>3, <3>2 DEF Readable
      <4>2. Len(Doc.layers) = n /\ DOMAIN Doc.layers = 1 .. n
        BY <4>1, LenListed
      <4>3. layer + 1 \in 1 .. n
        BY ONLY <3>1, <3>2, <4>1, <4>2
      <4>4. L \in Range(Doc.layers)
        BY <4>2, <4>3 DEF Range
      <4> QED BY <1>2, <2>3, <3>2, <4>4 DEF Readable
    <3> HIDE DEF L
    <3>4. Numbered(RunLayer(L, ddr2, arena))
      BY <3>2, <3>3, LayerNumbered DEF Within
    <3>5. Numbered(arena')
      BY <3>1, <3>4
    <3>6. Numbered(arena)'
      BY <3>5 DEF Numbered
    <3>7. LayerReads(L, arena) \subseteq 0 .. PagesTo(r.doc.layoutend) - 1
      BY <3>2, <3>3, ReadsBelow
    <3>8. ~r.opts.warm => touched' \subseteq pages' /\ pages' \subseteq fetched'
      BY <1>1, <1>7, <2>1, <3>1, <3>2, <3>7, PoolReads DEF PoolKept
    <3> QED BY <1>4, <3>1, <3>2, <3>6, <3>8 DEF PoolKept
  <2>8. CASE ReadOutput
    <3> DEFINE L == Doc.last
    <3>1. /\ stage = "layers" /\ stage' = "compare" /\ arena' = arena
          /\ ReadWindow(PagesOf(L.b, L.n * 4))
      BY <2>8 DEF ReadOutput
    <3>2. ~job.streaming /\ Numbered(arena)
      BY <2>1, <3>1 DEF PoolKept
    <3>3. Within(L, r.doc.layoutend) /\ r.doc.layoutend \in Nat /\ L.kind = "fc"
      BY <1>2, <2>3, <3>2 DEF Readable
    <3> HIDE DEF L
    <3>4. PagesOf(L.b, L.n * 4) \subseteq 0 .. PagesTo(r.doc.layoutend) - 1
      BY <3>3, LastBelow
    <3>5. ~r.opts.warm => touched' \subseteq pages' /\ pages' \subseteq fetched'
      BY <1>1, <1>7, <2>1, <3>1, <3>2, <3>4, PoolReads DEF PoolKept
    <3> QED BY <1>4, <3>1, <3>2, <3>5 DEF PoolKept, Numbered
  <2>9. CASE Compare
    <3>1. /\ stage = "compare" /\ stage' = "iterate" /\ arena' = arena
      BY <2>3, <2>9 DEF Compare, Exit
    <3> QED BY <1>4, <2>1, <3>1 DEF PoolKept, Numbered
  <2> QED BY <1>3, <2>4, <2>5, <2>6, <2>7, <2>8, <2>9
<1> QED BY <1>1, <1>4, <1>5, <1>6, <1>7 DEF Running

LEMMA RunningStep ==
  ASSUME ModelKept, Kept, Running, [Next]_vars
  PROVE  Running'
<1>1. CASE UNCHANGED vars
  <2>1. /\ job' = job /\ model' = model /\ stage' = stage /\ run' = run /\ iteration' = iteration
        /\ arena' = arena /\ layer' = layer /\ touched' = touched /\ pages' = pages
        /\ fetched' = fetched
    BY <1>1 DEF vars, files, runtime
  <2>2. ASSUME NEW r, Held(r) PROVE Held(r)'
    BY <2>1, <2>2, HeldSame
  <2>3. ASSUME NEW r, PoolKept(r) PROVE PoolKept(r)'
    BY <2>1, <2>3 DEF PoolKept, Numbered
  <2> QED BY <2>1, <2>2, <2>3 DEF Running
<1>2. CASE Next /\ stage = "generate"
  BY <1>2, GenerateFirst DEF Generate, Running, Executing
<1>3. CASE Next /\ stage # "generate"
  <2>1. CASE Run /\ stage \in Executing
    BY <2>1, RunGoes
  <2>2. CASE Run /\ stage \notin Executing
    <3>1. Start
      BY <2>2 DEF Run, Prepare, PrepareFails, BeginIteration, RunOneLayer, LinkFails, ReadOutput,
                  Compare, Executing
    <3> QED BY <3>1, RunStarts
  <2>3. CASE Place \/ Baseline \/ Lower
    <3>1. stage' \notin Executing
      <4>1. CASE Lower /\ ~LowerRaise /\ ~Retrain
        BY <4>1 DEF Lower, LowerStart, LowerStep, WriteDoc, WriteImage, WriteVectors, LowerDies,
                    Lowered, Executing
      <4> QED BY <2>3, <4>1, OtherStages DEF Lower
    <3> QED BY <3>1 DEF Running
  <2> QED BY <1>3, <2>1, <2>2, <2>3 DEF Next
<1> QED BY <1>1, <1>2, <1>3

\* A measurement of the cold pool pays for every page it reads (executors.cpp,
\* PoolExecutor): what an iteration has read has been fetched in it, whatever
\* the layers, the rows the inputs ask for and the prefetch.
THEOREM ColdTheorem == Spec => []ColdIsCold
<1> DEFINE Inv == ModelKept /\ LayingOut /\ Kept /\ Running
<1>1. Init => Inv
  BY ModelInit, LayingInit, KeptInit, RunningInit
<1>2. Inv /\ [Next]_vars => Inv'
  BY ModelKeeps, LayingStep, KeptStep, RunningStep
<1>3. Inv => ColdIsCold
  BY DEF Running, PoolKept, ColdIsCold, Executing, Mode
<1> QED BY <1>1, <1>2, <1>3, PTL DEF Spec

=============================================================================
