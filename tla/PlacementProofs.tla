--------------------------- MODULE PlacementProofs ---------------------------
(* What the placement solver promises, for every model, hardware and budget *)
(* that JobsAssumption allows: its table is the best of all plans, the plan  *)
(* it recovers attains the table's minimum, and the manifest's sums are the  *)
(* plan's costs.                                                             *)
(*                                                                           *)
(* Sums over layers and the table itself grow by one layer at a time; facts  *)
(* about them are proved by induction on the number of layers, stated with   *)
(* the set of the numbers that have the fact (Induction below).              *)
EXTENDS Toolchain, SequenceTheorems, WellFoundedInduction, TLAPS

Below == {p \in Nat \X Nat : p[1] < p[2]}

\* The order of the natural numbers is well founded.
LEMMA BelowWellFounded == IsWellFoundedOn(Below, Nat)
  BY NatLessThanWellFounded DEF OpToRel, Below

\* Every set of numbers has a least one.
LEMMA Least ==
  ASSUME NEW S, S \subseteq Nat, S # {}
  PROVE  \E m \in S : \A k \in S : m <= k
<1>1. PICK m \in S : \A k \in S : ~ (<<k, m>> \in Below)
  BY BelowWellFounded, WFMin
<1>2. ASSUME NEW k \in S PROVE m <= k
  <2>1. m \in Nat /\ k \in Nat
    OBVIOUS
  <2>2. ~ (k < m)
    BY <1>1, <2>1 DEF Below
  <2> QED BY <2>1, <2>2
<1> QED BY <1>2

\* A set with 0 and the successor of each number in it has all of them.
LEMMA Induction ==
  ASSUME NEW S, 0 \in S, \A n \in Nat : n \in S => n + 1 \in S
  PROVE  \A n \in Nat : n \in S
<1> SUFFICES ASSUME Nat \ S # {} PROVE FALSE
  OBVIOUS
<1>1. PICK m \in Nat \ S : \A k \in Nat \ S : m <= k
  BY Least
<1>2. m # 0 /\ m - 1 \in Nat /\ m - 1 \in S
  BY <1>1
<1> QED BY <1>2

\* s is what Total computes on the way to f's n-th term.
IsSum(s, f, n) == s = [i \in (1 - 1) .. n |-> IF i < 1 THEN 0 ELSE s[i - 1] + f[i]]

\* Total's recursive function has a value for every length.
LEMMA SumExists ==
  ASSUME NEW f
  PROVE  \A n \in Nat : \E s : IsSum(s, f, n)
<1> DEFINE S == {n \in Nat : \E s : IsSum(s, f, n)}
<1>1. 0 \in S
  <2>1. IsSum([i \in (1 - 1) .. 0 |-> 0], f, 0)
    BY DEF IsSum
  <2> QED BY <2>1
<1>2. ASSUME NEW n \in Nat, n \in S PROVE n + 1 \in S
  <2>1. PICK s : IsSum(s, f, n)
    BY <1>2
  <2> DEFINE t == [i \in (1 - 1) .. n + 1 |-> IF i <= n THEN s[i] ELSE s[n] + f[n + 1]]
  <2>2. ASSUME NEW i \in (1 - 1) .. n + 1
        PROVE  t[i] = IF i < 1 THEN 0 ELSE t[i - 1] + f[i]
    BY <2>1 DEF IsSum
  <2>3. IsSum(t, f, n + 1)
    BY <2>2 DEF IsSum
  <2> QED BY <2>3
<1> HIDE DEF S
<1>3. \A n \in Nat : n \in S
  BY <1>1, <1>2, Induction
<1> QED BY <1>3 DEF S

LEMMA TotalIs ==
  ASSUME NEW f, NEW n \in Nat
  PROVE  \E s : IsSum(s, f, n) /\ Total(f, 1, n) = s[n]
<1> DEFINE s == CHOOSE s : IsSum(s, f, n)
<1>1. IsSum(s, f, n)
  BY SumExists
<1>2. Total(f, 1, n) = s[n]
  BY DEF Total, IsSum
<1> QED BY <1>1, <1>2

\* A sum of n + 1 terms is that of the first n and the last.
LEMMA TotalStep ==
  ASSUME NEW f
  PROVE  /\ Total(f, 1, 0) = 0
         /\ \A n \in Nat : Total(f, 1, n + 1) = Total(f, 1, n) + f[n + 1]
<1>1. Total(f, 1, 0) = 0
  BY TotalIs DEF IsSum
<1>2. ASSUME NEW n \in Nat
      PROVE  Total(f, 1, n + 1) = Total(f, 1, n) + f[n + 1]
  <2>1. PICK s : IsSum(s, f, n) /\ Total(f, 1, n) = s[n]
    BY TotalIs
  <2>2. PICK t : IsSum(t, f, n + 1) /\ Total(f, 1, n + 1) = t[n + 1]
    BY TotalIs
  <2> DEFINE S == {i \in Nat : i <= n => s[i] = t[i]}
  <2>3. 0 \in S
    BY <2>1, <2>2 DEF IsSum
  <2>4. ASSUME NEW i \in Nat, i \in S PROVE i + 1 \in S
    <3>1. SUFFICES ASSUME i + 1 <= n PROVE s[i + 1] = t[i + 1]
      OBVIOUS
    <3>2. s[i + 1] = s[i] + f[i + 1]
      BY <2>1, <3>1 DEF IsSum
    <3>3. t[i + 1] = t[i] + f[i + 1]
      BY <2>2, <3>1 DEF IsSum
    <3> QED BY <2>4, <3>1, <3>2, <3>3
  <2> HIDE DEF S
  <2>5. n \in S
    BY <2>3, <2>4, Induction
  <2>6. t[n + 1] = t[n] + f[n + 1]
    BY <2>2 DEF IsSum
  <2> QED BY <2>1, <2>2, <2>5, <2>6 DEF S
<1> QED BY <1>1, <1>2

\* A sum of numbers is a number.
LEMMA TotalNat ==
  ASSUME NEW f, NEW n \in Nat, \A i \in 1 .. n : f[i] \in Nat
  PROVE  Total(f, 1, n) \in Nat
<1> DEFINE S == {k \in Nat : k <= n => Total(f, 1, k) \in Nat}
<1>1. 0 \in S
  BY TotalStep
<1>2. ASSUME NEW k \in Nat, k \in S PROVE k + 1 \in S
  BY <1>2, TotalStep
<1> HIDE DEF S
<1>3. n \in S
  BY <1>1, <1>2, Induction
<1> QED BY <1>3 DEF S

\* A sum depends on its terms only.
LEMMA TotalSame ==
  ASSUME NEW f, NEW g, NEW n \in Nat, \A i \in 1 .. n : f[i] = g[i]
  PROVE  Total(f, 1, n) = Total(g, 1, n)
<1> DEFINE S == {k \in Nat : k <= n => Total(f, 1, k) = Total(g, 1, k)}
<1>1. 0 \in S
  BY TotalStep
<1>2. ASSUME NEW k \in Nat, k \in S PROVE k + 1 \in S
  BY <1>2, TotalStep
<1> HIDE DEF S
<1>3. n \in S
  BY <1>1, <1>2, Induction
<1> QED BY <1>3 DEF S

\* The sum of sums is the sum of the terms' sums.
LEMMA TotalPlus ==
  ASSUME NEW f, NEW g, NEW h, NEW n \in Nat,
         \A i \in 1 .. n : f[i] \in Nat /\ g[i] \in Nat /\ h[i] = f[i] + g[i]
  PROVE  Total(h, 1, n) = Total(f, 1, n) + Total(g, 1, n)
<1> DEFINE S == {k \in Nat : k <= n => /\ Total(f, 1, k) \in Nat /\ Total(g, 1, k) \in Nat
                                       /\ Total(h, 1, k) = Total(f, 1, k) + Total(g, 1, k)}
<1>1. 0 \in S
  BY TotalStep
<1>2. ASSUME NEW k \in Nat, k \in S PROVE k + 1 \in S
  BY <1>2, TotalStep
<1> HIDE DEF S
<1>3. n \in S
  BY <1>1, <1>2, Induction
<1> QED BY <1>3 DEF S

-----------------------------------------------------------------------------
(***************************************************************************)
(* What a placement problem is made of.                                    *)
(***************************************************************************)
\* The layers of the model the job builds.
Parsed == parse_onnx_graph(Built(job.build), job.batch)

Problem ==
  /\ job \in Jobs /\ hw = job.hw
  /\ layers = Parsed
  /\ bucket = choose_buckets(hw, job.bucket, job.max_states)
  /\ place_cost = PlaceCosts

Costs == Nat \cup {Inf}
Pair(u) == u = <<u[1], u[2]>> /\ u[1] \in Nat /\ u[2] \in Nat

\* What the cost model divides by is positive, so its divisions are numbers.
LEMMA CeilDivNat ==
  ASSUME NEW x \in Nat, NEW y \in Nat \ {0}
  PROVE  CeilDiv(x, y) \in Nat
BY DEF CeilDiv

LEMMA QuotientNat ==
  ASSUME NEW x \in Nat, NEW y \in Nat \ {0}
  PROVE  x \div y \in Nat
OBVIOUS

LEMMA SizesPositive == PageBytes \in Nat \ {0} /\ ChunkBytes \in Nat \ {0}
BY DEF PageBytes, ChunkBytes

\* The square root that splits the table between the memories is positive.
LEMMA RootPositive ==
  ASSUME NEW n \in Nat \ {0}
  PROVE  Root(n) \in Nat \ {0}
<1> DEFINE S == {s \in Nat : s * s > n}
<1>1. n + 1 \in S
  <2>1. \A k \in Nat : (k + 1) * (k + 1) > k
    OBVIOUS
  <2> QED BY <2>1
<1>2. PICK m \in S : \A k \in S : m <= k
  BY <1>1, Least
<1>3. m - 1 \in Nat /\ m - 1 \notin S
  BY <1>2
<1> DEFINE r == m - 1
<1>4. r \in Nat /\ r * r <= n /\ n < (r + 1) * (r + 1)
  BY <1>2, <1>3
<1>5. r \in 0 .. n
  <2>1. r <= r * r
    BY <1>4
  <2> QED BY <1>4, <2>1
<1>6. \E q \in 0 .. n : q * q <= n /\ n < (q + 1) * (q + 1)
  BY <1>4, <1>5
<1>7. /\ Root(n) \in 0 .. n
      /\ n < (Root(n) + 1) * (Root(n) + 1)
  BY <1>6 DEF Root
<1>8. Root(n) # 0
  BY <1>7
<1> QED BY <1>7, <1>8

\* What JobsAssumption says of the problem at hand.
LEMMA Inputs ==
  ASSUME Problem
  PROVE  /\ HardwareOK(hw)
         /\ Len(layers) \in Nat \ {0} /\ DOMAIN layers = 1 .. Len(layers)
         /\ \A i \in 1 .. Len(layers) : LayerOK(layers[i])
         /\ Len(P) \in Nat \ {0} /\ DOMAIN P = 1 .. Len(P)
         /\ \A j \in 1 .. Len(P) : P[j] \in {"gpu", "pool", "fpga"}
<1>1. JobOK(job)
  BY JobsAssumption DEF Problem
<1>2. Range(PLACEMENTS) = {"gpu", "pool", "fpga"}
  BY DEF Range, PLACEMENTS
<1>3. P \in Seq({"gpu", "pool", "fpga"}) \ {<<>>}
  BY <1>1, <1>2 DEF P, JobOK
<1>4. /\ Len(P) \in Nat /\ DOMAIN P = 1 .. Len(P) /\ Len(P) # 0
      /\ \A j \in 1 .. Len(P) : P[j] \in {"gpu", "pool", "fpga"}
  BY <1>3
<1> QED BY <1>1, <1>4 DEF JobOK, Problem, Parsed

\* choose_buckets never chooses a bucket of size 0.
LEMMA BucketsPositive ==
  ASSUME Problem
  PROVE  bucket.host \in Nat \ {0} /\ bucket.fpga \in Nat \ {0}
<1>1. job.bucket \in Nat /\ job.max_states \in Nat \ {0}
  BY JobsAssumption DEF Problem, JobOK
<1>2. hw.host \in Nat /\ hw.ddr2 \in Nat /\ hw.resident \in BOOLEAN
  BY Inputs DEF HardwareOK
<1>3. Root(job.max_states) \in Nat \ {0}
  BY <1>1, RootPositive
<1>4. ASSUME NEW x \in Nat, NEW y \in Nat \ {0}
      PROVE  Larger(PageBytes, CeilDiv(x, y)) \in Nat \ {0}
  BY CeilDivNat DEF Larger, PageBytes
<1> QED
  BY <1>1, <1>2, <1>3, <1>4 DEF Problem, choose_buckets, PageBytes

\* The two memories are counted from 0 without a gap.
LEMMA SlotsAreRanges ==
  ASSUME Problem
  PROVE  \E h \in Nat, f \in Nat : HostSlots = 0 .. h /\ FpgaSlots = 0 .. f
<1>1. hw.host \in Nat /\ hw.ddr2 \in Nat
  BY Inputs DEF HardwareOK
<1>2. buckets(hw.host, bucket.host) \in Nat /\ buckets(hw.ddr2, bucket.fpga) \in Nat
  BY <1>1, BucketsPositive, CeilDivNat DEF buckets
<1>3. {0} = 0 .. 0
  OBVIOUS
<1> QED BY <1>2, <1>3 DEF HostSlots, FpgaSlots

\* A layer uses a whole number of buckets of each memory.
LEMMA UsageTyped ==
  ASSUME Problem, NEW i \in 1 .. Len(layers), NEW j \in DOMAIN P
  PROVE  Pair(usage_shift(i, j))
<1>1. layers[i].weight \in Nat
  BY Inputs DEF LayerOK
<1>2. /\ buckets(layers[i].weight, bucket.host) \in Nat
      /\ buckets(layers[i].weight, bucket.fpga) \in Nat
  BY <1>1, BucketsPositive, CeilDivNat DEF buckets
<1> QED BY <1>2 DEF usage_shift, Pair

\* Every cost of the cost model is a number.
LEMMA LinkTimeNat ==
  ASSUME HardwareOK(hw), NEW n \in Nat, NEW m \in Nat
  PROVE  link_time(hw, n, m) \in Nat
<1>1. hw.rtt \in Nat
  BY DEF HardwareOK
<1>2. m * hw.rtt \in Nat
  BY <1>1
<1> QED BY <1>2 DEF link_time

LEMMA BoundaryTyped ==
  ASSUME Problem, NEW i \in 1 .. Len(layers), NEW p, NEW q
  PROVE  boundary_cost(hw, layers[i], p, q) \in Nat
<1>1. layers[i].output \in Nat /\ HardwareOK(hw)
  BY Inputs DEF LayerOK
<1>2. CeilDiv(layers[i].output, ChunkBytes) \in Nat
  BY <1>1, CeilDivNat, SizesPositive
<1>3. link_time(hw, layers[i].output, CeilDiv(layers[i].output, ChunkBytes)) \in Nat
  BY <1>1, <1>2, LinkTimeNat
<1> QED BY <1>3 DEF boundary_cost, activation_transfer

LEMMA CostsTyped ==
  ASSUME Problem, NEW i \in 1 .. Len(layers)
  PROVE  LET l == layers[i] IN
         /\ gpu_compute(hw, l) \in Nat /\ fpga_compute(hw, l) \in Nat
         /\ pool_weight_fault(hw, l) \in Nat /\ nmc_weight_stream(hw, l) \in Nat
         /\ nmc_dispatch(hw) \in Nat
<1> DEFINE l == layers[i]
<1>1. /\ HardwareOK(hw)
      /\ l.weight \in Nat /\ l.input \in Nat /\ l.output \in Nat /\ flops(l) \in Nat
  BY Inputs DEF LayerOK
<1>2. /\ hw.gpu \in Nat \ {0} /\ hw.fpga \in Nat \ {0} /\ hw.ddr \in Nat \ {0}
      /\ hw.launch \in Nat /\ hw.prefetch \in Nat
  BY <1>1 DEF HardwareOK
<1> HIDE DEF l
<1>3. gpu_compute(hw, l) \in Nat
  <2>1. flops(l) \div hw.gpu \in Nat
    BY <1>1, <1>2, QuotientNat
  <2> QED BY <1>2, <2>1 DEF gpu_compute
<1>4. fpga_compute(hw, l) \in Nat
  <2>1. flops(l) \div hw.fpga \in Nat
    BY <1>1, <1>2, QuotientNat
  <2>2. l.weight \div 4 + l.input \in Nat /\ l.input + 2 * l.output \in Nat
    <3>1. l.weight \div 4 \in Nat
      BY <1>1, QuotientNat, 4 \in Nat \ {0}
    <3>2. \A x, y \in Nat : x + y \in Nat /\ x + 2 * y \in Nat
      OBVIOUS
    <3> QED BY <1>1, <3>1, <3>2
  <2>3. /\ (l.weight \div 4 + l.input) \div hw.ddr \in Nat
        /\ (l.input + 2 * l.output) \div hw.ddr \in Nat
    BY <1>2, <2>2, QuotientNat
  <2> QED BY <2>1, <2>2, <2>3 DEF fpga_compute, Larger
<1>5. pool_weight_fault(hw, l) \in Nat
  <2>1. CeilDiv(l.weight, PageBytes) \in Nat
    BY <1>1, CeilDivNat, SizesPositive
  <2>2. Larger(1, hw.prefetch) \in Nat \ {0}
    BY <1>2 DEF Larger
  <2>3. CeilDiv(CeilDiv(l.weight, PageBytes), Larger(1, hw.prefetch)) \in Nat
    BY <2>1, <2>2, CeilDivNat
  <2> QED BY <1>1, <2>3, LinkTimeNat DEF pool_weight_fault
<1>6. nmc_weight_stream(hw, l) \in Nat
  <2>1. CeilDiv(l.weight, ChunkBytes) \in Nat
    BY <1>1, CeilDivNat, SizesPositive
  <2> QED BY <1>1, <2>1, LinkTimeNat DEF nmc_weight_stream
<1>7. nmc_dispatch(hw) \in Nat
  BY <1>1, LinkTimeNat DEF nmc_dispatch, DispatchBytes
<1> QED BY <1>3, <1>4, <1>5, <1>6, <1>7 DEF l

\* A place costs what the cost model says, or is infeasible.
LEMMA PlaceCostIs ==
  ASSUME Problem, NEW i \in 1 .. Len(layers), NEW j \in DOMAIN P
  PROVE  /\ place_cost[i][j] \in Costs
         /\ place_cost[i][j] # Inf => place_cost[i][j] = placement_cost(hw, layers[i], P[j])
<1>1. place_cost[i][j] = IF Feasible(hw, layers[i], P[j]) THEN placement_cost(hw, layers[i], P[j])
                         ELSE Inf
  BY Inputs DEF Problem, PlaceCosts
<1>2. placement_cost(hw, layers[i], P[j]) \in Nat
  BY CostsTyped, Inputs DEF placement_cost
<1> QED BY <1>1, <1>2 DEF Costs

-----------------------------------------------------------------------------
(***************************************************************************)
(* Plans: what one layer more adds to the cost and to the memory in use.   *)
(***************************************************************************)
\* A plan's first n layers; a plan with one layer more.
First(a, n) == [i \in 1 .. n |-> a[i]]
Extended(a, n, j) == [i \in 1 .. n + 1 |-> IF i <= n THEN a[i] ELSE j]

Charges(a) == [i \in DOMAIN a |-> Charge(a, i)]
Uses(a, k) == [i \in DOMAIN a |-> usage_shift(i, a[i])[k]]

\* What a layer of a feasible plan adds is a number.
LEMMA ChargeTyped ==
  ASSUME Problem, NEW n \in 1 .. Len(layers), NEW a \in Feasibles(n), NEW i \in 1 .. n
  PROVE  /\ Charge(a, i) \in Nat
         /\ usage_shift(i, a[i])[1] \in Nat /\ usage_shift(i, a[i])[2] \in Nat
<1>1. /\ i \in 1 .. Len(layers) /\ a[i] \in DOMAIN P /\ place_cost[i][a[i]] # Inf
      /\ i # 1 => i - 1 \in 1 .. Len(layers)
  BY Inputs DEF Feasibles
<1>2. place_cost[i][a[i]] \in Nat
  BY <1>1, PlaceCostIs DEF Costs
<1>3. i # 1 => boundary_cost(hw, layers[i - 1], P[a[i - 1]], P[a[i]]) \in Nat
  BY <1>1, BoundaryTyped
<1>4. Charge(a, i) \in Nat
  BY <1>2, <1>3 DEF Charge
<1> QED BY <1>1, <1>4, UsageTyped DEF Pair

\* A plan's length is its domain's.
LEMMA LenOfPlan ==
  ASSUME NEW n \in Nat, NEW a, DOMAIN a = 1 .. n
  PROVE  Len(a) = n
BY LenProperties, ElementOfSeq

\* A plan's cost and memory, over its number of layers.
LEMMA PlanTotals ==
  ASSUME NEW n \in Nat, NEW a, DOMAIN a = 1 .. n
  PROVE  /\ CostOf(a) = Total(Charges(a), 1, n)
         /\ UseOf(a) = <<Total(Uses(a, 1), 1, n), Total(Uses(a, 2), 1, n)>>
<1>1. Len(a) = n
  BY LenOfPlan
<1> QED BY <1>1 DEF CostOf, UseOf, Charges, Uses

\* A feasible plan has a cost and a memory use.
LEMMA TotalsTyped ==
  ASSUME Problem, NEW n \in 1 .. Len(layers), NEW a \in Feasibles(n)
  PROVE  CostOf(a) \in Nat /\ Pair(UseOf(a))
<1>1. n \in Nat /\ DOMAIN a = 1 .. n
  BY Inputs DEF Feasibles
<1>2. \A i \in 1 .. n : Charges(a)[i] \in Nat /\ Uses(a, 1)[i] \in Nat /\ Uses(a, 2)[i] \in Nat
  BY <1>1, ChargeTyped DEF Charges, Uses
<1>3. /\ Total(Charges(a), 1, n) \in Nat
      /\ Total(Uses(a, 1), 1, n) \in Nat /\ Total(Uses(a, 2), 1, n) \in Nat
  BY <1>1, <1>2, TotalNat
<1> QED BY <1>1, <1>3, PlanTotals DEF Pair

\* A plan for n + 1 layers is one for n and a placement of the last.
LEMMA PlanSplits ==
  ASSUME Problem, NEW n \in 1 .. Len(layers) - 1, NEW a \in Feasibles(n + 1)
  PROVE  /\ First(a, n) \in Feasibles(n)
         /\ a[n + 1] \in DOMAIN P /\ place_cost[n + 1][a[n + 1]] # Inf
         /\ CostOf(a) = CostOf(First(a, n)) + Charge(a, n + 1)
         /\ UseOf(a)[1] = UseOf(First(a, n))[1] + usage_shift(n + 1, a[n + 1])[1]
         /\ UseOf(a)[2] = UseOf(First(a, n))[2] + usage_shift(n + 1, a[n + 1])[2]
<1> DEFINE b == First(a, n)
<1>1. /\ n \in Nat /\ n + 1 \in Nat /\ n + 1 \in 1 .. Len(layers)
      /\ n \in 1 .. Len(layers)
      /\ DOMAIN a = 1 .. n + 1 /\ DOMAIN b = 1 .. n
  BY Inputs DEF Feasibles, First
<1>2. b \in Feasibles(n) /\ a[n + 1] \in DOMAIN P /\ place_cost[n + 1][a[n + 1]] # Inf
  BY <1>1 DEF Feasibles, First
<1>3. \A i \in 1 .. n : /\ Charges(a)[i] = Charges(b)[i]
                       /\ Uses(a, 1)[i] = Uses(b, 1)[i]
                       /\ Uses(a, 2)[i] = Uses(b, 2)[i]
  BY <1>1 DEF Charges, Uses, Charge, First
<1>4. /\ Charges(a)[n + 1] = Charge(a, n + 1)
      /\ Uses(a, 1)[n + 1] = usage_shift(n + 1, a[n + 1])[1]
      /\ Uses(a, 2)[n + 1] = usage_shift(n + 1, a[n + 1])[2]
  BY <1>1 DEF Charges, Uses
<1>5. /\ Total(Charges(a), 1, n) = Total(Charges(b), 1, n)
      /\ Total(Uses(a, 1), 1, n) = Total(Uses(b, 1), 1, n)
      /\ Total(Uses(a, 2), 1, n) = Total(Uses(b, 2), 1, n)
  BY <1>1, <1>3, TotalSame
<1>6. /\ Total(Charges(a), 1, n + 1) = Total(Charges(a), 1, n) + Charge(a, n + 1)
      /\ Total(Uses(a, 1), 1, n + 1) = Total(Uses(a, 1), 1, n) + usage_shift(n + 1, a[n + 1])[1]
      /\ Total(Uses(a, 2), 1, n + 1) = Total(Uses(a, 2), 1, n) + usage_shift(n + 1, a[n + 1])[2]
  BY <1>1, <1>4, TotalStep
<1>7. /\ CostOf(a) = Total(Charges(a), 1, n + 1) /\ CostOf(b) = Total(Charges(b), 1, n)
      /\ UseOf(a) = <<Total(Uses(a, 1), 1, n + 1), Total(Uses(a, 2), 1, n + 1)>>
      /\ UseOf(b) = <<Total(Uses(b, 1), 1, n), Total(Uses(b, 2), 1, n)>>
  BY <1>1, PlanTotals
<1> QED BY <1>2, <1>5, <1>6, <1>7

\* A plan for n layers and a feasible place for the next make a plan for n + 1.
LEMMA PlanExtends ==
  ASSUME Problem, NEW n \in 1 .. Len(layers) - 1, NEW b \in Feasibles(n),
         NEW j \in DOMAIN P, place_cost[n + 1][j] # Inf
  PROVE  /\ Extended(b, n, j) \in Feasibles(n + 1)
         /\ First(Extended(b, n, j), n) = b
         /\ Extended(b, n, j)[n + 1] = j /\ Extended(b, n, j)[n] = b[n]
<1>1. /\ n \in Nat /\ n + 1 \in Nat /\ DOMAIN b = 1 .. n /\ b \in [1 .. n -> DOMAIN P]
      /\ n \in 1 .. n
  BY Inputs DEF Feasibles
<1>2. Extended(b, n, j) \in Feasibles(n + 1)
  BY <1>1 DEF Feasibles, Extended
<1>3. First(Extended(b, n, j), n) = b
  BY <1>1 DEF First, Extended
<1> QED BY <1>1, <1>2, <1>3 DEF Extended

-----------------------------------------------------------------------------
(***************************************************************************)
(* The table.  Cell c stands for the plans that end there; v is the best   *)
(* cost of those for n layers.                                             *)
(***************************************************************************)
Ends(a, n, c) == a[n] = c[1] /\ UseOf(a) = <<c[2], c[3]>>

Best(n, c, v) ==
  /\ v \in Costs
  /\ v = Inf => \A a \in Feasibles(n) : ~Ends(a, n, c)
  /\ v # Inf => /\ \E a \in Feasibles(n) : Ends(a, n, c) /\ CostOf(a) = v
                /\ \A a \in Feasibles(n) : Ends(a, n, c) => v <= CostOf(a)

\* Of some costs there is a first of the cheapest.
LEMMA FirstCheapest ==
  ASSUME NEW m \in Nat \ {0}, NEW v, \A k \in 1 .. m : v[k] \in Costs
  PROVE  \E j \in 1 .. m : \A k \in 1 .. m :
           IF k < j THEN Cheaper(v[j], v[k]) ELSE ~Cheaper(v[k], v[j])
<1>1. CASE \A k \in 1 .. m : v[k] = Inf
  <2>1. 1 \in 1 .. m /\ \A k \in 1 .. m : ~(k < 1)
    OBVIOUS
  <2> QED BY <1>1, <2>1 DEF Cheaper
<1>2. CASE ~ \A k \in 1 .. m : v[k] = Inf
  <2> DEFINE S == {v[k] : k \in {i \in 1 .. m : v[i] # Inf}}
  <2>1. S \subseteq Nat /\ S # {}
    BY <1>2 DEF Costs
  <2>2. PICK x \in S : \A y \in S : x <= y
    BY <2>1, Least
  <2>3. x \in Nat /\ \A k \in 1 .. m : v[k] # Inf => v[k] \in Nat /\ x <= v[k]
    BY <2>1, <2>2
  <2> DEFINE T == {k \in 1 .. m : v[k] = x}
  <2>4. T \subseteq Nat /\ T # {}
    BY <2>2
  <2>5. PICK j \in T : \A k \in T : j <= k
    BY <2>4, Least
  <2>6. j \in 1 .. m /\ v[j] = x /\ x # Inf
    BY <2>3, <2>5 DEF Inf
  <2>7. ASSUME NEW k \in 1 .. m
        PROVE  IF k < j THEN Cheaper(v[j], v[k]) ELSE ~Cheaper(v[k], v[j])
    <3>1. k < j => v[k] # x
      BY <2>5, <2>6
    <3> QED BY <2>3, <2>6, <3>1 DEF Cheaper
  <2> QED BY <2>6, <2>7
<1> QED BY <1>1, <1>2

\* A cell is a placement and a number of buckets of each memory.
LEMMA CellTyped ==
  ASSUME Problem, NEW c \in Cells
  PROVE  /\ c = <<c[1], c[2], c[3]>> /\ c[1] \in DOMAIN P
         /\ c[2] \in HostSlots /\ c[3] \in FpgaSlots
         /\ c[2] \in Nat /\ c[3] \in Nat
BY SlotsAreRanges DEF Cells

\* Where a layer's memory fits in a cell, the cell before it is in the table.
LEMMA BeforeTyped ==
  ASSUME Problem, NEW i \in 1 .. Len(layers), NEW c \in Cells, NEW j \in DOMAIN P
  PROVE  LET b == Before(i, c, j) IN
         /\ b = <<j, b[2], b[3]>> /\ b[2] \in Int /\ b[3] \in Int
         /\ c[2] = b[2] + usage_shift(i, c[1])[1]
         /\ c[3] = b[3] + usage_shift(i, c[1])[2]
         /\ b[2] >= 0 /\ b[3] >= 0 => b \in Cells
<1> DEFINE b == Before(i, c, j)
<1>1. PICK h \in Nat, f \in Nat : HostSlots = 0 .. h /\ FpgaSlots = 0 .. f
  BY SlotsAreRanges
<1>2. /\ c[1] \in DOMAIN P /\ c[2] \in 0 .. h /\ c[3] \in 0 .. f
  BY <1>1, CellTyped
<1>3. usage_shift(i, c[1])[1] \in Nat /\ usage_shift(i, c[1])[2] \in Nat
  BY <1>2, UsageTyped DEF Pair
<1>4. /\ b = <<j, b[2], b[3]>>
      /\ b[2] = c[2] - usage_shift(i, c[1])[1] /\ b[3] = c[3] - usage_shift(i, c[1])[2]
  BY DEF Before
<1>5. /\ b[2] \in Int /\ b[3] \in Int
      /\ c[2] = b[2] + usage_shift(i, c[1])[1]
      /\ c[3] = b[3] + usage_shift(i, c[1])[2]
  <2>1. \A x, u \in Nat : x - u \in Int /\ x = (x - u) + u
    OBVIOUS
  <2>2. c[2] \in Nat /\ c[3] \in Nat
    BY <1>2
  <2> HIDE DEF b
  <2> QED BY <1>3, <1>4, <2>1, <2>2
<1>6. ASSUME b[2] >= 0, b[3] >= 0 PROVE b \in Cells
  <2> HIDE DEF b
  <2>1. \A m, u \in Nat, x \in Int : x >= 0 /\ x + u \in 0 .. m => x \in 0 .. m
    OBVIOUS
  <2>2. b[2] \in 0 .. h /\ b[3] \in 0 .. f
    BY <1>2, <1>3, <1>5, <1>6, <2>1
  <2> QED BY <1>1, <1>4, <2>2 DEF Cells
<1> QED BY <1>4, <1>5, <1>6

\* A sum of costs is infinite when one of them is.
LEMMA PlusOfCosts ==
  ASSUME NEW x \in Costs, NEW y \in Costs, NEW z \in Nat
  PROVE  LET sum == Plus(Plus(x, y), z) IN
         /\ sum \in Costs
         /\ sum # Inf <=> x # Inf /\ y # Inf
         /\ sum # Inf => sum = x + (y + z)
BY DEF Costs, Plus, Inf

\* A candidate is infinite unless the cell before is in the table and both are
\* feasible, and then it adds the layer's cost and the transfer to that cell's.
LEMMA CandidateTyped ==
  ASSUME Problem, NEW n \in 1 .. Len(layers) - 1, NEW c \in Cells, NEW j \in DOMAIN P,
         \A d \in Cells : dp[d] \in Costs
  PROVE  LET b == Before(n + 1, c, j) IN
         /\ Candidate(n + 1, c, j) \in Costs
         /\ Candidate(n + 1, c, j) # Inf <=>
               /\ b \in Cells /\ dp[b] # Inf /\ place_cost[n + 1][c[1]] # Inf
         /\ Candidate(n + 1, c, j) # Inf =>
               Candidate(n + 1, c, j) =
                 dp[b] + (place_cost[n + 1][c[1]]
                            + boundary_cost(hw, layers[n], P[j], P[c[1]]))
<1> DEFINE b == Before(n + 1, c, j)
<1>1. /\ n + 1 \in 1 .. Len(layers) /\ n \in 1 .. Len(layers) /\ (n + 1) - 1 = n
      /\ c[1] \in DOMAIN P
  BY Inputs, CellTyped
<1>2. /\ boundary_cost(hw, layers[n], P[j], P[c[1]]) \in Nat
      /\ place_cost[n + 1][c[1]] \in Costs
  BY <1>1, BoundaryTyped, PlaceCostIs
<1>3. b[2] >= 0 /\ b[3] >= 0 <=> b \in Cells
  <2>1. b \in Cells => b[2] \in Nat /\ b[3] \in Nat
    BY CellTyped
  <2>2. b[2] >= 0 /\ b[3] >= 0 => b \in Cells
    BY <1>1, BeforeTyped
  <2> QED BY <2>1, <2>2
<1> HIDE DEF b
<1>4. Candidate(n + 1, c, j) =
        IF b \in Cells
        THEN Plus(Plus(dp[b], place_cost[n + 1][c[1]]),
                  boundary_cost(hw, layers[n], P[j], P[c[1]]))
        ELSE Inf
  BY <1>1, <1>3 DEF Candidate, b
<1>5. CASE b \notin Cells
  BY <1>4, <1>5 DEF Costs, b
<1>6. CASE b \in Cells
  <2>1. dp[b] \in Costs
    BY <1>6
  <2>2. /\ place_cost[n + 1][c[1]] \in Costs
        /\ boundary_cost(hw, layers[n], P[j], P[c[1]]) \in Nat
    BY <1>2
  <2>3. Candidate(n + 1, c, j) = Plus(Plus(dp[b], place_cost[n + 1][c[1]]),
                                      boundary_cost(hw, layers[n], P[j], P[c[1]]))
    BY <1>4, <1>6
  <2>4. LET sum == Plus(Plus(dp[b], place_cost[n + 1][c[1]]),
                        boundary_cost(hw, layers[n], P[j], P[c[1]]))
        IN /\ sum \in Costs
           /\ sum # Inf <=> dp[b] # Inf /\ place_cost[n + 1][c[1]] # Inf
           /\ sum # Inf => sum = dp[b] + (place_cost[n + 1][c[1]]
                                  + boundary_cost(hw, layers[n], P[j], P[c[1]]))
    BY ONLY <2>1, <2>2, PlusOfCosts
  <2> QED BY <1>6, <2>3, <2>4 DEF b
<1> QED BY <1>5, <1>6

\* The first layer.
LEMMA FirstIsBest ==
  ASSUME Problem, NEW c \in Cells
  PROVE  Best(1, c, FirstLayer(c))
<1>1. 1 \in 1 .. Len(layers) /\ c[1] \in DOMAIN P /\ c[2] \in Nat /\ c[3] \in Nat
  BY Inputs, CellTyped
<1>2. Pair(usage_shift(1, c[1])) /\ place_cost[1][c[1]] \in Costs
  BY <1>1, UsageTyped, PlaceCostIs
<1>3. ASSUME NEW a \in Feasibles(1)
      PROVE  /\ a[1] \in DOMAIN P /\ place_cost[1][a[1]] # Inf
             /\ CostOf(a) = place_cost[1][a[1]]
             /\ UseOf(a) = usage_shift(1, a[1])
  <2>1. DOMAIN a = 1 .. 1 /\ a[1] \in DOMAIN P /\ place_cost[1][a[1]] # Inf
    BY DEF Feasibles
  <2>2. /\ Charges(a)[1] = place_cost[1][a[1]] + 0
        /\ Uses(a, 1)[1] = usage_shift(1, a[1])[1] /\ Uses(a, 2)[1] = usage_shift(1, a[1])[2]
    BY <2>1 DEF Charges, Uses, Charge
  <2>3. place_cost[1][a[1]] \in Nat /\ Pair(usage_shift(1, a[1]))
    BY <1>1, <2>1, PlaceCostIs, UsageTyped DEF Costs
  <2>4. \A f : Total(f, 1, 1) = 0 + f[1]
    BY TotalStep, 0 \in Nat, 0 + 1 = 1
  <2>5. /\ CostOf(a) = 0 + Charges(a)[1]
        /\ UseOf(a) = <<0 + Uses(a, 1)[1], 0 + Uses(a, 2)[1]>>
    BY <2>1, <2>4, PlanTotals
  <2> QED BY <2>1, <2>2, <2>3, <2>5 DEF Pair
<1>4. CASE usage_shift(1, c[1]) = <<c[2], c[3]>> /\ place_cost[1][c[1]] # Inf
  <2> DEFINE a == [i \in 1 .. 1 |-> c[1]]
  <2>1. a \in Feasibles(1) /\ a[1] = c[1]
    BY <1>1, <1>4 DEF Feasibles
  <2>2. Ends(a, 1, c) /\ CostOf(a) = place_cost[1][c[1]]
    BY <1>3, <1>4, <2>1 DEF Ends
  <2>3. \A b \in Feasibles(1) : Ends(b, 1, c) => place_cost[1][c[1]] <= CostOf(b)
    BY <1>2, <1>3, <1>4 DEF Ends, Costs
  <2>4. FirstLayer(c) = place_cost[1][c[1]]
    BY <1>4 DEF FirstLayer
  <2> QED BY <1>2, <1>4, <2>1, <2>2, <2>3, <2>4 DEF Best
<1>5. CASE ~(usage_shift(1, c[1]) = <<c[2], c[3]>> /\ place_cost[1][c[1]] # Inf)
  <2>1. FirstLayer(c) = Inf
    BY <1>5 DEF FirstLayer
  <2>2. \A a \in Feasibles(1) : ~Ends(a, 1, c)
    BY <1>3, <1>5 DEF Ends
  <2> QED BY <2>1, <2>2 DEF Best, Costs
<1> QED BY <1>4, <1>5

\* A plan for n + 1 layers that ends in c costs no less than the candidate that
\* its placement of layer n makes; and a candidate is what some plan costs.
LEMMA CandidateBounds ==
  ASSUME Problem, NEW n \in 1 .. Len(layers) - 1, NEW c \in Cells,
         \A d \in Cells : Best(n, d, dp[d]),
         NEW a \in Feasibles(n + 1), Ends(a, n + 1, c)
  PROVE  /\ a[n] \in DOMAIN P
         /\ Candidate(n + 1, c, a[n]) # Inf
         /\ Candidate(n + 1, c, a[n]) <= CostOf(a)
<1> DEFINE b == First(a, n)
<1> DEFINE d == Before(n + 1, c, a[n])
<1>1. /\ n \in Nat /\ n \in 1 .. Len(layers) /\ n + 1 \in 1 .. Len(layers) /\ (n + 1) - 1 = n
      /\ n + 1 # 1 /\ a[n] \in DOMAIN P /\ b[n] = a[n]
  BY Inputs DEF Feasibles, First
<1>2. /\ b \in Feasibles(n) /\ place_cost[n + 1][c[1]] # Inf
      /\ CostOf(a) = CostOf(b) + Charge(a, n + 1)
      /\ c[2] = UseOf(b)[1] + usage_shift(n + 1, c[1])[1]
      /\ c[3] = UseOf(b)[2] + usage_shift(n + 1, c[1])[2]
  BY PlanSplits DEF Ends
<1>3. CostOf(b) \in Nat /\ Pair(UseOf(b))
  BY <1>1, <1>2, TotalsTyped
<1>4. /\ d = <<a[n], d[2], d[3]>> /\ d[2] \in Int /\ d[3] \in Int
      /\ c[2] = d[2] + usage_shift(n + 1, c[1])[1]
      /\ c[3] = d[3] + usage_shift(n + 1, c[1])[2]
      /\ d[2] >= 0 /\ d[3] >= 0 => d \in Cells
  BY <1>1, BeforeTyped
<1>5. usage_shift(n + 1, c[1])[1] \in Nat /\ usage_shift(n + 1, c[1])[2] \in Nat
  BY <1>1, CellTyped, UsageTyped DEF Pair
<1> HIDE DEF b, d
<1>6. d[2] = UseOf(b)[1] /\ d[3] = UseOf(b)[2]
  <2>1. \A x \in Int, y \in Nat, u \in Nat : x + u = y + u => x = y
    OBVIOUS
  <2>2. /\ UseOf(b)[1] \in Nat /\ UseOf(b)[2] \in Nat
        /\ d[2] + usage_shift(n + 1, c[1])[1] = UseOf(b)[1] + usage_shift(n + 1, c[1])[1]
        /\ d[3] + usage_shift(n + 1, c[1])[2] = UseOf(b)[2] + usage_shift(n + 1, c[1])[2]
    BY <1>2, <1>3, <1>4 DEF Pair
  <2> QED BY <1>4, <1>5, <2>1, <2>2
<1>7. d \in Cells
  BY <1>3, <1>4, <1>6 DEF Pair
<1>8. Ends(b, n, d)
  BY <1>1, <1>3, <1>4, <1>6 DEF Ends, Pair
<1>9. dp[d] # Inf /\ dp[d] \in Nat /\ dp[d] <= CostOf(b)
  BY <1>2, <1>7, <1>8 DEF Best, Costs
<1>10. \A e \in Cells : dp[e] \in Costs
  BY DEF Best
<1>11. /\ Candidate(n + 1, c, a[n]) # Inf
       /\ Candidate(n + 1, c, a[n]) =
             dp[d] + (place_cost[n + 1][c[1]] + boundary_cost(hw, layers[n], P[a[n]], P[c[1]]))
  BY <1>1, <1>2, <1>7, <1>9, <1>10, CandidateTyped DEF d
<1>12. Charge(a, n + 1) =
         place_cost[n + 1][c[1]] + boundary_cost(hw, layers[n], P[a[n]], P[c[1]])
  BY <1>1 DEF Charge, Ends
<1>13. Charge(a, n + 1) \in Nat
  <2>1. n + 1 \in 1 .. n + 1
    BY <1>1
  <2> QED BY <1>1, <2>1, ChargeTyped
<1>14. \A x, y, z \in Nat : x <= y => x + z <= y + z
  OBVIOUS
<1> QED BY <1>1, <1>2, <1>3, <1>9, <1>11, <1>12, <1>13, <1>14

\* A candidate is what some plan costs.
LEMMA CandidateAttained ==
  ASSUME Problem, NEW n \in 1 .. Len(layers) - 1, NEW c \in Cells, NEW j \in DOMAIN P,
         \A d \in Cells : dp[d] \in Costs,
         Candidate(n + 1, c, j) # Inf,
         NEW b \in Feasibles(n), Ends(b, n, Before(n + 1, c, j)),
         CostOf(b) = dp[Before(n + 1, c, j)]
  PROVE  LET a == Extended(b, n, c[1]) IN
         /\ a \in Feasibles(n + 1) /\ Ends(a, n + 1, c)
         /\ CostOf(a) = Candidate(n + 1, c, j)
<1> DEFINE a == Extended(b, n, c[1])
<1> DEFINE d == Before(n + 1, c, j)
<1>1. /\ n \in Nat /\ n + 1 \in 1 .. Len(layers) /\ (n + 1) - 1 = n /\ n + 1 # 1
      /\ n \in 1 .. Len(layers) /\ c[1] \in DOMAIN P
      /\ c = <<c[1], c[2], c[3]>> /\ c[2] \in Nat /\ c[3] \in Nat
  BY Inputs, CellTyped
<1>2. /\ d \in Cells /\ place_cost[n + 1][c[1]] # Inf
      /\ Candidate(n + 1, c, j) =
           dp[d] + (place_cost[n + 1][c[1]] + boundary_cost(hw, layers[n], P[j], P[c[1]]))
  BY CandidateTyped
<1>3. /\ d = <<j, d[2], d[3]>>
      /\ c[2] = d[2] + usage_shift(n + 1, c[1])[1]
      /\ c[3] = d[3] + usage_shift(n + 1, c[1])[2]
  BY <1>1, BeforeTyped
<1>4. b[n] = d[1] /\ UseOf(b) = <<d[2], d[3]>>
  BY DEF Ends
<1>5. /\ a \in Feasibles(n + 1) /\ First(a, n) = b
      /\ a[n + 1] = c[1] /\ a[n] = b[n]
  BY <1>1, <1>2, PlanExtends
<1> HIDE DEF a, d
<1>6. /\ CostOf(a) = CostOf(b) + Charge(a, n + 1)
      /\ UseOf(a)[1] = UseOf(b)[1] + usage_shift(n + 1, c[1])[1]
      /\ UseOf(a)[2] = UseOf(b)[2] + usage_shift(n + 1, c[1])[2]
  BY <1>5, PlanSplits
<1>7. Charge(a, n + 1) =
        place_cost[n + 1][c[1]] + boundary_cost(hw, layers[n], P[j], P[c[1]])
  BY <1>1, <1>3, <1>4, <1>5 DEF Charge
<1>8. Pair(UseOf(a))
  BY <1>1, <1>5, TotalsTyped
<1>9. UseOf(a) = <<c[2], c[3]>>
  BY <1>3, <1>4, <1>6, <1>8 DEF Pair
<1>10. CostOf(a) = Candidate(n + 1, c, j)
  BY <1>2, <1>6, <1>7 DEF d
<1> QED BY <1>5, <1>9, <1>10 DEF a, Ends

\* The solver's choice is one of the placements, and none is cheaper.
LEMMA FirstBestIs ==
  ASSUME Problem, NEW n \in 1 .. Len(layers) - 1, NEW c \in Cells,
         \A d \in Cells : dp[d] \in Costs
  PROVE  /\ FirstBest(n + 1, c) \in DOMAIN P
         /\ \A k \in DOMAIN P :
              ~Cheaper(Candidate(n + 1, c, k), Candidate(n + 1, c, FirstBest(n + 1, c)))
<1>1. Len(P) \in Nat \ {0} /\ DOMAIN P = 1 .. Len(P)
  BY Inputs
<1> DEFINE v == [k \in 1 .. Len(P) |-> Candidate(n + 1, c, k)]
<1>2. \A k \in 1 .. Len(P) : v[k] \in Costs
  BY <1>1, CandidateTyped
<1> HIDE DEF v
<1>3. PICK j \in 1 .. Len(P) : \A k \in 1 .. Len(P) :
             IF k < j THEN Cheaper(v[j], v[k]) ELSE ~Cheaper(v[k], v[j])
  BY <1>1, <1>2, FirstCheapest
<1>4. \A k \in 1 .. Len(P) : v[k] = Candidate(n + 1, c, k)
  BY DEF v
<1>5. j \in DOMAIN P /\ \A k \in DOMAIN P :
        IF k < j THEN Cheaper(Candidate(n + 1, c, j), Candidate(n + 1, c, k))
                 ELSE ~Cheaper(Candidate(n + 1, c, k), Candidate(n + 1, c, j))
  BY <1>1, <1>3, <1>4
<1> DEFINE F == FirstBest(n + 1, c)
<1>6. F \in DOMAIN P /\ \A k \in DOMAIN P :
        IF k < F THEN Cheaper(Candidate(n + 1, c, F), Candidate(n + 1, c, k))
                 ELSE ~Cheaper(Candidate(n + 1, c, k), Candidate(n + 1, c, F))
  BY <1>5 DEF FirstBest
<1> HIDE DEF F
<1>7. \A k \in DOMAIN P : Candidate(n + 1, c, k) \in Costs
  BY CandidateTyped
<1>8. ASSUME NEW x \in Costs, NEW y \in Costs, Cheaper(x, y) PROVE ~Cheaper(y, x)
  BY <1>8 DEF Cheaper, Costs
<1>9. \A k \in DOMAIN P : ~Cheaper(Candidate(n + 1, c, k), Candidate(n + 1, c, F))
  BY <1>6, <1>7, <1>8
<1> QED BY <1>6, <1>9 DEF F

\* A layer more.
LEMMA NextIsBest ==
  ASSUME Problem, NEW n \in 1 .. Len(layers) - 1, NEW c \in Cells,
         \A d \in Cells : Best(n, d, dp[d])
  PROVE  Best(n + 1, c, Candidate(n + 1, c, FirstBest(n + 1, c)))
<1> DEFINE j == FirstBest(n + 1, c)
<1> DEFINE v == Candidate(n + 1, c, j)
<1>1. \A d \in Cells : dp[d] \in Costs
  BY DEF Best
<1>2. j \in DOMAIN P /\ \A k \in DOMAIN P : ~Cheaper(Candidate(n + 1, c, k), v)
  BY <1>1, FirstBestIs
<1> HIDE DEF j
<1>3. v \in Costs /\ \A k \in DOMAIN P : Candidate(n + 1, c, k) \in Costs
  BY <1>1, <1>2, CandidateTyped
<1>4. ASSUME v = Inf, NEW a \in Feasibles(n + 1) PROVE ~Ends(a, n + 1, c)
  <2>1. SUFFICES ASSUME Ends(a, n + 1, c) PROVE FALSE
    OBVIOUS
  <2>2. a[n] \in DOMAIN P /\ Candidate(n + 1, c, a[n]) # Inf
    BY <2>1, CandidateBounds
  <2>3. Cheaper(Candidate(n + 1, c, a[n]), v)
    BY <1>4, <2>2 DEF Cheaper
  <2> QED BY <1>2, <2>2, <2>3
<1>5. ASSUME v # Inf
      PROVE  /\ \E a \in Feasibles(n + 1) : Ends(a, n + 1, c) /\ CostOf(a) = v
             /\ \A a \in Feasibles(n + 1) : Ends(a, n + 1, c) => v <= CostOf(a)
  <2> DEFINE d == Before(n + 1, c, j)
  <2>1. d \in Cells /\ dp[d] # Inf
    BY <1>1, <1>2, <1>5, CandidateTyped
  <2>2. PICK b \in Feasibles(n) : Ends(b, n, d) /\ CostOf(b) = dp[d]
    BY <2>1 DEF Best
  <2>3. \E a \in Feasibles(n + 1) : Ends(a, n + 1, c) /\ CostOf(a) = v
    BY <1>1, <1>2, <1>5, <2>2, CandidateAttained
  <2>4. ASSUME NEW a \in Feasibles(n + 1), Ends(a, n + 1, c) PROVE v <= CostOf(a)
    <3>1. /\ a[n] \in DOMAIN P /\ Candidate(n + 1, c, a[n]) # Inf
          /\ Candidate(n + 1, c, a[n]) <= CostOf(a)
      BY <2>4, CandidateBounds
    <3>2. CostOf(a) \in Nat
      <4>1. n + 1 \in 1 .. Len(layers)
        BY Inputs
      <4> QED BY <4>1, TotalsTyped
    <3>3. ~Cheaper(Candidate(n + 1, c, a[n]), v)
      BY <1>2, <3>1
    <3> QED BY <1>3, <1>5, <3>1, <3>2, <3>3 DEF Cheaper, Costs
  <2> QED BY <2>3, <2>4
<1> QED BY <1>3, <1>4, <1>5 DEF Best, j

\* The minimum of a set is the element below the others.
LEMMA MinIs ==
  ASSUME NEW S, S \subseteq Int, NEW x \in S, \A y \in S : x <= y
  PROVE  Min(S) = x
<1>1. Min(S) \in S /\ \A y \in S : Min(S) <= y
  BY DEF Min
<1>2. x \in Int /\ Min(S) \in Int /\ x <= Min(S) /\ Min(S) <= x
  BY <1>1
<1> QED BY <1>2

\* A table of best costs is what DpIsBest asks for.
LEMMA TableIsBest ==
  ASSUME Problem, at \in 1 .. Len(layers), \A c \in Cells : Best(at, c, dp[c])
  PROVE  DpIsBest
<1> DEFINE ways == {<<a[at], UseOf(a), CostOf(a)>> : a \in Feasibles(at)}
           Ending(c) == {w[3] : w \in {x \in ways : x[1] = c[1] /\ x[2] = <<c[2], c[3]>>}}
<1>1. ASSUME NEW c \in Cells
      PROVE  Ending(c) = {CostOf(a) : a \in {b \in Feasibles(at) : Ends(b, at, c)}}
  <2>1. ASSUME NEW v \in Ending(c)
        PROVE  \E a \in Feasibles(at) : Ends(a, at, c) /\ v = CostOf(a)
    <3>1. PICK w \in ways : w[1] = c[1] /\ w[2] = <<c[2], c[3]>> /\ v = w[3]
      OBVIOUS
    <3>2. PICK a \in Feasibles(at) : w = <<a[at], UseOf(a), CostOf(a)>>
      OBVIOUS
    <3> QED BY <3>1, <3>2 DEF Ends
  <2>2. ASSUME NEW a \in Feasibles(at), Ends(a, at, c)
        PROVE  CostOf(a) \in Ending(c)
    <3> DEFINE w == <<a[at], UseOf(a), CostOf(a)>>
    <3>1. w \in ways /\ w[1] = c[1] /\ w[2] = <<c[2], c[3]>> /\ w[3] = CostOf(a)
      BY <2>2 DEF Ends
    <3> QED BY <3>1
  <2> HIDE DEF Ending
  <2> QED BY <2>1, <2>2
<1> HIDE DEF Ending
<1>2. ASSUME NEW c \in Cells
      PROVE  dp[c] = IF Ending(c) = {} THEN Inf ELSE Min(Ending(c))
  <2>1. Best(at, c, dp[c])
    OBVIOUS
  <2>2. CASE dp[c] = Inf
    <3>1. Ending(c) = {}
      BY <1>1, <2>1, <2>2 DEF Best
    <3> QED BY <2>2, <3>1
  <2>3. CASE dp[c] # Inf
    <3>1. Ending(c) \subseteq Int
      BY <1>1, TotalsTyped
    <3>2. dp[c] \in Ending(c) /\ \A y \in Ending(c) : dp[c] <= y
      BY <1>1, <2>1, <2>3 DEF Best
    <3>3. Min(Ending(c)) = dp[c]
      BY <3>1, <3>2, MinIs
    <3> QED BY <3>2, <3>3
  <2> QED BY <2>2, <2>3
<1> QED BY <1>2 DEF DpIsBest, Ending

-----------------------------------------------------------------------------
(***************************************************************************)
(* The steps.                                                              *)
(***************************************************************************)
puzzle == <<job, hw, layers, bucket, place_cost>>

\* A step that changes nothing of the problem changes nothing built from it:
LEMMA PuzzleKept ==
  ASSUME UNCHANGED puzzle
  PROVE  /\ P' = P /\ Cells' = Cells
         /\ Problem => Problem'
         /\ \A i, j : usage_shift(i, j)' = usage_shift(i, j)
         /\ \A a, i : Charge(a, i)' = Charge(a, i)
<1>1. job' = job /\ hw' = hw /\ layers' = layers /\ bucket' = bucket /\ place_cost' = place_cost
  BY DEF puzzle
<1>2. P' = P
  BY <1>1 DEF P
<1>3. Cells' = Cells
  BY <1>1, <1>2 DEF Cells, HostSlots, FpgaSlots
<1>4. PlaceCosts' = PlaceCosts
  BY <1>1, <1>2 DEF PlaceCosts
<1>5. Problem => Problem'
  BY <1>1, <1>4 DEF Problem, Parsed
<1>6. \A i, j : usage_shift(i, j)' = usage_shift(i, j)
  BY <1>1, <1>2 DEF usage_shift
<1>7. \A a, i : Charge(a, i)' = Charge(a, i)
  BY <1>1, <1>2 DEF Charge
<1> QED BY <1>2, <1>3, <1>5, <1>6, <1>7

\* neither what a plan costs,
LEMMA PlansKept ==
  ASSUME UNCHANGED puzzle, NEW a
  PROVE  CostOf(a)' = CostOf(a) /\ UseOf(a)' = UseOf(a)
BY PuzzleKept DEF CostOf, UseOf

\* nor what is best.
LEMMA BestKept ==
  ASSUME UNCHANGED puzzle, NEW n, NEW c, NEW v
  PROVE  Best(n, c, v)' <=> Best(n, c, v)
<1>1. Feasibles(n)' = Feasibles(n)
  BY PuzzleKept DEF Feasibles, puzzle
<1>2. \A a : (Ends(a, n, c)' <=> Ends(a, n, c)) /\ CostOf(a)' = CostOf(a)
  BY PlansKept DEF Ends
<1> QED BY <1>1, <1>2 DEF Best

\* The other tools leave the solver alone, do not go back to its stages, and
\* need a manifest to start from.
SolverStages == {"generate", "parse", "partition", "solve", "backtrack"}
LaterStages == {"placed", "lower", "write_image", "write_vectors", "lowered",
                "prepare", "iterate", "layers", "compare"}

LEMMA OthersSteps ==
  ASSUME Lower \/ Run \/ Baseline
  PROVE  /\ job' = job /\ manifest' = manifest
         /\ stage' \in SolverStages => stage = "parse" /\ stage' = "parse" /\ model' = model
         /\ stage' \in LaterStages => stage \in LaterStages
<1>1. CASE Lower
  <2>1. CASE LowerRaise
    BY <2>1 DEF LowerRaise, Errors, Fail, files, SolverStages, LaterStages
  <2>2. CASE LowerStart \/ LowerStep \/ WriteDoc
    BY <2>2 DEF LowerStart, LowerStep, WriteDoc, Lowered, files, SolverStages, LaterStages
  <2>3. CASE WriteImage \/ WriteVectors \/ LowerDies \/ Retrain
    BY <2>3 DEF WriteImage, WriteVectors, LowerDies, Retrain, Lowered, files, SolverStages,
                LaterStages
  <2> QED BY <1>1, <2>1, <2>2, <2>3 DEF Lower
<1>2. CASE Run
  <2>1. CASE Start \/ Prepare \/ PrepareFails \/ BeginIteration
    BY <2>1 DEF Start, Prepare, PrepareFails, BeginIteration, Exit, files, SolverStages,
                LaterStages
  <2>2. CASE RunOneLayer \/ LinkFails \/ ReadOutput \/ Compare
    BY <2>2 DEF RunOneLayer, LinkFails, ReadOutput, Compare, Exit, files, SolverStages,
                LaterStages
  <2> QED BY <1>2, <2>1, <2>2 DEF Run
<1>3. CASE Baseline
  BY <1>3 DEF Baseline, Split, RunPart, DumpWeights, RunSwapped, ProfileNode, ProfileEnd,
              files, SolverStages, LaterStages
<1> QED BY <1>1, <1>2, <1>3

-----------------------------------------------------------------------------
(***************************************************************************)
(* The solver as it goes.                                                  *)
(***************************************************************************)
\* Where the solver is, and what it has by then.
Control ==
  /\ job \in Jobs /\ hw = job.hw
  /\ stage \in {"generate", "parse", "partition"} => at = 0 /\ back = <<>>
  /\ stage = "parse" => model = Built(job.build)
  /\ stage = "partition" => layers = Parsed
  /\ stage = "solve" => /\ Problem /\ at \in 0 .. Len(layers)
                        /\ back \in Seq([Cells -> DOMAIN P]) /\ Len(back) = at

Table == stage = "solve" /\ at > 0 => \A c \in Cells : Best(at, c, dp[c])

Solving == Control /\ Table

\* The table is right at the start, and every step of the solver keeps it so.
LEMMA SolvingInit ==
  ASSUME Init
  PROVE  Solving
BY DEF Init, PlacementInit, Solving, Control, Table

LEMMA SolveStartStep ==
  ASSUME Solving, SolveStart
  PROVE  Solving'
<1>1. /\ job \in Jobs /\ hw = job.hw /\ layers = Parsed /\ at = 0 /\ back = <<>>
      /\ job' = job /\ hw' = hw /\ layers' = layers /\ at' = at /\ back' = back
      /\ bucket' = choose_buckets(hw, job.bucket, job.max_states) /\ place_cost' = PlaceCosts
      /\ stage' = "solve"
  BY DEF Solving, Control, SolveStart
<1>2. P' = P
  BY <1>1 DEF P
<1>3. PlaceCosts' = PlaceCosts
  BY <1>1, <1>2 DEF PlaceCosts
<1>4. Problem'
  BY <1>1, <1>3 DEF Problem, Parsed
<1>5. Len(layers) \in Nat /\ Len(layers') \in Nat
  <2>1. JobOK(job)
    BY <1>1, JobsAssumption
  <2> QED BY <1>1, <2>1 DEF JobOK, Parsed
<1>6. Control'
  BY <1>1, <1>4, <1>5 DEF Control
<1> QED BY <1>1, <1>6 DEF Solving, Table

LEMMA SolveFirstStep ==
  ASSUME Solving, SolveFirst
  PROVE  Solving'
<1>1. /\ stage = "solve" /\ at = 0 /\ Problem /\ stage' = stage /\ at' = 1 /\ UNCHANGED puzzle
      /\ dp' = [c \in Cells |-> FirstLayer(c)] /\ back' = <<[c \in Cells |-> c[1]]>>
  BY DEF Solving, Control, SolveFirst, puzzle
<1>2. /\ P' = P /\ Cells' = Cells /\ Problem' /\ job' = job /\ hw' = hw /\ layers' = layers
  BY <1>1, PuzzleKept DEF puzzle
<1>3. Len(layers) \in Nat \ {0}
  BY <1>1, Inputs
<1>4. [c \in Cells |-> c[1]] \in [Cells -> DOMAIN P]
  BY <1>1, CellTyped
<1>5. back' \in Seq([Cells -> DOMAIN P]) /\ Len(back') = 1
  BY <1>1, <1>4
<1>6. Control'
  BY <1>1, <1>2, <1>3, <1>5 DEF Solving, Control
<1>7. ASSUME NEW c \in Cells PROVE Best(at, c, dp[c])'
  <2>1. Best(1, c, FirstLayer(c))
    BY <1>1, FirstIsBest
  <2>2. dp'[c] = FirstLayer(c)
    BY <1>1
  <2>3. Best(1, c, dp'[c])
    BY <2>1, <2>2
  <2> QED BY <1>1, <2>3, BestKept
<1> QED BY <1>2, <1>6, <1>7 DEF Solving, Table

LEMMA SolveLayerStep ==
  ASSUME Solving, SolveLayer
  PROVE  Solving'
<1> DEFINE best == [c \in Cells |-> FirstBest(at + 1, c)]
<1>1. /\ stage = "solve" /\ Problem /\ stage' = stage /\ at' = at + 1 /\ UNCHANGED puzzle
      /\ at \in 1 .. Len(layers) - 1 /\ at > 0
      /\ dp' = [c \in Cells |-> Candidate(at + 1, c, best[c])] /\ back' = Append(back, best)
      /\ back \in Seq([Cells -> DOMAIN P]) /\ Len(back) = at
      /\ \A c \in Cells : Best(at, c, dp[c])
  BY Inputs DEF Solving, Control, Table, SolveLayer, puzzle
<1>2. /\ P' = P /\ Cells' = Cells /\ Problem' /\ job' = job /\ hw' = hw /\ layers' = layers
  BY <1>1, PuzzleKept DEF puzzle
<1>3. best \in [Cells -> DOMAIN P]
  <2>1. \A d \in Cells : dp[d] \in Costs
    BY <1>1 DEF Best
  <2>2. \A c \in Cells : FirstBest(at + 1, c) \in DOMAIN P
    BY <1>1, <2>1, FirstBestIs
  <2> QED BY <2>2
<1>4. back' \in Seq([Cells -> DOMAIN P]) /\ Len(back') = at'
  BY <1>1, <1>3, AppendProperties
<1>5. Control'
  BY <1>1, <1>2, <1>4, Inputs DEF Solving, Control
<1>6. ASSUME NEW c \in Cells PROVE Best(at, c, dp[c])'
  <2>1. Best(at + 1, c, Candidate(at + 1, c, FirstBest(at + 1, c)))
    BY <1>1, NextIsBest
  <2>2. dp'[c] = Candidate(at + 1, c, FirstBest(at + 1, c))
    BY <1>1
  <2>3. Best(at + 1, c, dp'[c])
    BY <2>1, <2>2
  <2> QED BY <1>1, <2>3, BestKept
<1> QED BY <1>2, <1>5, <1>6 DEF Solving, Table

LEMMA SolvingStep ==
  ASSUME Solving, [Next]_vars
  PROVE  Solving'
<1>1. CASE Generate
  BY <1>1 DEF Generate, Solving, Control, Table, solver, Parsed
<1>2. CASE Parse
  BY <1>2 DEF Parse, Solving, Control, Table, solver, files, Fail, Parsed
<1>3. CASE SolveStart
  BY <1>3, SolveStartStep
<1>4. CASE SolveFirst
  BY <1>4, SolveFirstStep
<1>5. CASE SolveLayer
  BY <1>5, SolveLayerStep
<1>6. CASE SolveEnd
  BY <1>6 DEF SolveEnd, Fail, files, Solving, Control, Table
<1>7. CASE Backtrack
  BY <1>7 DEF Backtrack, Solving, Control, Table
<1>8. CASE WriteManifest
  BY <1>8 DEF WriteManifest, solver, Solving, Control, Table
<1>9. CASE (Lower \/ Run \/ Baseline) /\ UNCHANGED solver
  BY <1>9, OthersSteps DEF solver, SolverStages, Solving, Control, Table, Parsed
<1>10. CASE UNCHANGED vars
  <2>1. UNCHANGED <<job, stage, model, solver, puzzle>>
    BY <1>10 DEF vars, files, solver, puzzle
  <2>2. /\ P' = P /\ Cells' = Cells /\ Parsed' = Parsed /\ (Problem => Problem')
    BY <2>1, PuzzleKept DEF Parsed
  <2>3. \A c : Best(at, c, dp[c]) => Best(at, c, dp[c])'
    BY <2>1, BestKept DEF solver
  <2>4. Control'
    BY <2>1, <2>2 DEF Solving, Control, solver
  <2>5. Table'
    BY <2>1, <2>2, <2>3 DEF Solving, Table, solver
  <2> QED BY <2>4, <2>5 DEF Solving
<1> QED
  BY <1>1, <1>2, <1>3, <1>4, <1>5, <1>6, <1>7, <1>8, <1>9, <1>10 DEF Next, Place

LEMMA SolvingIsBest ==
  ASSUME Solving
  PROVE  DpIsBest
<1> SUFFICES ASSUME stage = "solve", at > 0 PROVE DpIsBest
  BY DEF DpIsBest
<1>1. Problem /\ at \in 1 .. Len(layers)
  BY Inputs DEF Solving, Control
<1> QED BY <1>1, TableIsBest DEF Solving, Table

(***************************************************************************)
(* After every layer, every cell of solver._solve's table holds the cost   *)
(* of the best of all the ways to place the layers so far that end there,  *)
(* for any model, hardware and budget.                                     *)
(***************************************************************************)
THEOREM DpTheorem == Spec => []DpIsBest
<1>1. Init => Solving
  BY SolvingInit
<1>2. Solving /\ [Next]_vars => Solving'
  BY SolvingStep
<1>3. Solving => DpIsBest
  BY SolvingIsBest
<1> QED BY <1>1, <1>2, <1>3, PTL DEF Spec

-----------------------------------------------------------------------------
(***************************************************************************)
(* The way back.  A trail of n cells is what following the table of        *)
(* previous placements from c visits; the placements of its cells are a    *)
(* plan that costs what the table says of c.                               *)
(***************************************************************************)
Tour(q, n) == [i \in 1 .. n |-> q[i][1]]

Trail(q, n, c, v) ==
  /\ q \in [1 .. n -> Cells] /\ q[n] = c
  /\ \A i \in 2 .. n : q[i - 1] = Before(i, q[i], back[i][q[i]])
  /\ Tour(q, n) \in Feasibles(n) /\ Ends(Tour(q, n), n, c) /\ CostOf(Tour(q, n)) = v

\* The table has a first of its cheapest cells.
LEMMA FirstMinimumIs ==
  ASSUME Problem, \A c \in Cells : dp[c] \in Costs
  PROVE  FirstMinimum \in Cells
<1>1. \A c \in Cells : c = <<c[1], c[2], c[3]>> /\ c[1] \in Nat /\ c[2] \in Nat /\ c[3] \in Nat
  BY CellTyped, Inputs
<1>2. Cells # {}
  <2>1. PICK h \in Nat, f \in Nat : HostSlots = 0 .. h /\ FpgaSlots = 0 .. f
    BY SlotsAreRanges
  <2>2. 1 \in DOMAIN P /\ 0 \in HostSlots /\ 0 \in FpgaSlots
    BY <2>1, Inputs
  <2>3. <<1, 0, 0>> \in Cells
    BY <2>2 DEF Cells
  <2> QED BY <2>3
<1>3. PICK x \in Costs : /\ \E c \in Cells : dp[c] = x
                         /\ \A c \in Cells : dp[c] = x \/ Cheaper(x, dp[c])
  <2>1. CASE \A c \in Cells : dp[c] = Inf
    BY <1>2, <2>1 DEF Costs
  <2>2. CASE ~ \A c \in Cells : dp[c] = Inf
    <3> DEFINE S == {dp[c] : c \in {d \in Cells : dp[d] # Inf}}
    <3>1. S \subseteq Nat /\ S # {}
      BY <2>2 DEF Costs
    <3>2. PICK x \in S : \A y \in S : x <= y
      BY <3>1, Least
    <3>3. x \in Nat /\ x # Inf
      BY <3>1 DEF Inf
    <3>4. ASSUME NEW c \in Cells PROVE dp[c] = x \/ Cheaper(x, dp[c])
      <4>1. dp[c] # Inf => dp[c] \in Nat /\ x <= dp[c]
        BY <3>1, <3>2
      <4> QED BY <3>3, <4>1 DEF Cheaper
    <3> QED BY <3>3, <3>4 DEF Costs
  <2> QED BY <2>1, <2>2
<1> DEFINE D == {c \in Cells : dp[c] = x}
<1>4. PICK m1 \in {c[1] : c \in D} : \A k \in {c[1] : c \in D} : m1 <= k
  <2>1. {c[1] : c \in D} # {} /\ {c[1] : c \in D} \subseteq Nat
    BY <1>1, <1>3
  <2> QED BY <2>1, Least
<1> DEFINE E == {c \in D : c[1] = m1}
<1>5. PICK m2 \in {c[2] : c \in E} : \A k \in {c[2] : c \in E} : m2 <= k
  <2>1. {c[2] : c \in E} # {} /\ {c[2] : c \in E} \subseteq Nat
    BY <1>1, <1>4
  <2> QED BY <2>1, Least
<1> DEFINE F == {c \in E : c[2] = m2}
<1>6. PICK m3 \in {c[3] : c \in F} : \A k \in {c[3] : c \in F} : m3 <= k
  <2>1. {c[3] : c \in F} # {} /\ {c[3] : c \in F} \subseteq Nat
    BY <1>1, <1>5
  <2> QED BY <2>1, Least
<1>7. PICK c \in F : c[3] = m3
  BY <1>6
<1>8. c \in Cells /\ dp[c] = x /\ c[1] = m1 /\ c[2] = m2 /\ c[3] = m3
  BY <1>7
<1>9. ASSUME NEW d \in Cells \ {c}, dp[d] = x PROVE Earlier(c, d)
  <2>1. c[1] \in Nat /\ d[1] \in Nat /\ c[1] <= d[1]
    BY <1>1, <1>4, <1>8, <1>9
  <2>2. d[1] = c[1] => c[2] \in Nat /\ d[2] \in Nat /\ c[2] <= d[2]
    BY <1>1, <1>5, <1>8, <1>9
  <2>3. d[1] = c[1] /\ d[2] = c[2] => c[3] \in Nat /\ d[3] \in Nat /\ c[3] <= d[3]
    BY <1>1, <1>6, <1>8, <1>9
  <2>4. ~(d[1] = c[1] /\ d[2] = c[2] /\ d[3] = c[3])
    BY <1>1, <1>8
  <2> QED BY <2>1, <2>2, <2>3, <2>4 DEF Earlier
<1>10. \A d \in Cells \ {c} : Cheaper(dp[c], dp[d]) \/ (dp[c] = dp[d] /\ Earlier(c, d))
  BY <1>3, <1>8, <1>9
<1> QED BY <1>8, <1>10 DEF FirstMinimum

\* The trail of one layer.
LEMMA FirstTrail ==
  ASSUME Problem, NEW c \in Cells, FirstLayer(c) # Inf
  PROVE  LET q == [i \in 1 .. 1 |-> c] IN
         /\ q \in [1 .. 1 -> Cells] /\ q[1] = c
         /\ Tour(q, 1) \in Feasibles(1) /\ Ends(Tour(q, 1), 1, c)
         /\ CostOf(Tour(q, 1)) = FirstLayer(c)
<1> DEFINE q == [i \in 1 .. 1 |-> c]
<1>1. PICK a \in Feasibles(1) : Ends(a, 1, c) /\ CostOf(a) = FirstLayer(c)
  BY FirstIsBest DEF Best
<1>2. a \in [1 .. 1 -> DOMAIN P] /\ a[1] = c[1]
  BY <1>1 DEF Feasibles, Ends
<1>3. q \in [1 .. 1 -> Cells] /\ q[1] = c /\ Tour(q, 1) = a
  BY <1>2 DEF Tour
<1> QED BY <1>1, <1>3

\* The trail of a layer more.
LEMMA NextTrail ==
  ASSUME Problem, NEW n \in 1 .. Len(layers) - 1, NEW c \in Cells,
         \A d \in Cells : dp[d] \in Costs,
         Candidate(n + 1, c, FirstBest(n + 1, c)) # Inf,
         \A d \in Cells : dp[d] # Inf => \E q : Trail(q, n, d, dp[d])
  PROVE  \E q, r :
           LET d == Before(n + 1, c, FirstBest(n + 1, c)) IN
           /\ Trail(q, n, d, dp[d])
           /\ r = [i \in 1 .. n + 1 |-> IF i <= n THEN q[i] ELSE c]
           /\ r \in [1 .. n + 1 -> Cells] /\ r[n + 1] = c
           /\ Tour(r, n + 1) \in Feasibles(n + 1) /\ Ends(Tour(r, n + 1), n + 1, c)
           /\ CostOf(Tour(r, n + 1)) = Candidate(n + 1, c, FirstBest(n + 1, c))
<1> DEFINE j == FirstBest(n + 1, c)
<1> DEFINE d == Before(n + 1, c, j)
<1>1. j \in DOMAIN P /\ n \in Nat
  BY FirstBestIs, Inputs
<1>2. d \in Cells /\ dp[d] # Inf
  BY <1>1, CandidateTyped
<1>3. PICK q : Trail(q, n, d, dp[d])
  BY <1>2
<1> DEFINE r == [i \in 1 .. n + 1 |-> IF i <= n THEN q[i] ELSE c]
<1>4. r \in [1 .. n + 1 -> Cells] /\ r[n + 1] = c
  BY <1>1, <1>3 DEF Trail
<1> HIDE DEF j, d
<1>5. LET a == Extended(Tour(q, n), n, c[1]) IN
      a \in Feasibles(n + 1) /\ Ends(a, n + 1, c) /\ CostOf(a) = Candidate(n + 1, c, j)
  BY <1>1, <1>3, CandidateAttained DEF Trail, j, d
<1>6. Tour(r, n + 1) = Extended(Tour(q, n), n, c[1])
  BY <1>1, <1>3 DEF Tour, Extended, Trail
<1> QED BY <1>3, <1>4, <1>5, <1>6 DEF j, d

\* A trail stays one while the problem and the table of ways back do.
LEMMA TrailKept ==
  ASSUME UNCHANGED puzzle, back' = back, NEW q, NEW n, NEW c, NEW v
  PROVE  Trail(q, n, c, v)' <=> Trail(q, n, c, v)
<1> DEFINE a == Tour(q, n)
<1>1. Cells' = Cells /\ Feasibles(n)' = Feasibles(n)
  BY PuzzleKept DEF Feasibles, puzzle
<1>2. CostOf(a)' = CostOf(a) /\ (Ends(a, n, c)' <=> Ends(a, n, c))
  BY PlansKept DEF Ends
<1>3. \A i, u, j : Before(i, u, j)' = Before(i, u, j)
  BY PuzzleKept DEF Before
<1> QED BY <1>1, <1>2, <1>3 DEF Trail

\* So does the cell the way back starts from.
LEMMA FirstMinimumKept ==
  ASSUME UNCHANGED puzzle, dp' = dp
  PROVE  FirstMinimum' = FirstMinimum
BY PuzzleKept DEF FirstMinimum

\* The plan so far is the end of the trail of the table's first minimum.
Suffix(q) ==
  /\ \A i \in 1 .. Len(plan) : plan[i] = q[(Len(layers) - Len(plan)) + i][1]
  /\ Len(plan) < Len(layers) => cursor = q[Len(layers) - Len(plan)]

Planned ==
  /\ Problem /\ FirstMinimum \in Cells
  /\ plan \in Seq(DOMAIN P) /\ Len(plan) \in 0 .. Len(layers)
  /\ \E q : Trail(q, Len(layers), FirstMinimum, dp[FirstMinimum]) /\ Suffix(q)

Trails == stage = "solve" /\ at > 0 =>
            \A c \in Cells : dp[c] # Inf => \E q : Trail(q, at, c, dp[c])

Way ==
  /\ Trails
  /\ stage = "backtrack" \/ manifest # <<>> => Planned
  /\ manifest # <<>> => /\ Len(plan) = Len(layers) /\ ZeroOutputs = {}
                        /\ manifest = generate_manifest
  /\ stage \in SolverStages => manifest = <<>>
  /\ stage \in LaterStages => manifest # <<>>

\* Every step keeps the trails, and the plan on one of them.
LEMMA WayInit ==
  ASSUME Init
  PROVE  Way
BY DEF Init, PlacementInit, Way, Trails, SolverStages, LaterStages

\* The first layer's trails are its cells.
LEMMA SolveFirstWay ==
  ASSUME Solving, Way, SolveFirst
  PROVE  Way'
<1>1. /\ stage = "solve" /\ Problem /\ stage' = stage /\ at' = 1 /\ UNCHANGED puzzle
      /\ dp' = [c \in Cells |-> FirstLayer(c)] /\ back' = <<[c \in Cells |-> c[1]]>>
      /\ manifest' = manifest
  BY DEF Solving, Control, SolveFirst, puzzle, files
<1>2. Cells' = Cells /\ Feasibles(1)' = Feasibles(1)
  BY <1>1, PuzzleKept DEF Feasibles, puzzle
<1>3. ASSUME NEW c \in Cells, dp'[c] # Inf PROVE \E q : Trail(q, at, c, dp[c])'
  <2> DEFINE q == [i \in 1 .. 1 |-> c]
  <2>1. dp'[c] = FirstLayer(c)
    BY <1>1
  <2>2. /\ q \in [1 .. 1 -> Cells] /\ q[1] = c
        /\ Tour(q, 1) \in Feasibles(1) /\ Ends(Tour(q, 1), 1, c)
        /\ CostOf(Tour(q, 1)) = dp'[c]
    BY <1>1, <1>3, <2>1, FirstTrail
  <2> HIDE DEF q
  <2>3. /\ CostOf(Tour(q, 1))' = dp'[c] /\ Ends(Tour(q, 1), 1, c)'
    BY <1>1, <2>2, PlansKept DEF Ends
  <2>4. \A i \in 2 .. 1 : FALSE
    OBVIOUS
  <2>5. Trail(q, at, c, dp[c])'
    BY <1>1, <1>2, <2>2, <2>3, <2>4 DEF Trail
  <2> QED BY <2>5
<1>4. Trails'
  BY <1>2, <1>3 DEF Trails
<1> QED BY <1>1, <1>4 DEF Way, SolverStages, LaterStages

\* A layer more makes every trail a cell longer.
LEMMA SolveLayerWay ==
  ASSUME Solving, Way, SolveLayer
  PROVE  Way'
<1> DEFINE best == [c \in Cells |-> FirstBest(at + 1, c)]
<1>1. /\ stage = "solve" /\ Problem /\ stage' = stage /\ at' = at + 1 /\ UNCHANGED puzzle
      /\ at \in 1 .. Len(layers) - 1 /\ at > 0
      /\ dp' = [c \in Cells |-> Candidate(at + 1, c, best[c])] /\ back' = Append(back, best)
      /\ back \in Seq([Cells -> DOMAIN P]) /\ Len(back) = at
      /\ \A c \in Cells : Best(at, c, dp[c])
      /\ \A c \in Cells : dp[c] # Inf => \E q : Trail(q, at, c, dp[c])
      /\ manifest' = manifest
  BY Inputs DEF Solving, Control, Table, SolveLayer, puzzle, files, Way, Trails
<1>2. /\ Cells' = Cells /\ \A n : Feasibles(n)' = Feasibles(n)
      /\ \A i, u, j : Before(i, u, j)' = Before(i, u, j)
  BY <1>1, PuzzleKept DEF Feasibles, puzzle, Before
<1>3. \A d \in Cells : dp[d] \in Costs
  BY <1>1 DEF Best
<1>4. best \in [Cells -> DOMAIN P]
  <2>1. \A c \in Cells : FirstBest(at + 1, c) \in DOMAIN P
    BY <1>1, <1>3, FirstBestIs
  <2> QED BY <2>1
<1>5. back'[at + 1] = best /\ \A i \in 1 .. at : back'[i] = back[i]
  BY <1>1, <1>4, AppendProperties
<1>6. ASSUME NEW c \in Cells, dp'[c] # Inf PROVE \E q : Trail(q, at, c, dp[c])'
  <2>1. PICK n, v : n = at /\ v = dp'[c]
    OBVIOUS
  <2>2. /\ n \in Nat /\ n \in 1 .. Len(layers) - 1 /\ at' = n + 1
        /\ dp'[c] = Candidate(n + 1, c, FirstBest(n + 1, c))
        /\ Candidate(n + 1, c, FirstBest(n + 1, c)) # Inf
        /\ \A d \in Cells : dp[d] # Inf => \E q : Trail(q, n, d, dp[d])
    BY <1>1, <1>6, <2>1
  <2> DEFINE d == Before(n + 1, c, FirstBest(n + 1, c))
  <2>3. PICK q, r :
           /\ Trail(q, n, d, dp[d])
           /\ r = [i \in 1 .. n + 1 |-> IF i <= n THEN q[i] ELSE c]
           /\ r \in [1 .. n + 1 -> Cells] /\ r[n + 1] = c
           /\ Tour(r, n + 1) \in Feasibles(n + 1) /\ Ends(Tour(r, n + 1), n + 1, c)
           /\ CostOf(Tour(r, n + 1)) = Candidate(n + 1, c, FirstBest(n + 1, c))
    BY <1>1, <1>3, <2>2, NextTrail
  <2>4. q[n] = d /\ \A i \in 2 .. n : q[i - 1] = Before(i, q[i], back[i][q[i]])
    BY <2>3 DEF Trail
  <2>5. ASSUME NEW i \in 2 .. n + 1
        PROVE  r[i - 1] = Before(i, r[i], back'[i][r[i]])
    <3>1. CASE i = n + 1
      <4>1. r[i] = c /\ r[i - 1] = d
        BY <2>2, <2>3, <2>4, <3>1
      <4>2. back'[i][c] = FirstBest(n + 1, c)
        BY <1>5, <2>1, <3>1
      <4> QED BY <3>1, <4>1, <4>2
    <3>2. CASE i # n + 1
      <4>1. i \in 2 .. n /\ i \in 1 .. n /\ r[i] = q[i] /\ r[i - 1] = q[i - 1]
        BY <2>2, <2>3, <3>2
      <4>2. back'[i] = back[i]
        BY <1>5, <2>1, <4>1
      <4> QED BY <2>4, <4>1, <4>2
    <3> QED BY <3>1, <3>2
  <2> HIDE DEF d
  <2>6. /\ Tour(r, n + 1) \in Feasibles(n + 1)' /\ Ends(Tour(r, n + 1), n + 1, c)'
        /\ CostOf(Tour(r, n + 1))' = dp'[c]
    <3>1. \A a : CostOf(a)' = CostOf(a) /\ (Ends(a, n + 1, c)' <=> Ends(a, n + 1, c))
      BY <1>1, PlansKept DEF Ends
    <3> QED BY <1>2, <2>2, <2>3, <3>1
  <2>7. Trail(r, n + 1, c, v)'
    BY <1>2, <2>1, <2>3, <2>5, <2>6 DEF Trail
  <2> QED BY <2>1, <2>2, <2>7
<1>7. Trails'
  BY <1>2, <1>6 DEF Trails
<1> QED BY <1>1, <1>7 DEF Way, SolverStages, LaterStages

\* The plan starts empty, at the end of the trail of the first minimum.
LEMMA SolveEndWay ==
  ASSUME Solving, Way, SolveEnd
  PROVE  Way'
<1>1. /\ stage = "solve" /\ at = Len(layers) /\ Problem /\ manifest = <<>>
      /\ UNCHANGED puzzle /\ dp' = dp /\ back' = back /\ manifest' = manifest
  BY Inputs DEF Solving, Control, Way, SolverStages, SolveEnd, puzzle, files, Fail
<1>2. CASE stage' = "RuntimeError"
  BY <1>1, <1>2 DEF Way, Trails, SolverStages, LaterStages
<1>3. CASE /\ dp[FirstMinimum] # Inf /\ cursor' = FirstMinimum /\ plan' = <<>>
           /\ stage' = "backtrack"
  <2>1. at \in Nat \ {0}
    BY <1>1, Inputs
  <2>2. \A c \in Cells : dp[c] \in Costs
    BY <1>1, <2>1 DEF Solving, Table, Best
  <2>3. FirstMinimum \in Cells
    BY <1>1, <2>2, FirstMinimumIs
  <2>4. PICK q : Trail(q, at, FirstMinimum, dp[FirstMinimum])
    BY <1>1, <1>3, <2>1, <2>3 DEF Way, Trails
  <2>5. PICK n, c, v : n = at /\ c = FirstMinimum /\ v = dp[c]
    OBVIOUS
  <2>6. /\ FirstMinimum' = c /\ dp'[c] = v /\ Len(layers)' = n /\ Cells' = Cells
    BY <1>1, <2>5, FirstMinimumKept, PuzzleKept DEF puzzle
  <2>7. Trail(q, n, c, v)'
    BY <1>1, <2>4, <2>5, TrailKept
  <2>8. Suffix(q)'
    <3>1. Len(<<>>) = 0 /\ q[n] = c
      BY <2>4, <2>5 DEF Trail
    <3>2. n - 0 = n
      BY <2>1, <2>5
    <3> QED BY <1>3, <2>5, <2>6, <3>1, <3>2 DEF Suffix
  <2>9. Planned'
    <3>1. plan' \in Seq(DOMAIN P') /\ Len(plan') \in 0 .. n
      BY <1>3, <2>1, <2>5
    <3>2. Problem'
      BY <1>1, PuzzleKept
    <3> QED BY <2>3, <2>5, <2>6, <2>7, <2>8, <3>1, <3>2 DEF Planned
  <2> QED BY <1>1, <1>3, <2>9 DEF Way, Trails, SolverStages, LaterStages
<1> QED BY <1>2, <1>3 DEF SolveEnd, Fail

\* Each step back takes the plan one cell down the same trail.
LEMMA BacktrackWay ==
  ASSUME Way, Backtrack
  PROVE  Way'
<1>1. /\ stage = "backtrack" /\ Planned /\ manifest = <<>> /\ Len(plan) < Len(layers)
      /\ UNCHANGED puzzle /\ dp' = dp /\ back' = back /\ manifest' = manifest /\ stage' = stage
      /\ plan' = <<cursor[1]>> \o plan
  BY DEF Way, SolverStages, Backtrack, puzzle, files
<1>2. PICK q : Trail(q, Len(layers), FirstMinimum, dp[FirstMinimum]) /\ Suffix(q)
  BY <1>1 DEF Planned
<1>3. PICK N, m, i : N = Len(layers) /\ m = Len(plan) /\ i = N - m
  OBVIOUS
<1>4. /\ N \in Nat /\ m \in Nat /\ i \in Nat /\ i \in 1 .. N /\ m + 1 \in 0 .. N
      /\ i = N - m /\ N - (m + 1) = i - 1
  BY <1>1, <1>3, Inputs DEF Planned
<1>5. cursor = q[i] /\ cursor' = Before(i, cursor, back[i][cursor])
  BY <1>1, <1>2, <1>3 DEF Suffix, Backtrack
<1>6. q \in [1 .. N -> Cells] /\ cursor[1] \in DOMAIN P
  BY <1>1, <1>2, <1>3, <1>4, <1>5, CellTyped DEF Trail, Planned
<1>7. /\ <<cursor[1]>> \in Seq(DOMAIN P) /\ Len(<<cursor[1]>>) = 1 /\ plan \in Seq(DOMAIN P)
      /\ <<cursor[1]>>[1] = cursor[1]
  BY <1>1, <1>6 DEF Planned
<1>8. /\ plan' \in Seq(DOMAIN P) /\ Len(plan') = 1 + m
      /\ \A k \in 1 .. 1 + m : plan'[k] = IF k <= 1 THEN <<cursor[1]>>[k] ELSE plan[k - 1]
  BY <1>1, <1>3, <1>7, ConcatProperties
<1>9. Len(plan') = m + 1 /\ Len(layers') = N
  BY <1>1, <1>3, <1>4, <1>8 DEF puzzle
<1>10. ASSUME NEW k \in 1 .. m + 1 PROVE plan'[k] = q[(i - 1) + k][1]
  <2>1. CASE k = 1
    <3>1. plan'[k] = cursor[1]
      BY <1>4, <1>7, <1>8, <2>1
    <3>2. (i - 1) + k = i
      BY <1>4, <2>1
    <3> QED BY <1>5, <3>1, <3>2
  <2>2. CASE k # 1
    <3>1. plan'[k] = plan[k - 1] /\ k - 1 \in 1 .. m
      BY <1>4, <1>8, <2>2
    <3>2. plan[k - 1] = q[i + (k - 1)][1]
      BY <1>2, <1>3, <3>1 DEF Suffix
    <3>3. i + (k - 1) = (i - 1) + k
      BY <1>4
    <3> QED BY <3>1, <3>2, <3>3
  <2> QED BY <2>1, <2>2
<1>11. m + 1 < N => cursor' = q[i - 1]
  <2>1. m + 1 < N => i \in 2 .. N
    BY <1>4
  <2> QED BY <1>2, <1>3, <1>5, <2>1 DEF Trail
<1>12. Suffix(q)'
  BY <1>4, <1>9, <1>10, <1>11 DEF Suffix
<1>13. PICK c, v : c = FirstMinimum /\ v = dp[c]
  OBVIOUS
<1>14. /\ FirstMinimum' = c /\ dp'[c] = v /\ c \in Cells
       /\ P' = P /\ Cells' = Cells /\ Problem'
  BY <1>1, <1>13, FirstMinimumKept, PuzzleKept DEF Planned
<1>15. Trail(q, N, c, v)'
  BY <1>1, <1>2, <1>3, <1>13, TrailKept
<1>16. Planned'
  BY <1>4, <1>8, <1>9, <1>12, <1>14, <1>15 DEF Planned
<1> QED BY <1>1, <1>16 DEF Way, Trails, SolverStages, LaterStages

\* Nothing that the rest of the tools do changes the plan.
LEMMA PlannedKept ==
  ASSUME job' = job, UNCHANGED solver
  PROVE  /\ Planned => Planned'
         /\ generate_manifest' = generate_manifest /\ ZeroOutputs' = ZeroOutputs
         /\ \A c \in Cells : \A q :
              c \in Cells' /\ (Trail(q, at, c, dp[c]) => Trail(q, at, c, dp[c])')
<1>1. /\ UNCHANGED puzzle /\ dp' = dp /\ back' = back /\ plan' = plan /\ cursor' = cursor
      /\ at' = at
  BY DEF solver, puzzle
<1>2. /\ FirstMinimum' = FirstMinimum /\ P' = P /\ Cells' = Cells /\ (Problem => Problem')
      /\ layers' = layers /\ hw' = hw
  BY <1>1, FirstMinimumKept, PuzzleKept DEF puzzle
<1>3. \A q : Suffix(q)' <=> Suffix(q)
  BY <1>1, <1>2 DEF Suffix
<1>4. ASSUME NEW c, NEW q, NEW n PROVE Trail(q, n, c, dp[c])' <=> Trail(q, n, c, dp[c])
  <2>1. PICK v : v = dp[c]
    OBVIOUS
  <2>2. dp'[c] = v
    BY <1>1, <2>1
  <2> QED BY <1>1, <2>1, <2>2, TrailKept
<1>5. Planned => Planned'
  <2> SUFFICES ASSUME Planned PROVE Planned'
    OBVIOUS
  <2>1. PICK n, c : n = Len(layers) /\ c = FirstMinimum
    OBVIOUS
  <2>2. PICK q : Trail(q, n, c, dp[c]) /\ Suffix(q)
    BY <2>1 DEF Planned
  <2>3. Trail(q, n, c, dp[c])'
    BY <1>4, <2>2
  <2>4. n = Len(layers') /\ c = FirstMinimum'
    BY <1>2, <2>1
  <2> QED BY <1>1, <1>2, <1>3, <2>2, <2>3, <2>4 DEF Planned
<1>6. ZeroOutputs' = ZeroOutputs
  BY <1>2 DEF ZeroOutputs
<1>7. Names' = Names
  BY <1>1, <1>2 DEF Names
<1>8. transfers' = transfers
  BY <1>2, <1>7 DEF transfers, transfer, Crossing
<1>9. summarise' = summarise
  BY <1>2, <1>7 DEF summarise, Sum, On, Boundary, Ddr2Weights, Crossing
<1>10. generate_manifest' = generate_manifest
  BY <1>1, <1>2, <1>7, <1>8, <1>9 DEF generate_manifest
<1> QED BY <1>1, <1>2, <1>4, <1>5, <1>6, <1>10

\* The manifest is written once the plan is complete.
LEMMA WriteManifestWay ==
  ASSUME Way, WriteManifest
  PROVE  Way'
<1>1. /\ stage = "backtrack" /\ Planned /\ manifest = <<>> /\ Len(plan) = Len(layers)
      /\ job' = job /\ UNCHANGED solver
  BY DEF Way, SolverStages, WriteManifest
<1>2. /\ Planned' /\ generate_manifest' = generate_manifest /\ ZeroOutputs' = ZeroOutputs
      /\ Len(plan') = Len(layers')
  BY <1>1, PlannedKept DEF solver
<1>3. CASE stage' = "ManifestValueError" /\ manifest' = manifest
  BY <1>1, <1>2, <1>3 DEF Way, Trails, SolverStages, LaterStages
<1>4. CASE stage' = "placed" /\ manifest' = generate_manifest /\ ZeroOutputs = {}
  <2>1. manifest' # <<>>
    BY <1>4 DEF generate_manifest
  <2> QED BY <1>1, <1>2, <1>4, <2>1 DEF Way, Trails, SolverStages, LaterStages
<1> QED BY <1>1, <1>3, <1>4 DEF WriteManifest

\* A step that leaves the solver alone.
LEMMA IdleWay ==
  ASSUME Solving, Way, job' = job, UNCHANGED solver, manifest' = manifest,
         stage' = stage \/ /\ stage' \in SolverStages => stage' = "parse" /\ stage = "parse"
                           /\ stage' \in LaterStages => stage \in LaterStages
  PROVE  Way'
<1>1. /\ Planned => Planned'
      /\ generate_manifest' = generate_manifest /\ ZeroOutputs' = ZeroOutputs
      /\ Len(plan') = Len(layers') <=> Len(plan) = Len(layers)
  BY PlannedKept DEF solver
<1>2. /\ stage' = "backtrack" => stage = "backtrack"
      /\ stage' = "solve" => stage = "solve"
      /\ stage' \in SolverStages => stage \in SolverStages
      /\ stage' \in LaterStages => stage \in LaterStages
  BY DEF SolverStages
<1>3. Trails'
  <2>1. SUFFICES ASSUME (stage = "solve" /\ at > 0)'
                 PROVE  (\A c \in Cells : dp[c] # Inf => \E q : Trail(q, at, c, dp[c]))'
    BY DEF Trails
  <2>2. /\ stage = "solve" /\ at > 0 /\ dp' = dp
        /\ Cells' = Cells
    BY <1>2, <2>1, PuzzleKept DEF solver, puzzle
  <2>3. \A c \in Cells : dp[c] # Inf => \E q : Trail(q, at, c, dp[c])
    BY <2>2 DEF Way, Trails
  <2>4. \A c \in Cells : \A q : Trail(q, at, c, dp[c]) => Trail(q, at, c, dp[c])'
    BY PlannedKept
  <2> QED BY <2>2, <2>3, <2>4
<1> QED BY <1>1, <1>2, <1>3 DEF Way

LEMMA WayStep ==
  ASSUME Solving, Way, [Next]_vars
  PROVE  Way'
<1>1. CASE Generate
  BY <1>1 DEF Generate, solver, Way, Trails, SolverStages, LaterStages
<1>2. CASE Parse
  BY <1>2 DEF Parse, Fail, files, solver, Way, Trails, SolverStages, LaterStages
<1>3. CASE SolveStart
  BY <1>3 DEF SolveStart, files, Way, Trails, SolverStages, LaterStages, Solving, Control
<1>4. CASE SolveFirst
  BY <1>4, SolveFirstWay
<1>5. CASE SolveLayer
  BY <1>5, SolveLayerWay
<1>6. CASE SolveEnd
  BY <1>6, SolveEndWay
<1>7. CASE Backtrack
  BY <1>7, BacktrackWay
<1>8. CASE WriteManifest
  BY <1>8, WriteManifestWay
<1>9. CASE (Lower \/ Run \/ Baseline) /\ UNCHANGED solver
  BY <1>9, OthersSteps, IdleWay
<1>10. CASE UNCHANGED vars
  BY <1>10, IdleWay DEF vars, files
<1> QED
  BY <1>1, <1>2, <1>3, <1>4, <1>5, <1>6, <1>7, <1>8, <1>9, <1>10 DEF Next, Place

\* A complete plan is the whole trail, and costs what the table says.
LEMMA PlannedAttains ==
  ASSUME Planned, Len(plan) = Len(layers)
  PROVE  /\ plan \in Feasibles(Len(layers)) /\ DOMAIN plan = 1 .. Len(layers)
         /\ CostOf(plan) = dp[FirstMinimum]
         /\ UseOf(plan) = <<FirstMinimum[2], FirstMinimum[3]>>
<1>1. PICK q : Trail(q, Len(layers), FirstMinimum, dp[FirstMinimum]) /\ Suffix(q)
  BY DEF Planned
<1>2. Len(layers) \in Nat
  BY Inputs DEF Planned
<1>3. plan \in [1 .. Len(layers) -> DOMAIN P]
  BY LenProperties DEF Planned
<1>4. \A i \in 1 .. Len(layers) : plan[i] = q[i][1]
  <2>1. ASSUME NEW i \in 1 .. Len(layers) PROVE plan[i] = q[i][1]
    <3>1. (Len(layers) - Len(plan)) + i = i
      BY <1>2
    <3> QED BY <1>1, <3>1 DEF Suffix
  <2> QED BY <2>1
<1>5. plan = Tour(q, Len(layers))
  BY <1>3, <1>4 DEF Tour
<1> QED BY <1>1, <1>3, <1>5 DEF Trail, Ends

(***************************************************************************)
(* The plan that solver._solve recovers by following its argmin table back *)
(* costs what the table's minimum says, and uses the memory of its cell.   *)
(***************************************************************************)
THEOREM PlanTheorem == Spec => []PlanAttainsTotal
<1>1. Init => Solving /\ Way
  BY SolvingInit, WayInit
<1>2. Solving /\ Way /\ [Next]_vars => (Solving /\ Way)'
  BY SolvingStep, WayStep
<1>3. Solving /\ Way => PlanAttainsTotal
  BY PlannedAttains DEF Way, PlanAttainsTotal, LaterStages
<1> QED BY <1>1, <1>2, <1>3, PTL DEF Spec

-----------------------------------------------------------------------------
(***************************************************************************)
(* The manifest's sums.                                                    *)
(***************************************************************************)
\* u is what transfers computes on the way to the n-th layer.
IsTransfers(u, n) ==
  u = [i \in 0 .. n |-> IF i = 0 THEN <<>>
                        ELSE IF Crossing(i) THEN Append(u[i - 1], transfer(i)) ELSE u[i - 1]]

\* The list of transfers has a value for every number of layers.
LEMMA TransfersExist == \A n \in Nat : \E u : IsTransfers(u, n)
<1> DEFINE S == {n \in Nat : \E u : IsTransfers(u, n)}
<1>1. 0 \in S
  <2>1. IsTransfers([i \in 0 .. 0 |-> <<>>], 0)
    BY DEF IsTransfers
  <2> QED BY <2>1
<1>2. ASSUME NEW n \in Nat, n \in S PROVE n + 1 \in S
  <2>1. PICK u : IsTransfers(u, n)
    BY <1>2
  <2> DEFINE last == IF Crossing(n + 1) THEN Append(u[n], transfer(n + 1)) ELSE u[n]
             t == [i \in 0 .. n + 1 |-> IF i <= n THEN u[i] ELSE last]
  <2>2. ASSUME NEW i \in 0 .. n + 1
        PROVE  t[i] = IF i = 0 THEN <<>>
                      ELSE IF Crossing(i) THEN Append(t[i - 1], transfer(i)) ELSE t[i - 1]
    <3>1. CASE i = n + 1
      BY <3>1
    <3>2. CASE i # n + 1
      <4>1. i \in 0 .. n /\ t[i] = u[i] /\ (i # 0 => t[i - 1] = u[i - 1])
        BY <3>2
      <4> HIDE DEF t
      <4> QED BY <2>1, <4>1 DEF IsTransfers
    <3> QED BY <3>1, <3>2
  <2>3. IsTransfers(t, n + 1)
    BY <2>2 DEF IsTransfers
  <2> QED BY <2>3
<1> HIDE DEF S
<1>3. \A n \in Nat : n \in S
  BY <1>1, <1>2, Induction
<1> QED BY <1>3 DEF S

\* What the summary's crossings, moved bytes and a list of transfers add up.
Ones == [i \in DOMAIN layers |-> IF Crossing(i) THEN 1 ELSE 0]
Moved == [i \in DOMAIN layers |-> IF Crossing(i) THEN layers[i - 1].output ELSE 0]
Bytes(ts) == [k \in DOMAIN ts |-> ts[k].bytes]

\* A transfer more is counted once, with the bytes it moves.
LEMMA TransferCounted ==
  ASSUME NEW S, NEW ts \in Seq(S), NEW x \in S
  PROVE  LET us == Append(ts, x) IN
         /\ us \in Seq(S) /\ Len(us) = Len(ts) + 1
         /\ Total(Bytes(us), 1, Len(us)) = Total(Bytes(ts), 1, Len(ts)) + x.bytes
<1> DEFINE us == Append(ts, x)
<1>1. /\ us \in Seq(S) /\ Len(us) = Len(ts) + 1 /\ Len(ts) \in Nat
      /\ \A k \in 1 .. Len(ts) : us[k] = ts[k]
      /\ us[Len(ts) + 1] = x
      /\ DOMAIN ts = 1 .. Len(ts)
  BY AppendProperties, LenProperties
<1> HIDE DEF us
<1>2. DOMAIN us = 1 .. Len(ts) + 1
  BY <1>1
<1>3. /\ \A k \in 1 .. Len(ts) : Bytes(us)[k] = Bytes(ts)[k]
      /\ Bytes(us)[Len(ts) + 1] = x.bytes
  BY <1>1, <1>2 DEF Bytes
<1>4. Total(Bytes(us), 1, Len(ts)) = Total(Bytes(ts), 1, Len(ts))
  BY <1>1, <1>3, TotalSame
<1>5. Total(Bytes(us), 1, Len(ts) + 1) = Total(Bytes(us), 1, Len(ts)) + Bytes(us)[Len(ts) + 1]
  BY <1>1, TotalStep
<1> QED BY <1>1, <1>3, <1>4, <1>5 DEF us

\* The manifest's transfers are as many, and move as much, as its summary says.
LEMMA TransfersCounted ==
  ASSUME Problem
  PROVE  /\ Len(transfers) = Total(Ones, 1, Len(layers))
         /\ Total(Bytes(transfers), 1, Len(transfers)) = Total(Moved, 1, Len(layers))
<1>1. Len(layers) \in Nat \ {0} /\ DOMAIN layers = 1 .. Len(layers)
  BY Inputs
<1>2. PICK u : IsTransfers(u, Len(layers)) /\ transfers = u[Len(layers)]
  <2> DEFINE u == CHOOSE u : IsTransfers(u, Len(layers))
  <2>1. IsTransfers(u, Len(layers))
    BY <1>1, TransfersExist
  <2>2. transfers = u[Len(layers)]
    BY DEF transfers, IsTransfers
  <2> QED BY <2>1, <2>2
<1> DEFINE X == {transfer(i) : i \in 1 .. Len(layers)}
           S == {n \in Nat : n <= Len(layers) =>
                   /\ u[n] \in Seq(X)
                   /\ Len(u[n]) = Total(Ones, 1, n)
                   /\ Total(Bytes(u[n]), 1, Len(u[n])) = Total(Moved, 1, n)}
<1>3. 0 \in S
  <2>1. u[0] = <<>>
    BY <1>1, <1>2 DEF IsTransfers
  <2>2. Len(<<>>) = 0 /\ <<>> \in Seq(X)
    OBVIOUS
  <2> QED BY <2>1, <2>2, TotalStep
<1>4. ASSUME NEW n \in Nat, n \in S PROVE n + 1 \in S
  <2>1. SUFFICES ASSUME n + 1 <= Len(layers)
                 PROVE  /\ u[n + 1] \in Seq(X)
                        /\ Len(u[n + 1]) = Total(Ones, 1, n + 1)
                        /\ Total(Bytes(u[n + 1]), 1, Len(u[n + 1])) = Total(Moved, 1, n + 1)
    OBVIOUS
  <2>2. /\ n + 1 \in 1 .. Len(layers) /\ n <= Len(layers)
        /\ u[n + 1] = IF Crossing(n + 1) THEN Append(u[n], transfer(n + 1)) ELSE u[n]
        /\ u[n] \in Seq(X) /\ Len(u[n]) = Total(Ones, 1, n)
        /\ Total(Bytes(u[n]), 1, Len(u[n])) = Total(Moved, 1, n)
    <3>1. /\ n + 1 \in 1 .. Len(layers) /\ n + 1 \in 0 .. Len(layers) /\ n <= Len(layers)
          /\ n + 1 # 0 /\ (n + 1) - 1 = n
      BY <1>1, <2>1
    <3>2. u[n + 1] = IF Crossing(n + 1) THEN Append(u[n], transfer(n + 1)) ELSE u[n]
      BY <1>2, <3>1 DEF IsTransfers
    <3> QED BY <1>4, <3>1, <3>2
  <2>3. /\ Total(Ones, 1, n + 1) = Total(Ones, 1, n) + Ones[n + 1]
        /\ Total(Moved, 1, n + 1) = Total(Moved, 1, n) + Moved[n + 1]
    BY TotalStep
  <2>4. /\ Ones[n + 1] = IF Crossing(n + 1) THEN 1 ELSE 0
        /\ Moved[n + 1] = IF Crossing(n + 1) THEN layers[n].output ELSE 0
    <3>1. (n + 1) - 1 = n
      OBVIOUS
    <3> QED BY <1>1, <2>2, <3>1 DEF Ones, Moved
  <2>5. CASE Crossing(n + 1)
    <3>1. transfer(n + 1) \in X /\ transfer(n + 1).bytes = layers[n].output
      <4>1. (n + 1) - 1 = n
        OBVIOUS
      <4> QED BY <2>2, <4>1 DEF transfer
    <3> HIDE DEF X
    <3> QED BY <2>2, <2>3, <2>4, <2>5, <3>1, TransferCounted
  <2>6. CASE ~Crossing(n + 1)
    <3>1. Total(Ones, 1, n) \in Nat /\ Total(Moved, 1, n) \in Nat
      <4>1. \A i \in 1 .. n : Ones[i] \in Nat /\ Moved[i] \in Nat
        <5>1. ASSUME NEW i \in 1 .. n PROVE Ones[i] \in Nat /\ Moved[i] \in Nat
          <6>1. i \in 1 .. Len(layers)
            BY <1>1, <2>2
          <6>2. i > 1 => i - 1 \in 1 .. Len(layers)
            BY <1>1, <6>1
          <6>3. Crossing(i) => layers[i - 1].output \in Nat
            BY <6>2, Inputs DEF Crossing, LayerOK
          <6> QED BY <1>1, <6>1, <6>3 DEF Ones, Moved
        <5> QED BY <5>1
      <4> QED BY <4>1, TotalNat
    <3> HIDE DEF X
    <3> QED BY <2>2, <2>3, <2>4, <2>6, <3>1
  <2> QED BY <2>5, <2>6
<1> HIDE DEF S
<1>5. Len(layers) \in S
  BY <1>1, <1>3, <1>4, Induction
<1> QED BY <1>1, <1>2, <1>5 DEF S

\* A layer's charge, part by part.
PartGpu(i) == On({"gpu", "pool"}, i, gpu_compute(hw, layers[i]))
PartFpga(i) == On({"fpga"}, i, fpga_compute(hw, layers[i]))
PartFault(i) == On({"pool"}, i, pool_weight_fault(hw, layers[i]))
PartStream(i) == On({"fpga"}, i, nmc_weight_stream(hw, layers[i]))
PartDispatch(i) == On({"fpga"}, i, nmc_dispatch(hw))

\* What a layer adds is the sum of its parts in the breakdown.
LEMMA ChargeIsParts ==
  ASSUME Problem, plan \in Feasibles(Len(layers)), NEW i \in 1 .. Len(layers)
  PROVE  /\ PartGpu(i) \in Nat /\ PartFpga(i) \in Nat /\ PartFault(i) \in Nat
         /\ PartStream(i) \in Nat /\ PartDispatch(i) \in Nat /\ Boundary(i) \in Nat
         /\ place_cost[i][plan[i]] = placement_cost(hw, layers[i], Names[i])
         /\ Charge(plan, i) = placement_cost(hw, layers[i], Names[i]) + Boundary(i)
         /\ Charge(plan, i) = PartGpu(i) + PartFpga(i) + PartFault(i) + PartStream(i)
                                + PartDispatch(i) + Boundary(i)
<1>1. /\ plan[i] \in DOMAIN P /\ place_cost[i][plan[i]] # Inf /\ DOMAIN plan = 1 .. Len(layers)
      /\ Names[i] = P[plan[i]] /\ Names[i] \in {"gpu", "pool", "fpga"}
      /\ i # 1 => i - 1 \in 1 .. Len(layers) /\ Names[i - 1] = P[plan[i - 1]]
  BY Inputs DEF Feasibles, Names
<1>2. place_cost[i][plan[i]] = placement_cost(hw, layers[i], Names[i])
  BY <1>1, PlaceCostIs
<1>3. Boundary(i) \in Nat
  BY <1>1, BoundaryTyped DEF Boundary
<1>4. Charge(plan, i) = placement_cost(hw, layers[i], Names[i]) + Boundary(i)
  BY <1>1, <1>2 DEF Charge, Boundary
<1>5. /\ gpu_compute(hw, layers[i]) \in Nat /\ fpga_compute(hw, layers[i]) \in Nat
      /\ pool_weight_fault(hw, layers[i]) \in Nat /\ nmc_weight_stream(hw, layers[i]) \in Nat
      /\ nmc_dispatch(hw) \in Nat
  BY CostsTyped
<1>6. /\ PartGpu(i) \in Nat /\ PartFpga(i) \in Nat /\ PartFault(i) \in Nat
      /\ PartStream(i) \in Nat /\ PartDispatch(i) \in Nat
  BY <1>5 DEF PartGpu, PartFpga, PartFault, PartStream, PartDispatch, On
<1>7. placement_cost(hw, layers[i], Names[i]) =
        PartGpu(i) + PartFpga(i) + PartFault(i) + PartStream(i) + PartDispatch(i)
  BY <1>1, <1>5
  DEF placement_cost, PartGpu, PartFpga, PartFault, PartStream, PartDispatch, On
<1> QED BY <1>2, <1>3, <1>4, <1>6, <1>7

\* The sum of the charges is the sum of the six sums of the breakdown.
LEMMA BreakdownIsCost ==
  ASSUME Problem, plan \in Feasibles(Len(layers))
  PROVE  LET b == summarise.breakdown IN
         CostOf(plan) = b.gpu_compute + b.fpga_compute + b.pool_fault + b.weight_stream
                          + b.dispatch + b.activation_xfer
<1> DEFINE D == DOMAIN layers
           N == Len(layers)
           g == [i \in D |-> PartGpu(i)]
           f == [i \in D |-> PartFpga(i)]
           p == [i \in D |-> PartFault(i)]
           w == [i \in D |-> PartStream(i)]
           d == [i \in D |-> PartDispatch(i)]
           x == [i \in D |-> Boundary(i)]
           gf == [i \in D |-> PartGpu(i) + PartFpga(i)]
           gfp == [i \in D |-> PartGpu(i) + PartFpga(i) + PartFault(i)]
           gfpw == [i \in D |-> PartGpu(i) + PartFpga(i) + PartFault(i) + PartStream(i)]
           gfpwd == [i \in D |-> PartGpu(i) + PartFpga(i) + PartFault(i) + PartStream(i)
                                   + PartDispatch(i)]
<1>1. N \in Nat /\ D = 1 .. N /\ DOMAIN plan = 1 .. N
  BY Inputs DEF Feasibles
<1>2. ASSUME NEW i \in 1 .. N
      PROVE  /\ g[i] \in Nat /\ f[i] \in Nat /\ p[i] \in Nat
             /\ w[i] \in Nat /\ d[i] \in Nat /\ x[i] \in Nat
             /\ gf[i] = g[i] + f[i] /\ gfp[i] = gf[i] + p[i]
             /\ gfpw[i] = gfp[i] + w[i] /\ gfpwd[i] = gfpw[i] + d[i]
             /\ Charges(plan)[i] = gfpwd[i] + x[i]
  <2>1. /\ PartGpu(i) \in Nat /\ PartFpga(i) \in Nat /\ PartFault(i) \in Nat
        /\ PartStream(i) \in Nat /\ PartDispatch(i) \in Nat /\ Boundary(i) \in Nat
        /\ Charge(plan, i) = PartGpu(i) + PartFpga(i) + PartFault(i) + PartStream(i)
                               + PartDispatch(i) + Boundary(i)
    BY ChargeIsParts
  <2>2. Charges(plan)[i] = Charge(plan, i)
    BY <1>1 DEF Charges
  <2>3. /\ g[i] = PartGpu(i) /\ f[i] = PartFpga(i) /\ p[i] = PartFault(i)
        /\ w[i] = PartStream(i) /\ d[i] = PartDispatch(i) /\ x[i] = Boundary(i)
    BY <1>1
  <2>4. /\ gf[i] = PartGpu(i) + PartFpga(i)
        /\ gfp[i] = PartGpu(i) + PartFpga(i) + PartFault(i)
        /\ gfpw[i] = PartGpu(i) + PartFpga(i) + PartFault(i) + PartStream(i)
        /\ gfpwd[i] = PartGpu(i) + PartFpga(i) + PartFault(i) + PartStream(i)
                       + PartDispatch(i)
    BY <1>1
  <2> HIDE DEF g, f, p, w, d, x, gf, gfp, gfpw, gfpwd
  <2> QED BY <2>1, <2>2, <2>3, <2>4
<1>3. LET b == summarise.breakdown IN
      /\ b.gpu_compute = Total(g, 1, N) /\ b.fpga_compute = Total(f, 1, N)
      /\ b.pool_fault = Total(p, 1, N) /\ b.weight_stream = Total(w, 1, N)
      /\ b.dispatch = Total(d, 1, N) /\ b.activation_xfer = Total(x, 1, N)
  BY DEF summarise, Sum, PartGpu, PartFpga, PartFault, PartStream, PartDispatch
<1>4. CostOf(plan) = Total(Charges(plan), 1, N)
  BY <1>1, PlanTotals
<1> HIDE DEF D, N, g, f, p, w, d, x, gf, gfp, gfpw, gfpwd
<1>0. N \in Nat
  BY <1>1
<1>5. ASSUME NEW i \in 1 .. N
      PROVE  gf[i] \in Nat /\ gfp[i] \in Nat /\ gfpw[i] \in Nat /\ gfpwd[i] \in Nat
  <2>1. gf[i] \in Nat /\ gfp[i] \in Nat
    BY <1>2
  <2>2. gfpw[i] = gfp[i] + w[i] /\ gfpwd[i] = gfpw[i] + d[i] /\ w[i] \in Nat /\ d[i] \in Nat
    BY <1>2
  <2> QED BY <2>1, <2>2
<1>6. Total(gf, 1, N) = Total(g, 1, N) + Total(f, 1, N)
  <2>1. \A i \in 1 .. N : g[i] \in Nat /\ f[i] \in Nat /\ gf[i] = g[i] + f[i]
    BY <1>2
  <2> QED BY ONLY <1>0, <2>1, TotalPlus
<1>7. Total(gfp, 1, N) = Total(gf, 1, N) + Total(p, 1, N)
  <2>1. \A i \in 1 .. N : gf[i] \in Nat /\ p[i] \in Nat /\ gfp[i] = gf[i] + p[i]
    BY <1>2, <1>5
  <2> QED BY ONLY <1>0, <2>1, TotalPlus
<1>8. Total(gfpw, 1, N) = Total(gfp, 1, N) + Total(w, 1, N)
  <2>1. \A i \in 1 .. N : gfp[i] \in Nat /\ w[i] \in Nat /\ gfpw[i] = gfp[i] + w[i]
    BY <1>2, <1>5
  <2> QED BY ONLY <1>0, <2>1, TotalPlus
<1>9. Total(gfpwd, 1, N) = Total(gfpw, 1, N) + Total(d, 1, N)
  <2>1. \A i \in 1 .. N : gfpw[i] \in Nat /\ d[i] \in Nat /\ gfpwd[i] = gfpw[i] + d[i]
    BY <1>2, <1>5
  <2> QED BY ONLY <1>0, <2>1, TotalPlus
<1>10. Total(Charges(plan), 1, N) = Total(gfpwd, 1, N) + Total(x, 1, N)
  <2>1. \A i \in 1 .. N : gfpwd[i] \in Nat /\ x[i] \in Nat /\ Charges(plan)[i] = gfpwd[i] + x[i]
    BY <1>2, <1>5
  <2> QED BY ONLY <1>0, <2>1, TotalPlus
<1> QED BY <1>3, <1>4, <1>6, <1>7, <1>8, <1>9, <1>10

\* The manifest of a complete plan can be reproduced from itself.
LEMMA PlannedReproducible ==
  ASSUME Planned, Len(plan) = Len(layers), ZeroOutputs = {}, manifest = generate_manifest
  PROVE  ManifestReproducible
<1> DEFINE m == manifest[1]
           N == Len(layers)
           PlaceAt(i) == m.layers[i].placement
           cost(i) == placement_cost(m.hardware, layers[i], PlaceAt(i))
                        + IF i = 1 THEN 0
                          ELSE boundary_cost(m.hardware, layers[i - 1],
                                             PlaceAt(i - 1), PlaceAt(i))
<1>1. /\ Problem /\ N \in Nat /\ DOMAIN layers = 1 .. N /\ DOMAIN plan = 1 .. N
      /\ plan \in Feasibles(N) /\ CostOf(plan) = dp[FirstMinimum]
  BY PlannedAttains, Inputs DEF Planned
<1>2. /\ m.latency = dp[FirstMinimum] /\ m.hardware = hw /\ m.summary = summarise
      /\ m.transfers = transfers
      /\ \A i \in 1 .. N : PlaceAt(i) = Names[i]
  BY <1>1 DEF generate_manifest
<1>3. LET b == m.summary.breakdown IN
      m.latency = b.gpu_compute + b.fpga_compute + b.pool_fault + b.weight_stream
                    + b.dispatch + b.activation_xfer
  BY <1>1, <1>2, BreakdownIsCost
<1>4. m.latency = Total([i \in DOMAIN layers |-> cost(i)], 1, N)
  <2> DEFINE c == [i \in DOMAIN layers |-> cost(i)]
  <2>1. ASSUME NEW i \in 1 .. N PROVE Charges(plan)[i] = c[i]
    <3>1. Charges(plan)[i] = placement_cost(hw, layers[i], Names[i]) + Boundary(i)
      BY <1>1, ChargeIsParts DEF Charges
    <3>2. i # 1 => i - 1 \in 1 .. N
      BY <1>1
    <3> HIDE DEF m
    <3> QED BY <1>1, <1>2, <3>1, <3>2 DEF Boundary
  <2> HIDE DEF c
  <2>2. Total(Charges(plan), 1, N) = Total(c, 1, N)
    BY <1>1, <2>1, TotalSame
  <2>3. CostOf(plan) = Total(Charges(plan), 1, N)
    BY <1>1, PlanTotals
  <2> QED BY <1>1, <1>2, <2>2, <2>3 DEF c
<1>5. Len(m.transfers) = m.summary.crossings
  <2>1. summarise.crossings = Total(Ones, 1, N)
    BY DEF summarise, Sum, Ones
  <2> QED BY <1>1, <1>2, <2>1, TransfersCounted
<1>6. Total([k \in DOMAIN m.transfers |-> m.transfers[k].bytes], 1, Len(m.transfers))
        = m.summary.moved
  <2>1. summarise.moved = Total(Moved, 1, N)
    BY DEF summarise, Sum, Moved
  <2> QED BY <1>1, <1>2, <2>1, TransfersCounted DEF Bytes
<1>7. \A i \in DOMAIN layers : layers[i].output > 0 \/ layers[i].op = "Constant"
  <2>1. \A i \in 1 .. N : layers[i].output \in Nat
    BY <1>1, Inputs DEF LayerOK
  <2> QED BY <1>1, <2>1 DEF ZeroOutputs
<1> HIDE DEF m
<1> QED BY <1>3, <1>4, <1>5, <1>6, <1>7 DEF ManifestReproducible, Sum, m

(***************************************************************************)
(* The latency in the manifest is the sum of its own breakdown and of its  *)
(* layers' costs under the hardware it records; its summary counts its     *)
(* transfers and their bytes; no layer in it has a zero-byte output.       *)
(***************************************************************************)
THEOREM ManifestTheorem == Spec => []ManifestReproducible
<1>1. Init => Solving /\ Way
  BY SolvingInit, WayInit
<1>2. Solving /\ Way /\ [Next]_vars => (Solving /\ Way)'
  BY SolvingStep, WayStep
<1>3. Solving /\ Way => ManifestReproducible
  BY PlannedReproducible DEF Way, ManifestReproducible
<1> QED BY <1>1, <1>2, <1>3, PTL DEF Spec
=============================================================================
