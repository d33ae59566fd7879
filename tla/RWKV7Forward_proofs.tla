------------------------- MODULE RWKV7Forward_proofs -------------------------
(***************************************************************************)
(* Proofs about the forward pass: whatever the batch, the chunks, the      *)
(* layers and the configuration, a request's states and logits are those   *)
(* it would have alone, and every path finds its weights.                  *)
(*                                                                         *)
(* Rows are followed by chunk and place in it, so that the two ways the    *)
(* kernels find them (by index and T, by query_start_loc) are shown once   *)
(* to be one.                                                              *)
(***************************************************************************)
EXTENDS RWKV7Forward, FiniteSetTheorems, SequenceTheorems, TLAPS

-----------------------------------------------------------------------------
(***************************************************************************)
(* The invariant.                                                          *)
(***************************************************************************)
\* What request r alone would have after its token k; when R has raced, r's own at least.
RightIn(R, r, k, value) ==
  \/ value = [of |-> r, n |-> k]
  \/ r \in R /\ value.of = r

\* Before its first token a state is zero.
At(R, r, k, value) == IF k = 0 THEN value = Zero ELSE RightIn(R, r, k, value)

\* The row of the t-th token of chunk b, for every chunk of the batch d.
RowsRight(d, R, f) ==
  \A b \in 1 .. Len(d) : \A t \in 1 .. d[b].num :
    RightIn(R, d[b].req, d[b].first + t - 1, f[Offsets(d)[b - 1] + t])

\* A state, by slot, before and after the pass over d, and for requests outside of I.
Before(d, R, s) == \A b \in 1 .. Len(d) : At(R, d[b].req, d[b].first - 1, s[d[b].slot])
After(d, R, s) ==
  \A b \in 1 .. Len(d) : RightIn(R, d[b].req, d[b].first + d[b].num - 1, s[d[b].slot])
Others(q, I, R, s) ==
  \A r \in Requests \ I : q[r].live /\ q[r].computed > 0 =>
                            RightIn(R, r, q[r].computed, s[q[r].slot])

\* A chunk has a token, and starts at one.
BatchShape(d) ==
  /\ Len(d) \in Nat \ {0} /\ DOMAIN d = 1 .. Len(d)
  /\ \A b \in 1 .. Len(d) : d[b].num \in 1 .. MaxTokens /\ d[b].first \in Nat \ {0}

\* Chunks are of different live requests, in their slots, and continue them.
BatchOf(d, q) ==
  /\ BatchShape(d)
  /\ \A b \in 1 .. Len(d) : /\ d[b].req \in Requests /\ q[d[b].req].live
                            /\ d[b].slot = q[d[b].req].slot
                            /\ d[b].first = q[d[b].req].computed + 1
  /\ \A b, c \in 1 .. Len(d) : d[b].req = d[c].req => b = c

RequestsOf(d) == {d[b].req : b \in 1 .. Len(d)}

\* As IsUniform, of any batch.
Uniform(d) == Offsets(d)[Len(d)] = Len(d) * Max({d[b].num : b \in 1 .. Len(d)})

AllWeights ==
  {<<w, Layout(w)>> : w \in Linears} \cup LowRank \cup SparseKey \cup StackedRkv

Passing == {"tmix", "cmix", "next", "last"}

Prepared ==
  /\ cfg \in Configs
  /\ pc \in Passing \cup {"load", "idle", "raised"}
  /\ pc # "load" => weights = AllWeights

SlotsHeld ==
  /\ req \in [Requests -> [live : BOOLEAN, slot : Nat, computed : Nat]]
  /\ \A r \in Live : req[r].slot \in Slots
  /\ \A r, s \in Live : req[r].slot = req[s].slot => r = s

Shaped ==
  /\ DOMAIN shift_state = Layers /\ DOMAIN wkv_state = Layers
  /\ \A l \in Layers : DOMAIN shift_state[l] = {"att", "ffn"}

\* Who is in the pass, and how far it is.
InPass == IF pc \in Passing THEN RequestsOf(batch) ELSE {}

Batched ==
  pc \in Passing =>
    /\ BatchOf(batch, req)
    /\ layer \in Layers /\ (pc = "next" => layer + 1 < L) /\ (pc = "last" => layer + 1 = L)
    /\ \A b \in 1 .. Len(batch) : elapsed[batch[b].slot] = batch[b].first - 1

AttDone(l) == l < layer \/ (l = layer /\ (pc # "tmix" \/ pre_mix # <<>>))
WkvDone(l) == l < layer \/ (l = layer /\ pc # "tmix")
FfnDone(l) == l < layer \/ (l = layer /\ pc \in {"next", "last"})

StateIn(done, s) ==
  /\ Others(req, InPass, raced, s)
  /\ pc \in Passing => IF done THEN After(batch, raced, s) ELSE Before(batch, raced, s)

StatesRight ==
  \A l \in Layers : /\ StateIn(AttDone(l), shift_state[l]["att"])
                    /\ StateIn(WkvDone(l), wkv_state[l])
                    /\ StateIn(FfnDone(l), shift_state[l]["ffn"])

Counted ==
  \A r \in Requests \ InPass : req[r].live /\ req[r].computed > 0 =>
                                 elapsed[req[r].slot] = req[r].computed

RowsOK ==
  pc \in Passing =>
    /\ RowsRight(batch, raced, x) /\ RowsRight(batch, raced, xx)
    /\ RowsRight(batch, raced, v_first)
    /\ pre_mix # <<>> => RowsRight(batch, raced, pre_mix)

LogitsRight ==
  pc \in {"load", "idle"} =>
    \A b \in DOMAIN logits :
      RightIn(raced, batch[b].req, batch[b].first + batch[b].num - 1, logits[b])

RaisedRight == pc = "raised" => Uniform(batch) /\ cfg.rkv_mode # "off" /\ ~Orig("att_c2c")

ForwardInv ==
  /\ Prepared /\ RaisedRight
  /\ pc # "raised" =>
       /\ SlotsHeld /\ Shaped /\ Batched /\ StatesRight /\ Counted /\ RowsOK /\ LogitsRight
-----------------------------------------------------------------------------
(***************************************************************************)
(* Numbers and sums.                                                       *)
(***************************************************************************)
\* Every non-empty set of natural numbers has a least element.
LEMMA NatMin ==
  ASSUME NEW T \in SUBSET Nat, T # {}
  PROVE  \E n \in T : \A m \in T : n <= m
<1> DEFINE R == OpToRel(<, Nat)
<1>1. IsWellFoundedOn(R, Nat)
  BY NatLessThanWellFounded
<1>2. \E m \in T : \A y \in T : ~ (<<y, m>> \in R)
  <2> HIDE DEF R
  <2> QED BY <1>1, WFMin
<1>3. \A m, y \in T : y < m => <<y, m>> \in R
  <2> SUFFICES ASSUME NEW m \in T, NEW y \in T, y < m PROVE <<y, m>> \in R
    OBVIOUS
  <2> QED BY DEF OpToRel
<1> HIDE DEF R
<1>4. PICK m \in T : \A y \in T : ~ (<<y, m>> \in R)
  BY <1>2
<1>5. \A y \in T : ~(y < m)
  BY <1>3, <1>4
<1>6. m \in Nat /\ \A y \in T : y \in Nat
  OBVIOUS
<1>7. \A y \in T : m <= y
  BY <1>5, <1>6
<1> QED BY <1>7

\* If a set of natural numbers does not hold n, but some number, a least one is there with
\* its predecessor outside: induction on an interval.
LEMMA Induction ==
  ASSUME NEW low \in Nat, NEW high \in Nat, NEW Good, low \in Good,
         \A i \in low .. high : i + 1 <= high /\ i \in Good => i + 1 \in Good
  PROVE  \A i \in low .. high : i \in Good
<1> DEFINE Bad == {i \in low .. high : i \notin Good}
<1> SUFFICES ASSUME Bad # {} PROVE FALSE
  OBVIOUS
<1>1. Bad \in SUBSET Nat
  OBVIOUS
<1>2. PICK n \in Bad : \A m \in Bad : n <= m
  <2> HIDE DEF Bad
  <2> QED BY <1>1, NatMin
<1>3. n \in low .. high /\ n \notin Good /\ n # low
  BY <1>2
<1>4. n - 1 \in low .. high /\ n - 1 \notin Bad
  BY <1>2, <1>3
<1> QED BY <1>3, <1>4

\* A largest element of a set with a bound.
LEMMA MaxIs ==
  ASSUME NEW T \in SUBSET Nat, T # {}, NEW bound \in Nat, \A t \in T : t <= bound
  PROVE  Max(T) \in T /\ \A t \in T : t <= Max(T)
<1> DEFINE Above == {n \in Nat : \A t \in T : t <= n}
<1>1. Above \in SUBSET Nat /\ Above # {}
  OBVIOUS
<1>2. PICK n \in Above : \A m \in Above : n <= m
  <2> HIDE DEF Above
  <2> QED BY <1>1, NatMin
<1>3. n \in T
  <2> SUFFICES ASSUME n \notin T PROVE FALSE
    OBVIOUS
  <2>1. \A t \in T : t < n
    BY <1>2
  <2>2. n # 0
    <3>1. PICK t \in T : TRUE
      BY T # {}
    <3>2. t \in Nat /\ t < n
      BY <2>1
    <3> QED BY <3>2
  <2>3. n - 1 \in Above
    BY <2>1, <2>2, <1>2
  <2> QED BY <2>3, <1>2
<1>4. \A t \in T : n >= t
  BY <1>2
<1> QED BY <1>3, <1>4 DEF Max

\* The least element is what Min takes.
LEMMA MinIs ==
  ASSUME NEW T \in SUBSET Nat, T # {}
  PROVE  Min(T) \in T
<1>1. \E n \in T : \A m \in T : n <= m
  BY NatMin
<1> QED BY <1>1 DEF Min

\* What Offsets computes: a sum that grows by a chunk.
Sums(d, n, f) == f = [b \in 0 .. n |-> IF b = 0 THEN 0 ELSE f[b - 1] + d[b].num]

LEMMA SumsExist ==
  ASSUME NEW d, NEW N \in Nat
  PROVE  \E f : Sums(d, N, f)
<1> DEFINE Good == {n \in Nat : \E f : Sums(d, n, f)}
<1>1. 0 \in Good
  <2> DEFINE f == [b \in 0 .. 0 |-> 0]
  <2>1. f = [b \in 0 .. 0 |-> IF b = 0 THEN 0 ELSE f[b - 1] + d[b].num]
    OBVIOUS
  <2> HIDE DEF f
  <2> QED BY <2>1 DEF Sums
<1>2. ASSUME NEW n \in Nat, n \in Good PROVE n + 1 \in Good
  <2>1. PICK g : Sums(d, n, g)
    BY <1>2
  <2> DEFINE f == [b \in 0 .. n + 1 |-> IF b <= n THEN g[b] ELSE g[n] + d[b].num]
             h == [b \in 0 .. n + 1 |-> IF b = 0 THEN 0 ELSE f[b - 1] + d[b].num]
  <2>2. ASSUME NEW b \in 0 .. n + 1 PROVE f[b] = h[b]
    <3>1. CASE b = 0
      BY <2>1, <3>1 DEF Sums
    <3>2. CASE b \in 1 .. n
      <4>1. g[b] = g[b - 1] + d[b].num
        BY <2>1, <3>2 DEF Sums
      <4>2. b - 1 \in 0 .. n + 1 /\ b - 1 <= n
        BY <3>2
      <4> QED BY <3>2, <4>1, <4>2
    <3>3. CASE b = n + 1
      <4>1. b - 1 \in 0 .. n + 1 /\ b - 1 = n /\ b # 0 /\ ~(b <= n)
        BY <3>3
      <4> QED BY <4>1
    <3> QED BY <3>1, <3>2, <3>3
  <2>3. f = h
    <3>1. DOMAIN f = DOMAIN h
      OBVIOUS
    <3> QED BY <2>2
  <2> HIDE DEF f
  <2> QED BY <2>3 DEF Sums
<1>3. \A i \in 0 .. N : i \in Good
  <2> HIDE DEF Good
  <2> QED BY <1>1, <1>2, Induction
<1> QED BY <1>3

LEMMA OffsetsAre ==
  ASSUME NEW d, Len(d) \in Nat, \A b \in 1 .. Len(d) : d[b].num \in Nat
  PROVE  /\ Offsets(d)[0] = 0
         /\ \A b \in 1 .. Len(d) : Offsets(d)[b] = Offsets(d)[b - 1] + d[b].num
         /\ \A b \in 0 .. Len(d) : Offsets(d)[b] \in Nat
<1>1. Sums(d, Len(d), Offsets(d))
  <2>1. \E f : Sums(d, Len(d), f)
    BY SumsExist
  <2>2. Offsets(d) = CHOOSE f : Sums(d, Len(d), f)
    BY DEF Offsets, Sums
  <2> QED BY <2>1, <2>2
<1> DEFINE f == Offsets(d)
           Good == {b \in 0 .. Len(d) : f[b] \in Nat}
<1>2. /\ f[0] = 0
      /\ \A b \in 1 .. Len(d) : f[b] = f[b - 1] + d[b].num
  <2> HIDE DEF f
  <2> QED BY <1>1 DEF Sums, f
<1> HIDE DEF f
<1>3. \A b \in 0 .. Len(d) : b \in Good
  <2>1. 0 \in Good
    BY <1>2
  <2>2. ASSUME NEW b \in 0 .. Len(d), b + 1 <= Len(d), b \in Good PROVE b + 1 \in Good
    <3>1. b + 1 \in 1 .. Len(d)
      BY <2>2
    <3>2. f[b + 1] = f[b] + d[b + 1].num /\ d[b + 1].num \in Nat
      BY <1>2, <3>1
    <3> QED BY <2>2, <3>2
  <2> HIDE DEF Good
  <2> QED BY <2>1, <2>2, Induction
<1> QED BY <1>2, <1>3 DEF f
-----------------------------------------------------------------------------
(***************************************************************************)
(* Rows.                                                                   *)
(***************************************************************************)
\* The chunks of a batch part its rows.
LEMMA Parted ==
  ASSUME NEW d, BatchShape(d)
  PROVE  /\ Offsets(d)[0] = 0
         /\ \A b \in 1 .. Len(d) : Offsets(d)[b] = Offsets(d)[b - 1] + d[b].num
         /\ \A b \in 0 .. Len(d) : Offsets(d)[b] \in Nat
         /\ \A b, c \in 0 .. Len(d) : b <= c => Offsets(d)[b] <= Offsets(d)[c]
         /\ \A i \in 1 .. Offsets(d)[Len(d)] : \E b \in 1 .. Len(d) :
              i \in Offsets(d)[b - 1] + 1 .. Offsets(d)[b]
         /\ \A b, c \in 1 .. Len(d) :
              \A i \in Offsets(d)[b - 1] + 1 .. Offsets(d)[b] :
                i \in Offsets(d)[c - 1] + 1 .. Offsets(d)[c] => b = c
<1> DEFINE f == Offsets(d)
           N == Len(d)
<1>1. N \in Nat \ {0} /\ \A b \in 1 .. N : d[b].num \in Nat \ {0}
  BY ForwardAssumption DEF BatchShape
<1>2. /\ f[0] = 0
      /\ \A b \in 1 .. N : f[b] = f[b - 1] + d[b].num
      /\ \A b \in 0 .. N : f[b] \in Nat
  BY <1>1, OffsetsAre
<1> HIDE DEF f, N
<1>3. ASSUME NEW b \in 0 .. N, NEW c \in 0 .. N, b <= c PROVE f[b] <= f[c]
  <2> DEFINE Good == {e \in b .. N : f[b] <= f[e]}
  <2>1. b \in Good
    BY <1>1, <1>2
  <2>2. ASSUME NEW e \in b .. N, e + 1 <= N, e \in Good PROVE e + 1 \in Good
    <3>1. e + 1 \in 1 .. N /\ e \in 0 .. N
      BY <2>2, <1>1
    <3>2. f[e + 1] = f[e] + d[e + 1].num /\ d[e + 1].num \in Nat /\ f[e] \in Nat /\ f[b] \in Nat
      BY <3>1, <1>1, <1>2
    <3> QED BY <2>2, <3>1, <3>2
  <2>3. b \in Nat /\ N \in Nat
    BY <1>1
  <2> HIDE DEF Good
  <2>4. \A e \in b .. N : e \in Good
    BY <2>1, <2>2, <2>3, Induction
  <2> QED BY <2>4, <1>3, <1>1 DEF Good
<1>4. ASSUME NEW i \in 1 .. f[N] PROVE \E b \in 1 .. N : i \in f[b - 1] + 1 .. f[b]
  <2> DEFINE T == {c \in 0 .. N : i <= f[c]}
  <2>1. N \in T /\ T \in SUBSET Nat
    BY <1>1, <1>2
  <2>2. PICK c \in T : \A e \in T : c <= e
    <3> HIDE DEF T
    <3> QED BY <2>1, NatMin
  <2>3. c \in 1 .. N
    BY <2>2, <1>2
  <2>4. c - 1 \in 0 .. N /\ c - 1 \notin T
    <3>1. c - 1 \in 0 .. N /\ ~(c <= c - 1)
      BY <2>3, <1>1
    <3> QED BY <3>1, <2>2
  <2>5. f[c - 1] \in Nat /\ f[c] \in Nat /\ f[c - 1] < i /\ i <= f[c]
    BY <2>2, <2>3, <2>4, <1>2
  <2> QED BY <2>3, <2>5
<1>5. ASSUME NEW b \in 1 .. N, NEW c \in 1 .. N, NEW i \in f[b - 1] + 1 .. f[b],
             i \in f[c - 1] + 1 .. f[c]
      PROVE  b = c
  <2>1. /\ b - 1 \in 0 .. N /\ c - 1 \in 0 .. N
        /\ f[b - 1] \in Nat /\ f[c - 1] \in Nat /\ f[b] \in Nat /\ f[c] \in Nat
    <3>1. b - 1 \in 0 .. N /\ c - 1 \in 0 .. N /\ b \in 0 .. N /\ c \in 0 .. N
      BY <1>1
    <3> QED BY <3>1, <1>2
  <2>2. CASE b < c
    <3>1. f[b] <= f[c - 1]
      BY <1>3, <2>1, <2>2
    <3> QED BY <3>1, <2>1, <1>5
  <2>3. CASE c < b
    <3>1. f[c] <= f[b - 1]
      BY <1>3, <2>1, <2>3
    <3> QED BY <3>1, <2>1, <1>5
  <2> QED BY <2>2, <2>3
<1> QED BY <1>2, <1>3, <1>4, <1>5 DEF f, N

\* If the chunks together have as many rows as if all had M, and none has more, all have.
LEMMA AllEqual ==
  ASSUME NEW d, BatchShape(d), NEW M \in Nat, \A b \in 1 .. Len(d) : d[b].num <= M,
         Offsets(d)[Len(d)] = Len(d) * M
  PROVE  \A b \in 0 .. Len(d) : Offsets(d)[b] = b * M
<1> DEFINE f == Offsets(d)
           N == Len(d)
<1>1. /\ N \in Nat \ {0} /\ f[0] = 0 /\ f[N] = N * M
      /\ \A b \in 1 .. N : f[b] = f[b - 1] + d[b].num /\ d[b].num \in Nat /\ d[b].num <= M
      /\ \A b \in 0 .. N : f[b] \in Nat
  <2>1. N \in Nat \ {0} /\ \A b \in 1 .. N : d[b].num \in Nat
    BY ForwardAssumption DEF BatchShape
  <2>2. f[0] = 0 /\ \A b \in 1 .. N : f[b] = f[b - 1] + d[b].num
    BY Parted
  <2>3. \A b \in 0 .. N : f[b] \in Nat
    BY Parted
  <2> QED BY <2>1, <2>2, <2>3
<1> HIDE DEF f, N
<1> DEFINE Low == {b \in 0 .. N : f[b] <= b * M}
<1>2. \A b \in 0 .. N : b \in Low
  <2>1. 0 \in Low
    BY <1>1
  <2>2. ASSUME NEW b \in 0 .. N, b + 1 <= N, b \in Low PROVE b + 1 \in Low
    <3>1. b + 1 \in 1 .. N /\ f[b] <= b * M /\ f[b] \in Nat
      BY <2>2, <1>1
    <3>2. f[b + 1] = f[b] + d[b + 1].num /\ d[b + 1].num \in Nat /\ d[b + 1].num <= M
      BY <3>1, <1>1
    <3>3. (b + 1) * M = b * M + M /\ b * M \in Nat
      OBVIOUS
    <3> DEFINE u == f[b]
               v == b * M
               n == d[b + 1].num
    <3>4. u \in Nat /\ v \in Nat /\ n \in Nat /\ u <= v /\ n <= M
      BY <3>1, <3>2, <3>3
    <3>5. f[b + 1] = u + n /\ (b + 1) * M = v + M
      BY <3>2, <3>3
    <3> HIDE DEF u, v, n
    <3>6. u + n <= v + M
      BY <3>4
    <3>7. f[b + 1] <= (b + 1) * M
      BY <3>5, <3>6
    <3> QED BY <3>1, <3>7
  <2> HIDE DEF Low
  <2> QED BY <2>1, <2>2, <1>1, Induction
<1>3. ASSUME NEW b \in 0 .. N, f[b] # b * M PROVE FALSE
  <2> DEFINE Lower == {c \in b .. N : f[c] < c * M}
  <2>1. b \in Lower
    <3>1. N \in Nat /\ b \in Nat /\ b <= N
      BY <1>1
    <3>2. b \in b .. N
      BY <3>1
    <3> DEFINE u == f[b]
               v == b * M
    <3>3. u <= v
      BY <1>2
    <3>4. u \in Nat /\ u # v
      BY <1>1, <1>3
    <3>5. v \in Nat
      BY <3>1
    <3> HIDE DEF u, v
    <3>6. u < v
      BY <3>3, <3>4, <3>5
    <3> QED BY <3>2, <3>6 DEF u, v
  <2>2. ASSUME NEW c \in b .. N, c + 1 <= N, c \in Lower PROVE c + 1 \in Lower
    <3>1. c + 1 \in 1 .. N /\ c \in 0 .. N /\ f[c] < c * M /\ f[c] \in Nat
      BY <2>2, <1>1
    <3>2. f[c + 1] = f[c] + d[c + 1].num /\ d[c + 1].num \in Nat /\ d[c + 1].num <= M
      BY <3>1, <1>1
    <3>3. (c + 1) * M = c * M + M /\ c * M \in Nat
      BY <3>1
    <3> DEFINE u == f[c]
               v == c * M
               n == d[c + 1].num
    <3>4. u \in Nat /\ v \in Nat /\ n \in Nat /\ u < v /\ n <= M
      BY <3>1, <3>2, <3>3
    <3>5. f[c + 1] = u + n /\ (c + 1) * M = v + M
      BY <3>2, <3>3
    <3> HIDE DEF u, v, n
    <3>6. u + n < v + M
      BY <3>4
    <3>7. f[c + 1] < (c + 1) * M
      BY <3>5, <3>6
    <3>8. c + 1 \in b .. N
      BY <2>2, <3>1
    <3> QED BY <3>7, <3>8
  <2> HIDE DEF Lower
  <2>3. \A c \in b .. N : c \in Lower
    <3>1. b \in Nat /\ N \in Nat
      BY <1>1
    <3> QED BY <2>1, <2>2, <3>1, Induction
  <2>4. N \in Lower
    BY <2>3, <1>1
  <2> QED BY <2>4, <1>1 DEF Lower
<1> QED BY <1>3 DEF f, N

\* Both ways to find the rows of a request are the same: its chunk of them.
LEMMA RowsFound ==
  ASSUME BatchShape(batch)
  PROVE  LET f == Offsets(batch) IN
         /\ B = Len(batch) /\ Total = f[B] /\ Total \in Nat
         /\ MaxT \in Nat \ {0} /\ \A b \in 1 .. B : batch[b].num <= MaxT
         /\ Uniform(batch) <=> IsUniform
         /\ \A b \in 1 .. B : FirstRow(b) = f[b - 1] + 1 /\ LastRow(b) = f[b]
<1> DEFINE f == Offsets(batch)
           nums == {batch[b].num : b \in 1 .. B}
<1>1. /\ B = Len(batch) /\ B \in Nat \ {0}
      /\ \A b \in 1 .. B : batch[b].num \in 1 .. MaxTokens
  BY DEF B, BatchShape
<1>2. \A b \in 0 .. B : f[b] \in Nat
  BY <1>1, Parted
<1>3. Total = f[B] /\ \A b \in 0 .. B : QueryStartLoc(b + 1) = f[b]
  BY <1>1 DEF Total, QueryStartLoc
<1>4. MaxT \in nums /\ \A t \in nums : t <= MaxT
  <2>1. nums \in SUBSET Nat /\ nums # {} /\ MaxTokens \in Nat /\ \A t \in nums : t <= MaxTokens
    <3>1. batch[1].num \in nums
      BY <1>1
    <3> QED BY <1>1, <3>1, ForwardAssumption
  <2> HIDE DEF nums
  <2>2. Max(nums) \in nums /\ \A t \in nums : t <= Max(nums)
    BY <2>1, MaxIs
  <2>3. MaxT = Max(nums)
    BY DEF MaxT, nums
  <2> QED BY <2>2, <2>3
<1>5. MaxT \in Nat \ {0} /\ \A b \in 1 .. B : batch[b].num <= MaxT
  BY <1>1, <1>4, ForwardAssumption
<1>6. Uniform(batch) <=> IsUniform
  BY <1>1, <1>3 DEF Uniform, IsUniform, MaxT
<1>7. ASSUME NEW b \in 1 .. B PROVE FirstRow(b) = f[b - 1] + 1 /\ LastRow(b) = f[b]
  <2>1. b - 1 \in 0 .. B /\ QueryStartLoc(b) = f[b - 1] /\ QueryStartLoc(b + 1) = f[b]
    <3>1. b - 1 \in 0 .. B /\ b \in 0 .. B /\ (b - 1) + 1 = b
      BY <1>1
    <3> QED BY <3>1, <1>3
  <2>2. CASE ~IsUniform
    BY <2>1, <2>2 DEF FirstRow, LastRow
  <2>3. CASE IsUniform
    <3>1. \A c \in 0 .. B : f[c] = c * MaxT
      <4>1. f[B] = B * MaxT
        BY <2>3, <1>3 DEF IsUniform
      <4> QED BY <4>1, <1>1, <1>5, AllEqual
    <3>2. f[b - 1] = (b - 1) * MaxT /\ f[b] = b * MaxT
      BY <2>1, <3>1
    <3> QED BY <2>3, <3>2 DEF FirstRow, LastRow
  <2> QED BY <2>2, <2>3
<1> QED BY <1>1, <1>2, <1>3, <1>5, <1>6, <1>7

\* Row i is that of token t of chunk b.
IsRow(i, b, t) == b \in 1 .. B /\ t \in 1 .. batch[b].num /\ i = Offsets(batch)[b - 1] + t

LEMMA RowsAre ==
  ASSUME BatchShape(batch)
  PROVE  /\ \A i \in 1 .. Total : \E b, t : IsRow(i, b, t)
         /\ \A i, b, t : IsRow(i, b, t) =>
              /\ i \in 1 .. Total /\ ReqId(i) = b /\ t \in Nat
              /\ (i > FirstRow(b) <=> t > 1)
              /\ t > 1 => IsRow(i - 1, b, t - 1)
         /\ \A b \in 1 .. B : IsRow(LastRow(b), b, batch[b].num)
<1> DEFINE f == Offsets(batch)
<1>1. /\ B = Len(batch) /\ Total = f[B] /\ Total \in Nat /\ B \in Nat \ {0}
      /\ \A b \in 1 .. B : FirstRow(b) = f[b - 1] + 1 /\ LastRow(b) = f[b]
      /\ \A b \in 1 .. B : batch[b].num \in Nat \ {0}
  BY RowsFound, ForwardAssumption DEF BatchShape
<1>2. /\ \A b \in 1 .. B : f[b] = f[b - 1] + batch[b].num
      /\ \A b \in 0 .. B : f[b] \in Nat
      /\ \A b, c \in 0 .. B : b <= c => f[b] <= f[c]
      /\ \A i \in 1 .. f[B] : \E b \in 1 .. B : i \in f[b - 1] + 1 .. f[b]
      /\ \A b, c \in 1 .. B : \A i \in f[b - 1] + 1 .. f[b] : i \in f[c - 1] + 1 .. f[c] => b = c
  BY <1>1, Parted
<1> HIDE DEF f
<1>3. ASSUME NEW i \in 1 .. Total PROVE \E b, t : IsRow(i, b, t)
  <2>1. PICK b \in 1 .. B : i \in f[b - 1] + 1 .. f[b]
    BY <1>1, <1>2
  <2>2. b - 1 \in 0 .. B /\ f[b - 1] \in Nat /\ f[b] \in Nat /\ f[b] = f[b - 1] + batch[b].num
    <3>1. b - 1 \in 0 .. B /\ b \in 0 .. B
      BY <1>1
    <3> QED BY <3>1, <1>2
  <2>3. i - f[b - 1] \in 1 .. batch[b].num /\ i = f[b - 1] + (i - f[b - 1])
    <3> DEFINE low == f[b - 1]
               high == f[b]
               n == batch[b].num
    <3>1. low \in Nat /\ high = low + n /\ n \in Nat /\ i \in low + 1 .. high
      BY <2>1, <2>2, <1>1
    <3> HIDE DEF low, high, n
    <3>2. i - low \in 1 .. n /\ i = low + (i - low)
      BY <3>1
    <3> QED BY <3>2 DEF low, n
  <2> QED BY <2>1, <2>3 DEF IsRow, f
<1>4. ASSUME NEW i, NEW b, NEW t, IsRow(i, b, t)
      PROVE  /\ i \in 1 .. Total /\ ReqId(i) = b /\ t \in Nat
             /\ (i > FirstRow(b) <=> t > 1)
             /\ t > 1 => IsRow(i - 1, b, t - 1)
  <2>1. b \in 1 .. B /\ t \in 1 .. batch[b].num /\ i = f[b - 1] + t
    BY <1>4 DEF IsRow, f
  <2>2. /\ b - 1 \in 0 .. B /\ b \in 0 .. B /\ B \in 0 .. B
        /\ f[b - 1] \in Nat /\ f[b] \in Nat /\ f[b] = f[b - 1] + batch[b].num /\ f[b] <= f[B]
        /\ batch[b].num \in Nat
    <3>1. b - 1 \in 0 .. B /\ b \in 0 .. B /\ B \in 0 .. B /\ b <= B /\ batch[b].num \in Nat
      BY <2>1, <1>1
    <3>2. f[b - 1] \in Nat /\ f[b] \in Nat /\ f[b] = f[b - 1] + batch[b].num
      BY <2>1, <3>1, <1>2
    <3>3. f[b] <= f[B]
      BY <3>1, <1>2
    <3> QED BY <3>1, <3>2, <3>3
  <2>3. i \in f[b - 1] + 1 .. f[b] /\ i \in 1 .. Total /\ t \in Nat
    <3>1. t \in Nat /\ 1 <= t /\ t <= batch[b].num
      BY <2>1, <2>2
    <3>2. i \in Nat /\ f[b - 1] + 1 <= i /\ i <= f[b]
      BY <3>1, <2>1, <2>2
    <3>3. 1 <= i /\ i <= Total /\ Total \in Nat
      BY <3>2, <2>2, <1>1
    <3> QED BY <3>1, <3>2, <3>3, <2>2
  <2>4. ReqId(i) = b
    <3>1. \A c \in 1 .. B : FirstRow(c) .. LastRow(c) = f[c - 1] + 1 .. f[c]
      BY <1>1
    <3>2. \A c \in 1 .. B : i \in FirstRow(c) .. LastRow(c) => c = b
      BY <3>1, <2>1, <2>3, <1>2
    <3>3. i \in FirstRow(b) .. LastRow(b)
      BY <3>1, <2>1, <2>3
    <3> QED BY <3>2, <3>3, <2>1 DEF ReqId
  <2>5. i > FirstRow(b) <=> t > 1
    BY <2>1, <2>2, <2>3, <1>1
  <2>6. t > 1 => IsRow(i - 1, b, t - 1)
    <3> SUFFICES ASSUME t > 1 PROVE IsRow(i - 1, b, t - 1)
      OBVIOUS
    <3>1. t - 1 \in 1 .. batch[b].num /\ i - 1 = f[b - 1] + (t - 1)
      BY <2>1, <2>2
    <3> QED BY <3>1, <2>1 DEF IsRow, f
  <2> QED BY <2>3, <2>4, <2>5, <2>6
<1>5. ASSUME NEW b \in 1 .. B PROVE IsRow(LastRow(b), b, batch[b].num)
  <2> DEFINE n == batch[b].num
  <2>1. n \in Nat \ {0} /\ LastRow(b) = f[b]
    BY <1>1
  <2>2. f[b] = f[b - 1] + n
    BY <1>2
  <2>3. n \in 1 .. n
    <3> HIDE DEF n
    <3> QED BY <2>1
  <2> QED BY <2>1, <2>2, <2>3 DEF IsRow, f
<1> QED BY <1>3, <1>4, <1>5

LEMMA RightRows ==
  ASSUME BatchShape(batch), NEW R, NEW f
  PROVE  RowsRight(batch, R, f) <=>
           \A i, b, t : IsRow(i, b, t) => RightIn(R, batch[b].req, batch[b].first + t - 1, f[i])
<1>1. B = Len(batch)
  BY DEF B
<1> QED BY <1>1 DEF RowsRight, IsRow
-----------------------------------------------------------------------------
(***************************************************************************)
(* Values.                                                                 *)
(***************************************************************************)
\* Two values of one token make one of it.
LEMMA JoinRight ==
  ASSUME NEW R, NEW r, NEW k, NEW v, NEW w, RightIn(R, r, k, v), RightIn(R, r, k, w)
  PROVE  RightIn(R, r, k, Join(v, w))
<1>1. v.of = r /\ w.of = r
  BY DEF RightIn
<1>2. CASE v = w
  BY <1>2 DEF Join
<1>3. CASE v # w
  <2>1. r \in R
    BY <1>3 DEF RightIn
  <2>2. Join(v, w) = Wrong(r)
    BY <1>1, <1>3 DEF Join
  <2> QED BY <2>1, <2>2 DEF RightIn, Wrong
<1> QED BY <1>2, <1>3

\* A value behind the one before it is right; behind any of a request that has raced, its own.
LEMMA FollowRight ==
  ASSUME NEW R, NEW r, NEW k \in Nat \ {0}, NEW prev, NEW cur, RightIn(R, r, k, cur),
         At(R, r, k - 1, prev) \/ (r \in R /\ prev.of = r)
  PROVE  RightIn(R, r, k, Follow(prev, cur))
<1>1. CASE r \in R
  <2>1. cur.of = r /\ prev.of \in {0, r}
    BY <1>1 DEF RightIn, At, Zero
  <2>2. Follow(prev, cur) = cur \/ Follow(prev, cur) = Wrong(r)
    BY <2>1 DEF Follow
  <2>3. Follow(prev, cur).of = r
    BY <2>1, <2>2 DEF Wrong
  <2> QED BY <1>1, <2>3 DEF RightIn
<1>2. CASE r \notin R
  <2>1. cur = [of |-> r, n |-> k] /\ cur.n = k /\ k > 0
    BY <1>2 DEF RightIn
  <2>2. prev = IF cur.n = 1 THEN Zero ELSE [cur EXCEPT !.n = @ - 1]
    <3>1. CASE k = 1
      BY <1>2, <3>1, <2>1 DEF At
    <3>2. CASE k # 1
      <4>1. prev = [of |-> r, n |-> k - 1]
        BY <1>2, <3>2 DEF At, RightIn
      <4> QED BY <3>2, <4>1, <2>1
    <3> QED BY <3>1, <3>2
  <2>3. Follow(prev, cur) = cur
    BY <2>1, <2>2 DEF Follow
  <2> QED BY <2>1, <2>3 DEF RightIn
<1> QED BY <1>1, <1>2

LEMMA JoinRowsRight ==
  ASSUME BatchShape(batch), NEW R, NEW f, NEW g,
         RowsRight(batch, R, f), RowsRight(batch, R, g)
  PROVE  RowsRight(batch, R, JoinRows(f, g))
<1> SUFFICES ASSUME NEW i, NEW b, NEW t, IsRow(i, b, t)
             PROVE  RightIn(R, batch[b].req, batch[b].first + t - 1, JoinRows(f, g)[i])
  BY RightRows
<1>1. JoinRows(f, g)[i] = Join(f[i], g[i])
  BY RowsAre DEF JoinRows
<1>2. /\ RightIn(R, batch[b].req, batch[b].first + t - 1, f[i])
      /\ RightIn(R, batch[b].req, batch[b].first + t - 1, g[i])
  BY RightRows
<1> QED BY <1>1, <1>2, JoinRight

\* A token shift: where a first row may read what the last one wrote, the request has raced.
LEMMA TokenShiftRight ==
  ASSUME BatchShape(batch), NEW R, NEW rows, NEW shift, NEW early,
         RowsRight(batch, R, rows), Before(batch, R, shift),
         \A b \in early : batch[b].req \in R
  PROVE  RowsRight(batch, R, TokenShift(rows, shift, early))
<1> SUFFICES ASSUME NEW i, NEW b, NEW t, IsRow(i, b, t)
             PROVE  RightIn(R, batch[b].req, batch[b].first + t - 1,
                            TokenShift(rows, shift, early)[i])
  BY RightRows
<1> DEFINE r == batch[b].req
           k == batch[b].first + t - 1
<1>1. /\ i \in 1 .. Total /\ ReqId(i) = b /\ t \in Nat \ {0} /\ b \in 1 .. B /\ B = Len(batch)
      /\ batch[b].first \in Nat \ {0} /\ (i > FirstRow(b) <=> t > 1)
      /\ t > 1 => IsRow(i - 1, b, t - 1)
  <2>1. b \in 1 .. B /\ B = Len(batch) /\ t \in 1 .. batch[b].num
    BY DEF IsRow, B
  <2>2. batch[b].first \in Nat \ {0}
    BY <2>1 DEF BatchShape
  <2>3. /\ i \in 1 .. Total /\ ReqId(i) = b /\ t \in Nat /\ (i > FirstRow(b) <=> t > 1)
        /\ t > 1 => IsRow(i - 1, b, t - 1)
    BY RowsAre
  <2> QED BY <2>1, <2>2, <2>3
<1>2. RightIn(R, r, k, rows[i]) /\ k \in Nat \ {0}
  BY <1>1, RightRows
<1>3. CASE t > 1
  <2>1. TokenShift(rows, shift, early)[i] = Follow(rows[i - 1], rows[i])
    BY <1>1, <1>3 DEF TokenShift
  <2>2. RightIn(R, r, batch[b].first + (t - 1) - 1, rows[i - 1])
    BY <1>1, <1>3, RightRows
  <2>3. At(R, r, k - 1, rows[i - 1])
    <3> DEFINE n == batch[b].first
    <3>1. n \in Nat \ {0} /\ t \in Nat /\ k = n + t - 1
      BY <1>1
    <3> HIDE DEF n, k
    <3>2. n + (t - 1) - 1 = k - 1 /\ k - 1 \in Nat \ {0}
      BY <3>1, <1>3
    <3>3. RightIn(R, r, n + (t - 1) - 1, rows[i - 1])
      BY <2>2 DEF n
    <3> HIDE DEF r
    <3>4. RightIn(R, r, k - 1, rows[i - 1])
      BY <3>2, <3>3, Zenon
    <3>5. k - 1 # 0
      BY <3>2
    <3> QED BY <3>4, <3>5 DEF At
  <2> QED BY <2>1, <2>3, <1>2, FollowRight
<1>4. CASE t = 1 /\ b \in early
  <2>1. TokenShift(rows, shift, early)[i] = Follow(rows[LastRow(b)], rows[i])
    BY <1>1, <1>4 DEF TokenShift
  <2>2. IsRow(LastRow(b), b, batch[b].num)
    BY <1>1, RowsAre
  <2>3. RightIn(R, r, batch[b].first + batch[b].num - 1, rows[LastRow(b)])
    BY <2>2, RightRows
  <2>4. rows[LastRow(b)].of = r /\ r \in R
    BY <2>3, <1>4 DEF RightIn
  <2> QED BY <2>1, <2>4, <1>2, FollowRight
<1>5. CASE t = 1 /\ b \notin early
  <2>1. TokenShift(rows, shift, early)[i] = Follow(shift[batch[b].slot], rows[i])
    BY <1>1, <1>5 DEF TokenShift
  <2>2. At(R, r, batch[b].first - 1, shift[batch[b].slot]) /\ k - 1 = batch[b].first - 1
    BY <1>1, <1>5 DEF Before
  <2> QED BY <2>1, <2>2, <1>2, FollowRight
<1> QED BY <1>1, <1>3, <1>4, <1>5

\* A slot of the batch is one chunk's; the others' slots are nobody's in it.
LEMMA SlotsApart ==
  ASSUME BatchOf(batch, req), SlotsHeld
  PROVE  /\ \A b \in 1 .. B : batch[b].slot \in Slots /\ InBatch(batch[b].slot) = {b}
         /\ \A r \in Live \ RequestsOf(batch) : req[r].slot \in Slots /\ InBatch(req[r].slot) = {}
<1>1. /\ B = Len(batch)
      /\ \A b \in 1 .. B : batch[b].req \in Live /\ batch[b].slot = req[batch[b].req].slot
      /\ \A b, c \in 1 .. B : batch[b].req = batch[c].req => b = c
  BY DEF B, BatchOf, Live
<1>2. /\ \A r \in Live : req[r].slot \in Slots
      /\ \A r, q \in Live : req[r].slot = req[q].slot => r = q
  BY DEF SlotsHeld
<1>3. ASSUME NEW b \in 1 .. B PROVE batch[b].slot \in Slots /\ InBatch(batch[b].slot) = {b}
  <2>1. \A c \in 1 .. B : batch[c].slot = batch[b].slot => c = b
    BY <1>1, <1>2
  <2> QED BY <1>1, <1>2, <2>1 DEF InBatch
<1>4. ASSUME NEW r \in Live \ RequestsOf(batch)
      PROVE  req[r].slot \in Slots /\ InBatch(req[r].slot) = {}
  <2>1. \A c \in 1 .. B : batch[c].req # r
    BY <1>1 DEF RequestsOf
  <2>2. \A c \in 1 .. B : batch[c].slot # req[r].slot
    BY <1>1, <1>2, <2>1
  <2> QED BY <1>2, <2>2 DEF InBatch
<1> QED BY <1>3, <1>4

LEMMA ShiftedRight ==
  ASSUME BatchOf(batch, req), SlotsHeld, NEW R, NEW rows, NEW shift,
         RowsRight(batch, R, rows)
  PROVE  /\ After(batch, R, Shifted(rows, shift))
         /\ Others(req, RequestsOf(batch), R, shift) =>
              Others(req, RequestsOf(batch), R, Shifted(rows, shift))
<1>1. B = Len(batch) /\ BatchShape(batch)
  BY DEF B, BatchOf
<1>2. ASSUME NEW b \in 1 .. B
      PROVE  RightIn(R, batch[b].req, batch[b].first + batch[b].num - 1,
                     Shifted(rows, shift)[batch[b].slot])
  <2>1. batch[b].slot \in Slots /\ InBatch(batch[b].slot) = {b}
    BY SlotsApart
  <2>2. (CHOOSE c \in InBatch(batch[b].slot) : TRUE) = b
    BY <2>1
  <2>3. Shifted(rows, shift)[batch[b].slot] = rows[LastRow(b)]
    BY <2>1, <2>2 DEF Shifted
  <2>4. IsRow(LastRow(b), b, batch[b].num)
    BY <1>1, RowsAre
  <2> QED BY <2>3, <2>4, <1>1, RightRows
<1>3. ASSUME NEW r \in Live \ RequestsOf(batch)
      PROVE  Shifted(rows, shift)[req[r].slot] = shift[req[r].slot]
  <2>1. req[r].slot \in Slots /\ InBatch(req[r].slot) = {}
    BY SlotsApart
  <2> QED BY <2>1 DEF Shifted
<1>4. After(batch, R, Shifted(rows, shift))
  BY <1>1, <1>2 DEF After
<1>5. ASSUME Others(req, RequestsOf(batch), R, shift)
      PROVE  Others(req, RequestsOf(batch), R, Shifted(rows, shift))
  <2> SUFFICES ASSUME NEW r \in Requests \ RequestsOf(batch), req[r].live, req[r].computed > 0
               PROVE  RightIn(R, r, req[r].computed, Shifted(rows, shift)[req[r].slot])
    BY DEF Others
  <2>1. r \in Live \ RequestsOf(batch)
    BY DEF Live
  <2>2. RightIn(R, r, req[r].computed, shift[req[r].slot])
    BY <1>5 DEF Others
  <2> QED BY <2>1, <2>2, <1>3
<1> QED BY <1>4, <1>5
-----------------------------------------------------------------------------
(***************************************************************************)
(* The wkv recurrence.                                                     *)
(***************************************************************************)
Turn(v, i, prev) == IF OnTime(ReqId(i)) THEN Follow(prev, v[i]) ELSE Wrong(v[i].of)
Prior(y, i) == IF i > FirstRow(ReqId(i)) THEN y[i - 1]
               ELSE wkv_state[layer][batch[ReqId(i)].slot]
Recurs(v, n, y) == y = [i \in 1 .. n |-> Turn(v, i, Prior(y, i))]

LEMMA WkvExists ==
  ASSUME BatchShape(batch), NEW v
  PROVE  Recurs(v, Total, Wkv(v))
<1>1. Total \in Nat
  BY RowsFound
<1>2. ASSUME NEW i \in 1 .. Total PROVE i > FirstRow(ReqId(i)) => i - 1 \in 1 .. Total
  <2>1. PICK b, t : IsRow(i, b, t)
    BY RowsAre
  <2>2. ReqId(i) = b /\ (i > FirstRow(b) <=> t > 1) /\ (t > 1 => IsRow(i - 1, b, t - 1))
    BY <2>1, RowsAre
  <2> QED BY <2>2, RowsAre
<1> DEFINE Good == {n \in 0 .. Total : \E y : Recurs(v, n, y)}
<1>3. 0 \in Good
  <2>1. Recurs(v, 0, [i \in 1 .. 0 |-> Turn(v, i, Prior(<<>>, i))])
    BY DEF Recurs
  <2> QED BY <1>1, <2>1
<1>4. ASSUME NEW n \in 0 .. Total, n + 1 <= Total, n \in Good PROVE n + 1 \in Good
  <2>1. PICK y : Recurs(v, n, y)
    BY <1>4
  <2> DEFINE z == [i \in 1 .. n + 1 |-> Turn(v, i, Prior(y, i))]
             w == [i \in 1 .. n + 1 |-> Turn(v, i, Prior(z, i))]
  <2>2. \A i \in 1 .. n : y[i] = Turn(v, i, Prior(y, i))
    BY <2>1 DEF Recurs
  <2>3. ASSUME NEW i \in 1 .. n PROVE z[i] = y[i]
    BY <2>2
  <2>4. ASSUME NEW i \in 1 .. n + 1 PROVE Prior(z, i) = Prior(y, i)
    <3>1. CASE i > FirstRow(ReqId(i))
      <4>1. i - 1 \in 1 .. n
        BY <1>2, <3>1, <1>4, <1>1
      <4>2. z[i - 1] = y[i - 1]
        BY <4>1, <2>3
      <4> HIDE DEF z
      <4> QED BY <4>2, <3>1 DEF Prior
    <3>2. CASE ~(i > FirstRow(ReqId(i)))
      <4> HIDE DEF z
      <4> QED BY <3>2 DEF Prior
    <3> QED BY <3>1, <3>2
  <2>5. z = w
    <3> SUFFICES ASSUME NEW i \in 1 .. n + 1 PROVE z[i] = w[i]
      OBVIOUS
    <3> QED BY <2>4
  <2>6. Recurs(v, n + 1, z)
    <3> HIDE DEF z
    <3> QED BY <2>5 DEF Recurs
  <2> QED BY <1>4, <1>1, <2>6
<1>5. Total \in Good
  <2> HIDE DEF Good
  <2>1. \A n \in 0 .. Total : n \in Good
    BY <1>1, <1>3, <1>4, Induction
  <2> QED BY <2>1, <1>1
<1>6. Wkv(v) = CHOOSE y : Recurs(v, Total, y)
  BY DEF Wkv, Recurs, Turn, Prior
<1> QED BY <1>5, <1>6

\* Every row of the recurrence is right, and on time, as elapsed says how far a slot is.
LEMMA WkvRight ==
  ASSUME BatchShape(batch), NEW R, NEW v, RowsRight(batch, R, v),
         Before(batch, R, wkv_state[layer]),
         \A b \in 1 .. B : elapsed[batch[b].slot] = batch[b].first - 1
  PROVE  RowsRight(batch, R, Wkv(v))
<1> DEFINE y == Wkv(v)
           RowRight(i) == \A b, t : IsRow(i, b, t) =>
                         RightIn(R, batch[b].req, batch[b].first + t - 1, y[i])
           Good == {n \in 0 .. Total : \A i \in 1 .. n : RowRight(i)}
<1>1. Total \in Nat /\ B = Len(batch)
  BY RowsFound
<1>2. \A i \in 1 .. Total : y[i] = Turn(v, i, Prior(y, i))
  <2> HIDE DEF y
  <2>1. Recurs(v, Total, y)
    BY WkvExists DEF y
  <2> QED BY <2>1 DEF Recurs
<1> HIDE DEF y
<1>3. ASSUME NEW n \in 0 .. Total, n + 1 <= Total, \A i \in 1 .. n : RowRight(i)
      PROVE  RowRight(n + 1)
  <2> SUFFICES ASSUME NEW b, NEW t, IsRow(n + 1, b, t)
               PROVE  RightIn(R, batch[b].req, batch[b].first + t - 1, y[n + 1])
    OBVIOUS
  <2> DEFINE r == batch[b].req
             k == batch[b].first + t - 1
  <2>1. b \in 1 .. B /\ t \in 1 .. batch[b].num
    BY DEF IsRow
  <2>2. batch[b].first \in Nat \ {0}
    BY <2>1, <1>1 DEF BatchShape
  <2>3. /\ n + 1 \in 1 .. Total /\ ReqId(n + 1) = b /\ t \in Nat
        /\ (n + 1 > FirstRow(b) <=> t > 1)
        /\ t > 1 => IsRow(n, b, t - 1)
    <3>1. (n + 1) - 1 = n
      BY <1>1
    <3> QED BY <3>1, RowsAre
  <2>4. k \in Nat \ {0} /\ RightIn(R, r, k, v[n + 1])
    BY <2>1, <2>2, <2>3, RightRows
  <2>5. y[n + 1] = Follow(Prior(y, n + 1), v[n + 1])
    <3>1. OnTime(b)
      BY <2>1 DEF OnTime
    <3> QED BY <3>1, <2>3, <1>2 DEF Turn
  <2>6. At(R, r, k - 1, Prior(y, n + 1))
    <3>1. CASE t > 1
      <4>1. Prior(y, n + 1) = y[n]
        BY <2>3, <3>1, <1>1 DEF Prior
      <4>2. IsRow(n, b, t - 1)
        BY <2>3, <3>1
      <4>3. n \in 1 .. n
        <5>1. n \in 1 .. Total
          BY <4>2, RowsAre
        <5> QED BY <5>1, <1>1
      <4>4. RightIn(R, r, batch[b].first + (t - 1) - 1, y[n])
        BY <4>2, <4>3, <1>3
      <4> QED BY <4>1, <4>4, <2>2, <2>3, <3>1 DEF At
    <3>2. CASE t = 1
      <4>1. Prior(y, n + 1) = wkv_state[layer][batch[b].slot]
        BY <2>3, <3>2 DEF Prior
      <4>2. At(R, r, batch[b].first - 1, wkv_state[layer][batch[b].slot])
        BY <2>1, <1>1 DEF Before
      <4> QED BY <4>1, <4>2, <2>2, <3>2
    <3> QED BY <2>1, <2>3, <3>1, <3>2
  <2> QED BY <2>4, <2>5, <2>6, FollowRight
<1>4. \A n \in 0 .. Total : n \in Good
  <2>1. 0 \in Good
    BY <1>1
  <2>2. ASSUME NEW n \in 0 .. Total, n + 1 <= Total, n \in Good PROVE n + 1 \in Good
    <3> HIDE DEF RowRight
    <3>1. RowRight(n + 1)
      BY <2>2, <1>3
    <3>2. \A i \in 1 .. n + 1 : i \in 1 .. n \/ i = n + 1
      BY <1>1
    <3> QED BY <2>2, <3>1, <3>2, <1>1
  <2> HIDE DEF Good
  <2> QED BY <1>1, <2>1, <2>2, Induction
<1>5. \A i \in 1 .. Total : RowRight(i)
  <2> HIDE DEF RowRight
  <2> QED BY <1>4, <1>1
<1>6. \A i, b, t : IsRow(i, b, t) => RowRight(i)
  <2> HIDE DEF RowRight
  <2> QED BY <1>5, RowsAre
<1>7. RowsRight(batch, R, y)
  BY <1>6, RightRows
<1> QED BY <1>7 DEF y
-----------------------------------------------------------------------------
(***************************************************************************)
(* The rows a pass begins with, and the value residual.                    *)
(***************************************************************************)
LEMMA AllTokensRight ==
  ASSUME NEW d, BatchShape(d), NEW R
  PROVE  RowsRight(d, R, AllTokens(d))
<1> SUFFICES ASSUME NEW b \in 1 .. Len(d), NEW t \in 1 .. d[b].num
             PROVE  AllTokens(d)[Offsets(d)[b - 1] + t] =
                      [of |-> d[b].req, n |-> d[b].first + t - 1]
  BY DEF RowsRight, RightIn
<1> DEFINE f == Offsets(d)
           i == f[b - 1] + t
           Of(c) == i \in f[c - 1] + 1 .. f[c]
<1>1. /\ DOMAIN d = 1 .. Len(d) /\ Len(d) \in Nat /\ d[b].num \in Nat /\ d[b].first \in Nat
      /\ b - 1 \in 0 .. Len(d) /\ b \in 0 .. Len(d) /\ Len(d) \in 0 .. Len(d)
  BY ForwardAssumption DEF BatchShape
<1>2. f[b] = f[b - 1] + d[b].num /\ f[b - 1] \in Nat /\ f[Len(d)] \in Nat /\ f[b] <= f[Len(d)]
  <2>1. f[b] = f[b - 1] + d[b].num
    BY Parted
  <2>2. f[b - 1] \in Nat /\ f[Len(d)] \in Nat
    BY <1>1, Parted
  <2>3. b <= Len(d)
    BY <1>1
  <2>4. f[b] <= f[Len(d)]
    BY <1>1, <2>3, Parted
  <2> QED BY <2>1, <2>2, <2>4
<1>3. i \in 1 .. f[Len(d)] /\ Of(b)
  <2> DEFINE low == f[b - 1]
             high == f[b]
             top == f[Len(d)]
             n == d[b].num
  <2>1. low \in Nat /\ top \in Nat /\ n \in Nat /\ high = low + n /\ high <= top
    BY <1>1, <1>2
  <2>2. t \in 1 .. n /\ i = low + t
    OBVIOUS
  <2> HIDE DEF low, high, top, n, i
  <2>3. i \in 1 .. top /\ i \in low + 1 .. high
    BY <2>1, <2>2
  <2> QED BY <2>3 DEF low, high, top
<1>4. \A c \in DOMAIN d : Of(c) => c = b
  <2>1. Of(b)
    BY <1>3
  <2> QED BY <2>1, <1>1, Parted
<1>5. (CHOOSE c \in DOMAIN d : Of(c)) = b
  BY <1>1, <1>3, <1>4
<1>6. AllTokens(d)[i] = [of |-> d[b].req, n |-> d[b].first + i - f[b - 1] - 1]
  BY <1>3, <1>5 DEF AllTokens
<1>7. d[b].first + i - f[b - 1] - 1 = d[b].first + t - 1
  BY <1>1, <1>2
<1> QED BY <1>6, <1>7

\* Above the first layer the value residual is always put in, by one kernel or another.
LEMMA ValuesRight ==
  ASSUME BatchShape(batch), layer \in Nat, NEW R, NEW mixed,
         RowsRight(batch, R, mixed), RowsRight(batch, R, v_first)
  PROVE  RowsRight(batch, R, Values(mixed))
<1>1. CASE layer = 0
  BY <1>1 DEF Values
<1>2. CASE layer # 0
  <2>1. Total \in Nat
    BY RowsFound
  <2>2. OutFused => VDone
    BY <1>2, <2>1, ForwardAssumption
    DEF OutFused, VDone, WithV1, InFused, CanUseLowrankFused, CanUseLowrankOutFused
  <2>3. VDone \/ VGate
    BY <2>2, <1>2 DEF VGate
  <2>4. Values(mixed) = JoinRows(mixed, v_first)
    BY <1>2, <2>3 DEF Values
  <2> QED BY <2>4, JoinRowsRight
<1> QED BY <1>1, <1>2

\* What is right stays right when more requests have raced.
LEMMA MoreRaced ==
  ASSUME NEW d, NEW q, NEW I, NEW R, NEW more, R \subseteq more
  PROVE  /\ \A r, k, v : RightIn(R, r, k, v) => RightIn(more, r, k, v)
         /\ \A f : RowsRight(d, R, f) => RowsRight(d, more, f)
         /\ \A s : Before(d, R, s) => Before(d, more, s)
         /\ \A s : After(d, R, s) => After(d, more, s)
         /\ \A s : Others(q, I, R, s) => Others(q, I, more, s)
<1>1. \A r, k, v : RightIn(R, r, k, v) => RightIn(more, r, k, v)
  BY DEF RightIn
<1>2. \A r, k, v : At(R, r, k, v) => At(more, r, k, v)
  BY <1>1 DEF At
<1>3. \A f : RowsRight(d, R, f) => RowsRight(d, more, f)
  BY <1>1 DEF RowsRight
<1>4. \A s : Before(d, R, s) => Before(d, more, s)
  BY <1>2 DEF Before
<1>5. \A s : After(d, R, s) => After(d, more, s)
  BY <1>1 DEF After
<1>6. \A s : Others(q, I, R, s) => Others(q, I, more, s)
  BY <1>1 DEF Others
<1> QED BY <1>1, <1>3, <1>4, <1>5, <1>6
-----------------------------------------------------------------------------
(***************************************************************************)
(* Weights.                                                                *)
(***************************************************************************)
LEMMA WeightsKept ==
  cfg' = cfg => AllWeights' = AllWeights
BY DEF AllWeights, Layout, Orig, LowRank, SparseKey, StackedRkv, Linears

LEMMA LinearThere ==
  ASSUME Prepared, weights = AllWeights, NEW w \in Linears
  PROVE  LinearReads(w) \in weights
<1>1. LinearReads(w) = <<w, Layout(w)>>
  BY DEF LinearReads, Layout
<1> QED BY <1>1 DEF AllWeights

LEMMA ConfigOK ==
  ASSUME Prepared
  PROVE  /\ cfg.orig_linear_groups \subseteq {"att_c2c", "ffn_key", "head"}
         /\ cfg.lowrank_weight \in {"orig", "transpose", "both"}
         /\ cfg.cmix_sparse \in {"auto", "no-fc", "off"}
         /\ cfg.rkv_mode \in {"auto", "on", "off"}
BY ForwardAssumption DEF Prepared

LEMMA TimeMixFinds ==
  ASSUME Prepared, weights = AllWeights
  PROVE  TimeMixReads \subseteq weights
<1>1. RkvReads \in weights
  <2>1. CASE UseBatchedRkv
    <3>1. cfg.rkv_mode # "off" /\ ~Orig("att_c2c")
      BY <2>1 DEF UseBatchedRkv
    <3>2. <<"rkv", "in_out">> \in StackedRkv
      BY <3>1 DEF StackedRkv
    <3> QED BY <2>1, <3>2 DEF RkvReads, AllWeights
  <2>2. CASE ~UseBatchedRkv
    BY <2>2, LinearThere DEF RkvReads, Linears
  <2> QED BY <2>1, <2>2
<1>2. LinearReads("att_c2c") \in weights
  BY LinearThere DEF Linears
<1>3. /\ cfg.lowrank_weight # "orig" => Transposed \in weights
      /\ cfg.lowrank_weight = "orig" => Transposed \notin weights
      /\ cfg.lowrank_weight \in {"orig", "both"} => Original \in weights
  <2>1. cfg.lowrank_weight # "orig" => Transposed \in LowRank
    BY ConfigOK DEF LowRank, Transposed
  <2>2. cfg.lowrank_weight \in {"orig", "both"} => Original \in LowRank
    BY DEF LowRank, Original
  <2>3. cfg.lowrank_weight = "orig" => Transposed \notin LowRank
    BY DEF LowRank, Transposed
  <2>4. Transposed \notin {<<w, Layout(w)>> : w \in Linears} \cup SparseKey \cup StackedRkv
    BY DEF Transposed, Linears, SparseKey, StackedRkv
  <2> QED BY <2>1, <2>2, <2>3, <2>4 DEF AllWeights
<1>4. LowRankReads \subseteq weights
  <2>1. InFused \/ OutFused => Transposed \in weights
    BY <1>3 DEF InFused, OutFused
  <2>2. RankReads(Total <= InRowsT) \in weights /\ RankReads(CanUseLowrankOutFused) \in weights
    BY <1>3, ConfigOK DEF RankReads
  <2> QED BY <2>1, <2>2 DEF LowRankReads
<1> QED BY <1>1, <1>2, <1>4 DEF TimeMixReads

LEMMA ChannelMixFinds ==
  ASSUME Prepared, weights = AllWeights
  PROVE  ChannelMixReads \subseteq weights
<1>1. LinearReads("ffn_key") \in weights
  BY LinearThere DEF Linears
<1>2. <<"ffn_value", "in_out">> \in weights
  <2>1. ~Orig("ffn_value")
    BY ConfigOK DEF Orig
  <2> QED BY <2>1 DEF AllWeights, Layout, Linears
<1>3. CmixMode = "sparse" => <<"ffn_key.fc", "out_in">> \in weights
  <2>1. CmixMode = "sparse" => cfg.cmix_sparse = "auto"
    BY ConfigOK DEF CmixMode
  <2> QED BY <2>1 DEF AllWeights, SparseKey
<1> QED BY <1>1, <1>2, <1>3 DEF ChannelMixReads
-----------------------------------------------------------------------------
(***************************************************************************)
(* Steps of the pass.                                                      *)
(***************************************************************************)
\* A step within the pass that takes no request in or out.
Within ==
  /\ pc \in Passing /\ pc' \in Passing
  /\ batch' = batch /\ req' = req /\ raced \subseteq raced'

LEMMA StateKept ==
  ASSUME Within, NEW s, NEW done \in BOOLEAN, StateIn(done, s)
  PROVE  /\ Others(req', InPass', raced', s)
         /\ IF done THEN After(batch', raced', s) ELSE Before(batch', raced', s)
<1>1. InPass' = InPass
  BY DEF Within, InPass
<1>2. Others(req, InPass, raced, s) /\ IF done THEN After(batch, raced, s) ELSE Before(batch, raced, s)
  BY DEF Within, StateIn
<1>3. Others(req, InPass, raced', s) /\ IF done THEN After(batch, raced', s) ELSE Before(batch, raced', s)
  BY <1>2, MoreRaced DEF Within
<1> QED BY <1>1, <1>3 DEF Within

LEMMA StateShifted ==
  ASSUME Within, SlotsHeld, BatchOf(batch, req), NEW rows, NEW s, NEW done \in BOOLEAN,
         StateIn(done, s), RowsRight(batch, raced', rows)
  PROVE  /\ Others(req', InPass', raced', Shifted(rows, s))
         /\ After(batch', raced', Shifted(rows, s))
<1>1. InPass' = RequestsOf(batch) /\ batch' = batch /\ req' = req
  BY DEF Within, InPass
<1>2. Others(req, RequestsOf(batch), raced', s)
  BY <1>1, StateKept
<1>3. /\ After(batch, raced', Shifted(rows, s))
      /\ Others(req, RequestsOf(batch), raced', Shifted(rows, s))
  BY <1>2, ShiftedRight
<1> QED BY <1>1, <1>3

\* The parts of the invariant that such a step only has to leave alone.
LEMMA PassFrame ==
  ASSUME ForwardInv, Within, cfg' = cfg, weights' = weights, elapsed' = elapsed,
         layer' \in Layers, pc' = "next" => layer' + 1 < L, pc' = "last" => layer' + 1 = L,
         DOMAIN shift_state' = Layers, DOMAIN wkv_state' = Layers,
         \A l \in Layers : DOMAIN shift_state'[l] = {"att", "ffn"}
  PROVE  Prepared' /\ RaisedRight' /\ SlotsHeld' /\ Shaped' /\ Batched' /\ Counted' /\ LogitsRight'
<1>1. /\ Prepared /\ SlotsHeld /\ Batched /\ Counted /\ InPass' = InPass
      /\ pc # "load" /\ pc' \notin {"load", "idle", "raised"} /\ batch' = batch /\ req' = req
  BY DEF ForwardInv, Within, InPass, Passing
<1>2. Prepared'
  BY <1>1, WeightsKept DEF Prepared, Within
<1>3. SlotsHeld'
  BY <1>1 DEF SlotsHeld, Live
<1>4. Batched'
  <2>1. BatchOf(batch, req) /\ \A b \in 1 .. Len(batch) : elapsed[batch[b].slot] = batch[b].first - 1
    BY <1>1 DEF Batched, Within
  <2>2. BatchOf(batch', req')
    BY <2>1, <1>1
  <2> QED BY <2>1, <2>2, <1>1 DEF Batched
<1>5. Counted'
  BY <1>1 DEF Counted
<1> QED BY <1>1, <1>2, <1>3, <1>4, <1>5 DEF RaisedRight, Shaped, LogitsRight

LEMMA TimeMixStep ==
  ASSUME ForwardInv, TimeMix
  PROVE  ForwardInv'
<1>1. PICK early \in Early :
        LET mixed == IF pre_mix # <<>> THEN pre_mix
                     ELSE TokenShift(xx, shift_state[layer]["att"], early)
            v == Values(mixed)
        IN  /\ shift_state' = IF pre_mix # <<>> THEN shift_state
                              ELSE [shift_state EXCEPT ![layer]["att"] = Shifted(xx, @)]
            /\ v_first' = IF layer = 0 THEN v ELSE v_first
            /\ xx' = JoinRows(Wkv(v), mixed)
            /\ wkv_state' = [wkv_state EXCEPT ![layer] = Shifted(Wkv(v), @)]
            /\ raced' = RacedNow(early)
  BY DEF TimeMix
<1>2. /\ pc = "tmix" /\ pc' = "cmix" /\ cfg' = cfg /\ weights' = weights /\ layer' = layer
      /\ req' = req /\ batch' = batch /\ x' = x /\ pre_mix' = pre_mix /\ elapsed' = elapsed
      /\ pc \in Passing /\ pc' \in Passing
  BY DEF TimeMix, Passing
<1>3. raced \subseteq raced' /\ \A b \in early : batch[b].req \in raced'
  BY <1>1 DEF RacedNow
<1>4. Within
  BY <1>2, <1>3 DEF Within
<1>5. /\ SlotsHeld /\ Shaped /\ BatchOf(batch, req) /\ BatchShape(batch) /\ layer \in Layers
      /\ \A b \in 1 .. B : elapsed[batch[b].slot] = batch[b].first - 1
      /\ StatesRight /\ RowsOK
  BY <1>2 DEF ForwardInv, Batched, BatchOf, B
<1>6. \A l \in Layers : /\ StateIn(AttDone(l), shift_state[l]["att"])
                        /\ StateIn(WkvDone(l), wkv_state[l])
                        /\ StateIn(FfnDone(l), shift_state[l]["ffn"])
                        /\ AttDone(l) \in BOOLEAN /\ WkvDone(l) \in BOOLEAN /\ FfnDone(l) \in BOOLEAN
  BY <1>5 DEF StatesRight, AttDone, WkvDone, FfnDone
<1>7. /\ RowsRight(batch, raced', x) /\ RowsRight(batch, raced', xx)
      /\ RowsRight(batch, raced', v_first)
      /\ pre_mix # <<>> => RowsRight(batch, raced', pre_mix)
  BY <1>2, <1>3, <1>5, MoreRaced DEF RowsOK
<1>8. layer \in Nat /\ ~(layer < layer)
  BY <1>5, ForwardAssumption DEF Layers
<1> DEFINE mixed == IF pre_mix # <<>> THEN pre_mix
                    ELSE TokenShift(xx, shift_state[layer]["att"], early)
           v == Values(mixed)
<1>9. RowsRight(batch, raced', mixed)
  <2>1. CASE pre_mix # <<>>
    BY <2>1, <1>7
  <2>2. CASE pre_mix = <<>>
    <3>1. ~AttDone(layer)
      BY <2>2, <1>2, <1>8 DEF AttDone
    <3>2. Before(batch, raced', shift_state[layer]["att"])
      BY <3>1, <1>2, <1>4, <1>5, <1>6, StateKept
    <3>3. RowsRight(batch, raced', TokenShift(xx, shift_state[layer]["att"], early))
      BY <3>2, <1>3, <1>5, <1>7, TokenShiftRight
    <3> QED BY <2>2, <3>3
  <2> QED BY <2>1, <2>2
<1>10. /\ v_first' = IF layer = 0 THEN v ELSE v_first
       /\ xx' = JoinRows(Wkv(v), mixed)
       /\ wkv_state' = [wkv_state EXCEPT ![layer] = Shifted(Wkv(v), @)]
  BY <1>1
<1> HIDE DEF mixed
<1>11. RowsRight(batch, raced', v)
  BY <1>5, <1>7, <1>8, <1>9, ValuesRight
<1> HIDE DEF v
<1>12. RowsRight(batch, raced', Wkv(v))
  <2>1. ~WkvDone(layer)
    BY <1>2, <1>8 DEF WkvDone
  <2>2. Before(batch, raced', wkv_state[layer])
    BY <2>1, <1>2, <1>4, <1>5, <1>6, StateKept
  <2> QED BY <2>2, <1>5, <1>11, WkvRight
<1>13. RowsOK'
  <2>1. RowsRight(batch, raced', xx')
    BY <1>5, <1>9, <1>10, <1>12, JoinRowsRight
  <2>2. RowsRight(batch, raced', v_first')
    BY <1>7, <1>10, <1>11
  <2> QED BY <2>1, <2>2, <1>2, <1>7 DEF RowsOK
<1>14. /\ DOMAIN shift_state' = Layers /\ DOMAIN wkv_state' = Layers
       /\ \A l \in Layers : DOMAIN shift_state'[l] = {"att", "ffn"}
       /\ \A l \in Layers : shift_state'[l]["ffn"] = shift_state[l]["ffn"]
       /\ \A l \in Layers : l # layer \/ pre_mix # <<>> =>
                              shift_state'[l]["att"] = shift_state[l]["att"]
       /\ pre_mix = <<>> => shift_state'[layer]["att"] = Shifted(xx, shift_state[layer]["att"])
       /\ \A l \in Layers : l # layer => wkv_state'[l] = wkv_state[l]
       /\ wkv_state'[layer] = Shifted(Wkv(v), wkv_state[layer])
  BY <1>1, <1>5, <1>10 DEF Shaped
<1>15. ASSUME NEW l \in Layers PROVE StateIn(AttDone(l), shift_state[l]["att"])'
  <2>1. CASE l = layer /\ pre_mix = <<>>
    <3>1. AttDone(l)'
      BY <2>1, <1>2 DEF AttDone
    <3>2. /\ Others(req', InPass', raced', shift_state'[l]["att"])
          /\ After(batch', raced', shift_state'[l]["att"])
      BY <2>1, <1>4, <1>5, <1>6, <1>7, <1>14, StateShifted
    <3> QED BY <3>1, <3>2 DEF StateIn
  <2>2. CASE l # layer \/ pre_mix # <<>>
    <3>1. AttDone(l)' = AttDone(l)
      BY <2>2, <1>2 DEF AttDone
    <3> QED BY <2>2, <3>1, <1>4, <1>6, <1>14, StateKept DEF StateIn
  <2> QED BY <2>1, <2>2
<1>16. ASSUME NEW l \in Layers PROVE StateIn(WkvDone(l), wkv_state[l])'
  <2>1. CASE l = layer
    <3>1. WkvDone(l)'
      BY <2>1, <1>2 DEF WkvDone
    <3>2. /\ Others(req', InPass', raced', wkv_state'[l])
          /\ After(batch', raced', wkv_state'[l])
      BY <2>1, <1>4, <1>5, <1>6, <1>12, <1>14, StateShifted
    <3> QED BY <3>1, <3>2 DEF StateIn
  <2>2. CASE l # layer
    <3>1. WkvDone(l)' = WkvDone(l)
      BY <2>2, <1>2 DEF WkvDone
    <3> QED BY <2>2, <3>1, <1>4, <1>6, <1>14, StateKept DEF StateIn
  <2> QED BY <2>1, <2>2
<1>17. ASSUME NEW l \in Layers PROVE StateIn(FfnDone(l), shift_state[l]["ffn"])'
  <2>1. FfnDone(l)' = FfnDone(l)
    BY <1>2 DEF FfnDone
  <2> QED BY <2>1, <1>4, <1>6, <1>14, StateKept DEF StateIn
<1>18. StatesRight'
  BY <1>15, <1>16, <1>17 DEF StatesRight
<1>19. Prepared' /\ RaisedRight' /\ SlotsHeld' /\ Shaped' /\ Batched' /\ Counted' /\ LogitsRight'
  BY <1>2, <1>4, <1>5, <1>14, PassFrame
<1> QED BY <1>13, <1>18, <1>19 DEF ForwardInv

LEMMA ChannelMixStep ==
  ASSUME ForwardInv, ChannelMix
  PROVE  ForwardInv'
<1>1. PICK early \in Early : /\ xx' = TokenShift(x', shift_state[layer]["ffn"], early)
                             /\ raced' = RacedNow(early)
  BY DEF ChannelMix
<1>2. /\ pc = "cmix" /\ pc' = (IF layer + 1 < L THEN "next" ELSE "last")
      /\ cfg' = cfg /\ weights' = weights /\ layer' = layer /\ req' = req /\ batch' = batch
      /\ x' = JoinRows(x, xx) /\ v_first' = v_first /\ pre_mix' = pre_mix
      /\ wkv_state' = wkv_state /\ elapsed' = elapsed
      /\ shift_state' = [shift_state EXCEPT ![layer]["ffn"] = Shifted(x', @)]
      /\ pc \in Passing /\ pc' \in Passing
  BY DEF ChannelMix, Passing
<1>3. raced \subseteq raced' /\ \A b \in early : batch[b].req \in raced'
  BY <1>1 DEF RacedNow
<1>4. Within
  BY <1>2, <1>3 DEF Within
<1>5. /\ SlotsHeld /\ Shaped /\ BatchOf(batch, req) /\ BatchShape(batch) /\ layer \in Layers
      /\ StatesRight /\ RowsOK
  BY <1>2 DEF ForwardInv, Batched, BatchOf
<1>6. \A l \in Layers : /\ StateIn(AttDone(l), shift_state[l]["att"])
                        /\ StateIn(WkvDone(l), wkv_state[l])
                        /\ StateIn(FfnDone(l), shift_state[l]["ffn"])
                        /\ AttDone(l) \in BOOLEAN /\ WkvDone(l) \in BOOLEAN /\ FfnDone(l) \in BOOLEAN
  BY <1>5 DEF StatesRight, AttDone, WkvDone, FfnDone
<1>7. /\ RowsRight(batch, raced', x) /\ RowsRight(batch, raced', xx)
      /\ RowsRight(batch, raced', v_first)
      /\ pre_mix # <<>> => RowsRight(batch, raced', pre_mix)
  BY <1>2, <1>3, <1>5, MoreRaced DEF RowsOK
<1>8. layer \in Nat /\ ~(layer < layer)
  BY <1>5, ForwardAssumption DEF Layers
<1>9. RowsRight(batch, raced', x')
  BY <1>2, <1>5, <1>7, JoinRowsRight
<1>10. RowsRight(batch, raced', xx')
  <2>1. ~FfnDone(layer)
    BY <1>2, <1>8 DEF FfnDone
  <2>2. Before(batch, raced', shift_state[layer]["ffn"])
    BY <2>1, <1>2, <1>4, <1>5, <1>6, StateKept
  <2> QED BY <2>2, <1>1, <1>3, <1>5, <1>9, TokenShiftRight
<1>11. RowsOK'
  BY <1>2, <1>7, <1>9, <1>10 DEF RowsOK
<1>12. /\ DOMAIN shift_state' = Layers /\ DOMAIN wkv_state' = Layers
       /\ \A l \in Layers : DOMAIN shift_state'[l] = {"att", "ffn"}
       /\ \A l \in Layers : shift_state'[l]["att"] = shift_state[l]["att"]
       /\ \A l \in Layers : l # layer => shift_state'[l]["ffn"] = shift_state[l]["ffn"]
       /\ shift_state'[layer]["ffn"] = Shifted(x', shift_state[layer]["ffn"])
  BY <1>2, <1>5 DEF Shaped
<1>13. ASSUME NEW l \in Layers PROVE StateIn(AttDone(l), shift_state[l]["att"])'
  <2>1. AttDone(l)' = AttDone(l)
    BY <1>2 DEF AttDone, Passing
  <2> QED BY <2>1, <1>4, <1>6, <1>12, StateKept DEF StateIn
<1>14. ASSUME NEW l \in Layers PROVE StateIn(WkvDone(l), wkv_state[l])'
  <2>1. WkvDone(l)' = WkvDone(l)
    BY <1>2 DEF WkvDone, Passing
  <2> QED BY <2>1, <1>2, <1>4, <1>6, StateKept DEF StateIn
<1>15. ASSUME NEW l \in Layers PROVE StateIn(FfnDone(l), shift_state[l]["ffn"])'
  <2>1. CASE l = layer
    <3>1. FfnDone(l)'
      BY <2>1, <1>2 DEF FfnDone
    <3>2. /\ Others(req', InPass', raced', shift_state'[l]["ffn"])
          /\ After(batch', raced', shift_state'[l]["ffn"])
      BY <2>1, <1>4, <1>5, <1>6, <1>9, <1>12, StateShifted
    <3> QED BY <3>1, <3>2 DEF StateIn
  <2>2. CASE l # layer
    <3>1. FfnDone(l)' = FfnDone(l)
      BY <2>2, <1>2 DEF FfnDone
    <3> QED BY <2>2, <3>1, <1>4, <1>6, <1>12, StateKept DEF StateIn
  <2> QED BY <2>1, <2>2
<1>16. StatesRight'
  BY <1>13, <1>14, <1>15 DEF StatesRight
<1>17. Prepared' /\ RaisedRight' /\ SlotsHeld' /\ Shaped' /\ Batched' /\ Counted' /\ LogitsRight'
  <2>1. (pc' = "next" => layer' + 1 < L) /\ (pc' = "last" => layer' + 1 = L)
    <3>1. layer \in 0 .. L - 1 /\ L \in Nat
      BY <1>5, ForwardAssumption DEF Layers
    <3> QED BY <3>1, <1>2
  <2> QED BY <2>1, <1>2, <1>4, <1>5, <1>12, PassFrame
<1> QED BY <1>11, <1>16, <1>17 DEF ForwardInv

LEMMA NextLayerStep ==
  ASSUME ForwardInv, NextLayer
  PROVE  ForwardInv'
<1>1. /\ pc = "next" /\ pc' = "tmix" /\ layer' = layer + 1
      /\ cfg' = cfg /\ weights' = weights /\ req' = req /\ batch' = batch
      /\ x' = JoinRows(x, xx) /\ xx' = x' /\ v_first' = v_first
      /\ wkv_state' = wkv_state /\ elapsed' = elapsed /\ raced' = raced
      /\ pc \in Passing /\ pc' \in Passing
  BY DEF NextLayer, Passing
<1>2. \/ /\ pre_mix' = TokenShift(x', shift_state[layer']["att"], {}) /\ pre_mix' # <<>>
         /\ shift_state' = [shift_state EXCEPT ![layer']["att"] = Shifted(x', @)]
      \/ pre_mix' = <<>> /\ shift_state' = shift_state
  <2>1. BatchShape(batch)
    BY <1>1 DEF ForwardInv, Batched, BatchOf
  <2>2. 1 \in 1 .. B
    BY <2>1 DEF BatchShape, B
  <2>3. LastRow(1) \in 1 .. Total
    BY <2>1, <2>2, RowsAre
  <2>4. LastRow(1) \in DOMAIN TokenShift(x', shift_state[layer']["att"], {})
    BY <2>3 DEF TokenShift
  <2>5. TokenShift(x', shift_state[layer']["att"], {}) # <<>>
    BY <2>4
  <2> QED BY <2>5 DEF NextLayer
<1>3. Within
  BY <1>1 DEF Within
<1>4. /\ SlotsHeld /\ Shaped /\ BatchOf(batch, req) /\ BatchShape(batch) /\ layer \in Layers
      /\ layer + 1 < L /\ StatesRight /\ RowsOK
  BY <1>1 DEF ForwardInv, Batched, BatchOf
<1>5. layer \in Nat /\ layer' \in Layers /\ \A l \in Layers : l \in Nat
  BY <1>1, <1>4, ForwardAssumption DEF Layers
<1>6. \A l \in Layers : /\ StateIn(AttDone(l), shift_state[l]["att"])
                        /\ StateIn(WkvDone(l), wkv_state[l])
                        /\ StateIn(FfnDone(l), shift_state[l]["ffn"])
                        /\ AttDone(l) \in BOOLEAN /\ WkvDone(l) \in BOOLEAN /\ FfnDone(l) \in BOOLEAN
  BY <1>4 DEF StatesRight, AttDone, WkvDone, FfnDone
<1>7. /\ RowsRight(batch, raced', x) /\ RowsRight(batch, raced', xx)
      /\ RowsRight(batch, raced', v_first)
  BY <1>1, <1>4 DEF RowsOK
<1>8. RowsRight(batch, raced', x')
  BY <1>1, <1>4, <1>7, JoinRowsRight
<1>9. pre_mix' # <<>> =>
        /\ pre_mix' = TokenShift(x', shift_state[layer']["att"], {})
        /\ shift_state' = [shift_state EXCEPT ![layer']["att"] = Shifted(x', @)]
  BY <1>2
<1>10. pre_mix' # <<>> => RowsRight(batch, raced', pre_mix')
  <2>1. ~AttDone(layer')
    BY <1>1, <1>5 DEF AttDone
  <2>2. Before(batch, raced', shift_state[layer']["att"])
    BY <2>1, <1>3, <1>5, <1>6, StateKept, <1>1
  <2>3. RowsRight(batch, raced', TokenShift(x', shift_state[layer']["att"], {}))
    BY <2>2, <1>4, <1>8, TokenShiftRight
  <2> QED BY <2>3, <1>9
<1>11. RowsOK'
  BY <1>1, <1>7, <1>8, <1>10 DEF RowsOK
<1>12. /\ DOMAIN shift_state' = Layers /\ DOMAIN wkv_state' = Layers
       /\ \A l \in Layers : DOMAIN shift_state'[l] = {"att", "ffn"}
       /\ \A l \in Layers : shift_state'[l]["ffn"] = shift_state[l]["ffn"]
       /\ \A l \in Layers : l # layer' => shift_state'[l]["att"] = shift_state[l]["att"]
       /\ \/ shift_state'[layer']["att"] = Shifted(x', shift_state[layer']["att"])
          \/ pre_mix' = <<>> /\ shift_state'[layer']["att"] = shift_state[layer']["att"]
  <2>1. CASE pre_mix' = <<>> /\ shift_state' = shift_state
    BY <2>1, <1>1, <1>4 DEF Shaped
  <2>2. CASE shift_state' = [shift_state EXCEPT ![layer']["att"] = Shifted(x', @)]
    BY <2>2, <1>1, <1>4, <1>5 DEF Shaped
  <2> QED BY <1>2, <2>1, <2>2
<1>13. ASSUME NEW l \in Layers PROVE StateIn(AttDone(l), shift_state[l]["att"])'
  <2>1. CASE l = layer' /\ shift_state'[l]["att"] = Shifted(x', shift_state[l]["att"])
             /\ pre_mix' # <<>>
    <3>1. AttDone(l)'
      BY <2>1, <1>1 DEF AttDone
    <3>2. /\ Others(req', InPass', raced', shift_state'[l]["att"])
          /\ After(batch', raced', shift_state'[l]["att"])
      BY <2>1, <1>3, <1>4, <1>6, <1>8, StateShifted
    <3> QED BY <3>1, <3>2 DEF StateIn
  <2>2. CASE shift_state'[l]["att"] = shift_state[l]["att"] /\ (l = layer' => pre_mix' = <<>>)
    <3>1. AttDone(l)' = AttDone(l)
      BY <2>2, <1>1, <1>5 DEF AttDone
    <3> QED BY <2>2, <3>1, <1>3, <1>6, StateKept DEF StateIn
  <2>3. pre_mix' = <<>> => shift_state' = shift_state
    BY <1>2
  <2> QED BY <2>1, <2>2, <2>3, <1>9, <1>12
<1>14. ASSUME NEW l \in Layers PROVE StateIn(WkvDone(l), wkv_state[l])'
  <2>1. WkvDone(l)' = WkvDone(l)
    BY <1>1, <1>5 DEF WkvDone
  <2> QED BY <2>1, <1>1, <1>3, <1>6, StateKept DEF StateIn
<1>15. ASSUME NEW l \in Layers PROVE StateIn(FfnDone(l), shift_state[l]["ffn"])'
  <2>1. FfnDone(l)' = FfnDone(l)
    BY <1>1, <1>5 DEF FfnDone
  <2> QED BY <2>1, <1>3, <1>6, <1>12, StateKept DEF StateIn
<1>16. StatesRight'
  BY <1>13, <1>14, <1>15 DEF StatesRight
<1>17. Prepared' /\ RaisedRight' /\ SlotsHeld' /\ Shaped' /\ Batched' /\ Counted' /\ LogitsRight'
  BY <1>1, <1>3, <1>4, <1>5, <1>12, PassFrame
<1> QED BY <1>11, <1>16, <1>17 DEF ForwardInv

\* A batch that the scheduler can make of live requests.
LEMMA BatchMade ==
  ASSUME SlotsHeld, NEW S \in SUBSET Live, S # {}, NEW order \in SetToSeqs(S),
         NEW num \in [S -> 1 .. MaxTokens], NEW d,
         d = [b \in DOMAIN order |-> Chunk(order[b], num[order[b]])]
  PROVE  BatchOf(d, req)
<1>1. S \subseteq Requests /\ \A r \in S : req[r].live
  BY DEF Live
<1>2. Cardinality(S) \in Nat \ {0}
  <2>1. IsFiniteSet(S)
    BY <1>1, ForwardAssumption, FS_Subset
  <2> QED BY <2>1, FS_CardinalityType, FS_EmptySet
<1> DEFINE n == Cardinality(S)
<1>3. /\ order \in [1 .. n -> S] /\ \A i, j \in 1 .. n : i # j => order[i] # order[j]
  BY DEF SetToSeqs
<1> HIDE DEF n
<1>4. n \in Nat \ {0}
  BY <1>2 DEF n
<1>5. /\ DOMAIN d = 1 .. n
      /\ \A b \in 1 .. n : /\ d[b].req = order[b] /\ d[b].slot = req[order[b]].slot
                           /\ d[b].first = req[order[b]].computed + 1
                           /\ d[b].num = num[order[b]] /\ order[b] \in S
  <2>1. DOMAIN order = 1 .. n /\ \A b \in 1 .. n : order[b] \in S
    BY <1>3
  <2> QED BY <2>1 DEF Chunk
<1>6. Len(d) = n
  BY <1>4, <1>5
<1>7. \A b \in 1 .. n : d[b].num \in 1 .. MaxTokens /\ d[b].first \in Nat \ {0}
  <2> SUFFICES ASSUME NEW b \in 1 .. n PROVE d[b].num \in 1 .. MaxTokens /\ d[b].first \in Nat \ {0}
    OBVIOUS
  <2>1. order[b] \in S /\ order[b] \in Requests
    BY <1>1, <1>3
  <2>2. req[order[b]].computed \in Nat
    BY <2>1 DEF SlotsHeld
  <2> QED BY <2>1, <2>2, <1>5
<1>8. BatchShape(d)
  BY <1>4, <1>5, <1>6, <1>7 DEF BatchShape
<1>9. \A b \in 1 .. n : /\ d[b].req \in Requests /\ req[d[b].req].live
                        /\ d[b].slot = req[d[b].req].slot
                        /\ d[b].first = req[d[b].req].computed + 1
  BY <1>1, <1>3, <1>5
<1>10. \A b, c \in 1 .. n : d[b].req = d[c].req => b = c
  BY <1>3, <1>5
<1> QED BY <1>6, <1>8, <1>9, <1>10 DEF BatchOf

\* Zeroing changes the slots of requests without a token, and no other request's.
LEMMA ZeroedIs ==
  ASSUME SlotsHeld, BatchOf(batch', req), NEW f, NEW zero
  PROVE  /\ \A b \in 1 .. Len(batch') :
              Zeroed(f, zero)[batch'[b].slot] =
                IF batch'[b].first = 1 THEN zero ELSE f[batch'[b].slot]
         /\ \A r \in Live \ RequestsOf(batch') : Zeroed(f, zero)[req[r].slot] = f[req[r].slot]
<1> DEFINE d == batch'
<1>1. /\ DOMAIN d = 1 .. Len(d)
      /\ \A b \in 1 .. Len(d) : d[b].req \in Live /\ d[b].slot = req[d[b].req].slot
      /\ \A b, c \in 1 .. Len(d) : d[b].req = d[c].req => b = c
  BY DEF BatchOf, BatchShape, Live
<1>2. /\ \A r \in Live : req[r].slot \in Slots
      /\ \A r, q \in Live : req[r].slot = req[q].slot => r = q
  BY DEF SlotsHeld
<1>3. ASSUME NEW b \in 1 .. Len(d)
      PROVE  Zeroed(f, zero)[d[b].slot] = IF d[b].first = 1 THEN zero ELSE f[d[b].slot]
  <2>1. \A c \in 1 .. Len(d) : d[c].slot = d[b].slot => c = b
    BY <1>1, <1>2
  <2>2. IsNew(d[b].slot) <=> d[b].first = 1
    BY <1>1, <2>1 DEF IsNew
  <2> QED BY <2>2, <1>1, <1>2 DEF Zeroed
<1>4. ASSUME NEW r \in Live \ RequestsOf(d)
      PROVE  Zeroed(f, zero)[req[r].slot] = f[req[r].slot]
  <2>1. \A c \in 1 .. Len(d) : d[c].req # r
    BY DEF RequestsOf
  <2>2. \A c \in 1 .. Len(d) : d[c].slot # req[r].slot
    BY <1>1, <1>2, <2>1
  <2>3. ~IsNew(req[r].slot)
    BY <1>1, <2>2 DEF IsNew
  <2> QED BY <2>3, <1>2 DEF Zeroed
<1> QED BY <1>3, <1>4

LEMMA ZeroedRight ==
  ASSUME SlotsHeld, BatchOf(batch', req), NEW R, NEW f, Others(req, {}, R, f)
  PROVE  /\ Before(batch', R, Zeroed(f, Zero))
         /\ Others(req, RequestsOf(batch'), R, Zeroed(f, Zero))
<1>1. ASSUME NEW b \in 1 .. Len(batch')
      PROVE  At(R, batch'[b].req, batch'[b].first - 1, Zeroed(f, Zero)[batch'[b].slot])
  <2> DEFINE r == batch'[b].req
  <2>1. /\ r \in Requests /\ req[r].live /\ batch'[b].slot = req[r].slot
        /\ batch'[b].first = req[r].computed + 1
    BY DEF BatchOf
  <2>2. req[r].computed \in Nat
    BY <2>1 DEF SlotsHeld
  <2>3. Zeroed(f, Zero)[batch'[b].slot] = IF batch'[b].first = 1 THEN Zero ELSE f[batch'[b].slot]
    BY ZeroedIs
  <2>4. CASE req[r].computed = 0
    BY <2>1, <2>3, <2>4 DEF At
  <2>5. CASE req[r].computed # 0
    <3>1. RightIn(R, r, req[r].computed, f[req[r].slot])
      BY <2>1, <2>2, <2>5 DEF Others
    <3>2. batch'[b].first - 1 = req[r].computed /\ batch'[b].first # 1
      BY <2>1, <2>2, <2>5
    <3> QED BY <2>1, <2>3, <2>5, <3>1, <3>2 DEF At
  <2> QED BY <2>4, <2>5
<1>2. Before(batch', R, Zeroed(f, Zero))
  BY <1>1 DEF Before
<1>3. Others(req, RequestsOf(batch'), R, Zeroed(f, Zero))
  <2> SUFFICES ASSUME NEW r \in Requests \ RequestsOf(batch'), req[r].live, req[r].computed > 0
               PROVE  RightIn(R, r, req[r].computed, Zeroed(f, Zero)[req[r].slot])
    BY DEF Others
  <2>1. r \in Live \ RequestsOf(batch')
    BY DEF Live
  <2>2. RightIn(R, r, req[r].computed, f[req[r].slot])
    BY DEF Others
  <2> QED BY <2>1, <2>2, ZeroedIs
<1> QED BY <1>2, <1>3

LEMMA ForwardStep ==
  ASSUME ForwardInv, Forward
  PROVE  ForwardInv'
<1>1. /\ pc = "idle" /\ pc' = "tmix" /\ layer' = 0
      /\ x' = AllTokens(batch') /\ xx' = x' /\ v_first' = x' /\ pre_mix' = <<>>
      /\ shift_state' = [l \in Layers |-> [k \in {"att", "ffn"} |-> Zeroed(shift_state[l][k], Zero)]]
      /\ wkv_state' = [l \in Layers |-> Zeroed(wkv_state[l], Zero)]
      /\ elapsed' = Zeroed(elapsed, 0)
      /\ cfg' = cfg /\ weights' = weights /\ req' = req /\ raced' = raced
  BY DEF Forward
<1>2. SlotsHeld /\ Prepared /\ StatesRight /\ Counted
  BY <1>1 DEF ForwardInv
<1>3. InPass = {} /\ pc' \in Passing /\ InPass' = RequestsOf(batch')
  BY <1>1 DEF InPass, Passing
<1>4. BatchOf(batch', req)
  <2>1. PICK S \in (SUBSET Live) \ {{}} :
          \E order \in SetToSeqs(S), num \in [S -> 1 .. MaxTokens] :
            batch' = [b \in DOMAIN order |-> Chunk(order[b], num[order[b]])]
    BY DEF Forward
  <2>2. PICK order \in SetToSeqs(S), num \in [S -> 1 .. MaxTokens] :
          batch' = [b \in DOMAIN order |-> Chunk(order[b], num[order[b]])]
    BY <2>1
  <2>3. S \in SUBSET Live /\ S # {}
    OBVIOUS
  <2> QED BY <2>2, <2>3, <1>2, BatchMade
<1>5. BatchShape(batch')
  BY <1>4 DEF BatchOf
<1>6. \A l \in Layers : /\ Others(req, {}, raced, shift_state[l]["att"])
                        /\ Others(req, {}, raced, wkv_state[l])
                        /\ Others(req, {}, raced, shift_state[l]["ffn"])
  BY <1>2, <1>3 DEF StatesRight, StateIn
<1>7. \A l \in Layers : /\ shift_state'[l]["att"] = Zeroed(shift_state[l]["att"], Zero)
                        /\ shift_state'[l]["ffn"] = Zeroed(shift_state[l]["ffn"], Zero)
                        /\ wkv_state'[l] = Zeroed(wkv_state[l], Zero)
  BY <1>1
<1>8. ASSUME NEW l \in Layers PROVE ~AttDone(l)' /\ ~WkvDone(l)' /\ ~FfnDone(l)'
  <2>1. ~(l < 0)
    BY ForwardAssumption DEF Layers
  <2> QED BY <2>1, <1>1 DEF AttDone, WkvDone, FfnDone
<1>9. StatesRight'
  <2> SUFFICES ASSUME NEW l \in Layers
               PROVE  /\ StateIn(AttDone(l), shift_state[l]["att"])'
                      /\ StateIn(WkvDone(l), wkv_state[l])'
                      /\ StateIn(FfnDone(l), shift_state[l]["ffn"])'
    BY DEF StatesRight
  <2>1. /\ Before(batch', raced, shift_state'[l]["att"])
        /\ Others(req, RequestsOf(batch'), raced, shift_state'[l]["att"])
    BY <1>2, <1>4, <1>6, <1>7, ZeroedRight
  <2>2. /\ Before(batch', raced, shift_state'[l]["ffn"])
        /\ Others(req, RequestsOf(batch'), raced, shift_state'[l]["ffn"])
    BY <1>2, <1>4, <1>6, <1>7, ZeroedRight
  <2>3. /\ Before(batch', raced, wkv_state'[l])
        /\ Others(req, RequestsOf(batch'), raced, wkv_state'[l])
    BY <1>2, <1>4, <1>6, <1>7, ZeroedRight
  <2> QED BY <2>1, <2>2, <2>3, <1>1, <1>3, <1>8 DEF StateIn
<1>10. Prepared' /\ RaisedRight' /\ LogitsRight'
  BY <1>1, <1>2, WeightsKept DEF Prepared, RaisedRight, LogitsRight, Passing
<1>11. SlotsHeld' /\ Shaped'
  BY <1>1, <1>2 DEF SlotsHeld, Shaped, Live
<1>12. Batched'
  <2>1. layer' \in Layers
    BY <1>1, ForwardAssumption DEF Layers
  <2>2. ASSUME NEW b \in 1 .. Len(batch') PROVE elapsed'[batch'[b].slot] = batch'[b].first - 1
    <3> DEFINE r == batch'[b].req
    <3>1. /\ r \in Requests /\ req[r].live /\ batch'[b].slot = req[r].slot
          /\ batch'[b].first = req[r].computed + 1
      BY <1>4 DEF BatchOf
    <3>2. req[r].computed \in Nat
      BY <3>1, <1>2 DEF SlotsHeld
    <3>3. elapsed'[batch'[b].slot] =
            IF batch'[b].first = 1 THEN 0 ELSE elapsed[batch'[b].slot]
      BY <1>1, <1>2, <1>4, ZeroedIs
    <3>4. req[r].computed # 0 => elapsed[req[r].slot] = req[r].computed
      BY <3>1, <3>2, <1>2, <1>3 DEF Counted
    <3> HIDE DEF r
    <3> QED BY <3>1, <3>2, <3>3, <3>4
  <2> QED BY <2>1, <2>2, <1>1, <1>4 DEF Batched
<1>13. Counted'
  <2> SUFFICES ASSUME NEW r \in Requests \ RequestsOf(batch'), req[r].live, req[r].computed > 0
               PROVE  elapsed'[req[r].slot] = req[r].computed
    BY <1>1, <1>3 DEF Counted
  <2>1. r \in Live \ RequestsOf(batch')
    BY DEF Live
  <2>2. elapsed'[req[r].slot] = elapsed[req[r].slot]
    BY <2>1, <1>1, <1>2, <1>4, ZeroedIs
  <2> QED BY <2>2, <1>2, <1>3 DEF Counted
<1>14. RowsOK'
  BY <1>1, <1>5, AllTokensRight DEF RowsOK
<1> QED BY <1>9, <1>10, <1>11, <1>12, <1>13, <1>14 DEF ForwardInv

\* What the end of a pass does for a request of it, and for the others.
LEMMA PassEnds ==
  ASSUME ForwardInv, FinalizeLastLayer
  PROVE  /\ Live' = Live
         /\ \A b \in 1 .. B :
              /\ req'[batch[b].req].slot = batch[b].slot
              /\ req'[batch[b].req].computed = batch[b].first + batch[b].num - 1
              /\ elapsed'[batch[b].slot] = batch[b].first + batch[b].num - 1
         /\ \A r \in Requests \ RequestsOf(batch) : req'[r] = req[r]
         /\ \A r \in Live \ RequestsOf(batch) : elapsed'[req[r].slot] = elapsed[req[r].slot]
         /\ SlotsHeld'
<1> DEFINE NumOf(r) == batch[CHOOSE b \in 1 .. B : batch[b].req = r].num
<1>1. /\ req' = [r \in Requests |->
                   IF \E b \in 1 .. B : batch[b].req = r
                   THEN [req[r] EXCEPT !.computed = @ + NumOf(r)] ELSE req[r]]
      /\ elapsed' = [s \in Slots |->
                       IF InBatch(s) = {} THEN elapsed[s]
                       ELSE LET b == CHOOSE c \in InBatch(s) : TRUE IN
                            elapsed[s] + QueryStartLoc(b + 1) - QueryStartLoc(b)]
  BY DEF FinalizeLastLayer
<1>2. pc = "last" /\ pc \in Passing /\ pc # "raised"
  BY DEF FinalizeLastLayer, Passing
<1>3. /\ SlotsHeld /\ BatchOf(batch, req) /\ BatchShape(batch)
      /\ \A b \in 1 .. Len(batch) : elapsed[batch[b].slot] = batch[b].first - 1
  BY <1>2 DEF ForwardInv, Batched, BatchOf
<1>4. /\ B = Len(batch) /\ B \in Nat
      /\ \A b \in 1 .. B : /\ batch[b].req \in Requests /\ req[batch[b].req].live
                           /\ batch[b].slot = req[batch[b].req].slot
                           /\ batch[b].first = req[batch[b].req].computed + 1
                           /\ batch[b].num \in Nat /\ req[batch[b].req].computed \in Nat
      /\ \A b, c \in 1 .. B : batch[b].req = batch[c].req => b = c
  <2>1. /\ B = Len(batch) /\ B \in Nat
        /\ \A b \in 1 .. B : /\ batch[b].req \in Requests /\ req[batch[b].req].live
                             /\ batch[b].slot = req[batch[b].req].slot
                             /\ batch[b].first = req[batch[b].req].computed + 1
        /\ \A b, c \in 1 .. B : batch[b].req = batch[c].req => b = c
    BY <1>3 DEF B, BatchOf, BatchShape
  <2>2. \A b \in 1 .. B : batch[b].num \in Nat
    BY <1>3, ForwardAssumption DEF B, BatchShape
  <2>3. \A r \in Requests : req[r].computed \in Nat
    BY <1>3 DEF SlotsHeld
  <2> QED BY <2>1, <2>2, <2>3
<1>5. \A b \in 1 .. B : NumOf(batch[b].req) = batch[b].num
  BY <1>4
<1>6. \A b \in 1 .. B : QueryStartLoc(b + 1) - QueryStartLoc(b) = batch[b].num
  <2> SUFFICES ASSUME NEW b \in 1 .. B
               PROVE  QueryStartLoc(b + 1) - QueryStartLoc(b) = batch[b].num
    OBVIOUS
  <2>1. (b + 1) - 1 = b /\ b - 1 \in 0 .. B /\ b \in 0 .. B
    BY <1>4
  <2>2. /\ Offsets(batch)[b] = Offsets(batch)[b - 1] + batch[b].num
        /\ Offsets(batch)[b - 1] \in Nat
    BY <1>3, <1>4, <2>1, Parted
  <2> QED BY <2>1, <2>2, <1>4 DEF QueryStartLoc
<1>7. \A b \in 1 .. B : req'[batch[b].req] =
        [req[batch[b].req] EXCEPT !.computed = @ + batch[b].num]
  <2> HIDE DEF NumOf
  <2> QED BY <1>1, <1>4, <1>5
<1>8. \A r \in Requests \ RequestsOf(batch) : req'[r] = req[r]
  <2> HIDE DEF NumOf
  <2> QED BY <1>1, <1>4 DEF RequestsOf
<1>9. req \in [Requests -> [live : BOOLEAN, slot : Nat, computed : Nat]]
  BY <1>3 DEF SlotsHeld
<1>10. ASSUME NEW r \in Requests
       PROVE  /\ req'[r] \in [live : BOOLEAN, slot : Nat, computed : Nat]
              /\ req'[r].live = req[r].live /\ req'[r].slot = req[r].slot
  <2>1. req[r] \in [live : BOOLEAN, slot : Nat, computed : Nat]
    BY <1>9
  <2>2. CASE r \in RequestsOf(batch)
    <3>1. PICK b \in 1 .. B : batch[b].req = r
      BY <2>2, <1>4 DEF RequestsOf
    <3>2. req'[r] = [req[r] EXCEPT !.computed = @ + batch[b].num] /\ batch[b].num \in Nat
      BY <3>1, <1>4, <1>7
    <3> QED BY <2>1, <3>2
  <2>3. CASE r \notin RequestsOf(batch)
    BY <2>1, <2>3, <1>8
  <2> QED BY <2>2, <2>3
<1>11. Live' = Live
  BY <1>10 DEF Live
<1>12. SlotsHeld'
  <2>1. DOMAIN req' = Requests
    BY <1>1
  <2>2. req' \in [Requests -> [live : BOOLEAN, slot : Nat, computed : Nat]]
    <3> HIDE DEF NumOf
    <3> QED BY <1>1, <1>10
  <2> QED BY <2>2, <1>3, <1>10, <1>11 DEF SlotsHeld, Live
<1>13. ASSUME NEW b \in 1 .. B
       PROVE  /\ req'[batch[b].req].slot = batch[b].slot
              /\ req'[batch[b].req].computed = batch[b].first + batch[b].num - 1
              /\ elapsed'[batch[b].slot] = batch[b].first + batch[b].num - 1
  <2>1. batch[b].slot \in Slots /\ InBatch(batch[b].slot) = {b}
    BY <1>3, SlotsApart
  <2>2. (CHOOSE c \in InBatch(batch[b].slot) : TRUE) = b
    BY <2>1
  <2>3. elapsed'[batch[b].slot] =
          elapsed[batch[b].slot] + QueryStartLoc(b + 1) - QueryStartLoc(b)
    BY <2>1, <2>2, <1>1
  <2>4. /\ QueryStartLoc(b + 1) \in Nat /\ QueryStartLoc(b) \in Nat
        /\ QueryStartLoc(b + 1) - QueryStartLoc(b) = batch[b].num
    <3>1. (b + 1) - 1 = b /\ b - 1 \in 0 .. B /\ b \in 0 .. B
      BY <1>4
    <3> QED BY <3>1, <1>3, <1>4, <1>6, Parted DEF QueryStartLoc
  <2>5. elapsed[batch[b].slot] = batch[b].first - 1 /\ batch[b].first \in Nat /\ batch[b].num \in Nat
    BY <1>3, <1>4
  <2>6. elapsed'[batch[b].slot] = batch[b].first + batch[b].num - 1
    BY <2>3, <2>4, <2>5
  <2>7. req[batch[b].req] \in [live : BOOLEAN, slot : Nat, computed : Nat]
    BY <1>4, <1>9
  <2>8. /\ req'[batch[b].req].slot = batch[b].slot
        /\ req'[batch[b].req].computed = req[batch[b].req].computed + batch[b].num
    BY <2>7, <1>4, <1>7
  <2>9. req'[batch[b].req].computed = batch[b].first + batch[b].num - 1
    <3>1. /\ batch[b].num \in Nat /\ req[batch[b].req].computed \in Nat
          /\ batch[b].first = req[batch[b].req].computed + 1
      BY <1>4
    <3> QED BY <2>8, <3>1
  <2> QED BY <2>6, <2>8, <2>9
<1>14. ASSUME NEW r \in Live \ RequestsOf(batch)
       PROVE  elapsed'[req[r].slot] = elapsed[req[r].slot]
  <2>1. req[r].slot \in Slots /\ InBatch(req[r].slot) = {}
    BY <1>3, SlotsApart
  <2> QED BY <2>1, <1>1
<1> QED BY <1>8, <1>11, <1>12, <1>13, <1>14

LEMMA FinalizeStep ==
  ASSUME ForwardInv, FinalizeLastLayer
  PROVE  ForwardInv'
<1>1. /\ pc = "last" /\ pc' = "idle" /\ pc \in Passing /\ pc' \notin Passing
      /\ logits' = [b \in 1 .. B |-> Join(x[LastRow(b)], xx[LastRow(b)])]
      /\ cfg' = cfg /\ weights' = weights /\ layer' = layer /\ batch' = batch
      /\ shift_state' = shift_state /\ wkv_state' = wkv_state /\ raced' = raced
  BY DEF FinalizeLastLayer, Passing
<1>2. /\ Prepared /\ Shaped /\ StatesRight /\ Counted /\ RowsOK
      /\ BatchOf(batch, req) /\ BatchShape(batch) /\ B = Len(batch)
      /\ layer \in Layers /\ layer + 1 = L
  BY <1>1 DEF ForwardInv, Batched, BatchOf, B
<1>3. /\ Live' = Live
      /\ \A b \in 1 .. B :
           /\ req'[batch[b].req].slot = batch[b].slot
           /\ req'[batch[b].req].computed = batch[b].first + batch[b].num - 1
           /\ elapsed'[batch[b].slot] = batch[b].first + batch[b].num - 1
      /\ \A r \in Requests \ RequestsOf(batch) : req'[r] = req[r]
      /\ \A r \in Live \ RequestsOf(batch) : elapsed'[req[r].slot] = elapsed[req[r].slot]
      /\ SlotsHeld'
  BY PassEnds
<1>4. InPass' = {} /\ InPass = RequestsOf(batch)
  BY <1>1 DEF InPass
<1>5. ASSUME NEW s, Others(req, RequestsOf(batch), raced, s), After(batch, raced, s)
      PROVE  Others(req', {}, raced, s)
  <2> SUFFICES ASSUME NEW r \in Requests, req'[r].live, req'[r].computed > 0
               PROVE  RightIn(raced, r, req'[r].computed, s[req'[r].slot])
    BY DEF Others
  <2>1. CASE r \in RequestsOf(batch)
    <3>1. PICK b \in 1 .. B : batch[b].req = r
      BY <2>1, <1>2 DEF RequestsOf
    <3>2. RightIn(raced, r, batch[b].first + batch[b].num - 1, s[batch[b].slot])
      BY <3>1, <1>2, <1>5 DEF After
    <3> QED BY <3>1, <3>2, <1>3
  <2>2. CASE r \notin RequestsOf(batch)
    BY <2>2, <1>3, <1>5 DEF Others
  <2> QED BY <2>1, <2>2
<1>6. \A l \in Layers : AttDone(l) /\ WkvDone(l) /\ FfnDone(l)
  <2> SUFFICES ASSUME NEW l \in Layers PROVE l < layer \/ l = layer
    BY <1>1 DEF AttDone, WkvDone, FfnDone
  <2>1. L \in Nat /\ layer \in 0 .. L - 1 /\ l \in 0 .. L - 1
    BY <1>2, ForwardAssumption DEF Layers
  <2> QED BY <2>1, <1>2
<1>7. StatesRight'
  <2> SUFFICES ASSUME NEW l \in Layers
               PROVE  /\ Others(req', {}, raced, shift_state[l]["att"])
                      /\ Others(req', {}, raced, wkv_state[l])
                      /\ Others(req', {}, raced, shift_state[l]["ffn"])
    BY <1>1, <1>4 DEF StatesRight, StateIn
  <2>1. /\ StateIn(AttDone(l), shift_state[l]["att"]) /\ AttDone(l)
        /\ StateIn(WkvDone(l), wkv_state[l]) /\ WkvDone(l)
        /\ StateIn(FfnDone(l), shift_state[l]["ffn"]) /\ FfnDone(l)
    BY <1>2, <1>6 DEF StatesRight
  <2> HIDE DEF AttDone, WkvDone, FfnDone
  <2>2. \A s : StateIn(TRUE, s) =>
                 Others(req, RequestsOf(batch), raced, s) /\ After(batch, raced, s)
    BY <1>1, <1>4 DEF StateIn
  <2>3. /\ StateIn(TRUE, shift_state[l]["att"]) /\ StateIn(TRUE, wkv_state[l])
        /\ StateIn(TRUE, shift_state[l]["ffn"])
    BY <2>1, <1>1, <1>4 DEF StateIn
  <2> QED BY <2>2, <2>3, <1>5
<1>8. Counted'
  <2> SUFFICES ASSUME NEW r \in Requests, req'[r].live, req'[r].computed > 0
               PROVE  elapsed'[req'[r].slot] = req'[r].computed
    BY <1>4 DEF Counted
  <2>1. CASE r \in RequestsOf(batch)
    <3>1. PICK b \in 1 .. B : batch[b].req = r
      BY <2>1, <1>2 DEF RequestsOf
    <3> QED BY <3>1, <1>3
  <2>2. CASE r \notin RequestsOf(batch)
    <3>1. req'[r] = req[r] /\ r \in Live
      BY <2>2, <1>3 DEF Live
    <3> QED BY <2>2, <3>1, <1>2, <1>3, <1>4 DEF Counted
  <2> QED BY <2>1, <2>2
<1>9. LogitsRight'
  <2> SUFFICES ASSUME NEW b \in 1 .. B
               PROVE  RightIn(raced, batch[b].req, batch[b].first + batch[b].num - 1,
                              Join(x[LastRow(b)], xx[LastRow(b)]))
    BY <1>1 DEF LogitsRight
  <2>1. IsRow(LastRow(b), b, batch[b].num)
    BY <1>2, RowsAre
  <2>2. RowsRight(batch, raced, x) /\ RowsRight(batch, raced, xx)
    BY <1>1, <1>2 DEF RowsOK
  <2>3. /\ RightIn(raced, batch[b].req, batch[b].first + batch[b].num - 1, x[LastRow(b)])
        /\ RightIn(raced, batch[b].req, batch[b].first + batch[b].num - 1, xx[LastRow(b)])
    BY <2>1, <2>2, <1>2, RightRows
  <2> QED BY <2>3, JoinRight
<1>10. Prepared' /\ RaisedRight' /\ Shaped' /\ Batched' /\ RowsOK'
  BY <1>1, <1>2, WeightsKept DEF Prepared, RaisedRight, Shaped, Batched, RowsOK, Passing
<1> QED BY <1>3, <1>7, <1>8, <1>9, <1>10 DEF ForwardInv
-----------------------------------------------------------------------------
(***************************************************************************)
(* Steps between two passes.                                               *)
(***************************************************************************)
\* Such a step leaves the states and starts no pass.
LEMMA IdleFrame ==
  ASSUME Shaped, StatesRight, Counted, SlotsHeld', pc \notin Passing, pc' \notin Passing,
         UNCHANGED stateVars, raced' = raced,
         \A r \in Requests : req'[r].live /\ req'[r].computed > 0 => req'[r] = req[r]
  PROVE  Shaped' /\ Batched' /\ StatesRight' /\ Counted' /\ RowsOK'
<1>1. /\ InPass = {} /\ InPass' = {}
      /\ shift_state' = shift_state /\ wkv_state' = wkv_state /\ elapsed' = elapsed
  BY DEF InPass, stateVars
<1>2. \A s : Others(req, {}, raced, s) => Others(req', {}, raced', s)
  BY DEF Others
<1>3. StatesRight'
  BY <1>1, <1>2 DEF StatesRight, StateIn
<1>4. Counted'
  BY <1>1 DEF Counted
<1> QED BY <1>1, <1>3, <1>4 DEF Shaped, Batched, RowsOK

LEMMA AdmitStep ==
  ASSUME ForwardInv, NEW r \in Requests, Admit(r)
  PROVE  ForwardInv'
<1>1. /\ pc = "idle" /\ pc' = "idle" /\ pc \notin Passing /\ pc # "raised"
      /\ r \notin Live /\ req[r].computed = 0 /\ FreeSlots # {}
      /\ req' = [req EXCEPT ![r].live = TRUE, ![r].slot = Min(FreeSlots)]
      /\ logits' = <<>> /\ cfg' = cfg /\ weights' = weights /\ raced' = raced
      /\ UNCHANGED stateVars
  BY DEF Admit, Sampled, Passing
<1>2. Prepared /\ SlotsHeld /\ Shaped /\ StatesRight /\ Counted
  BY <1>1 DEF ForwardInv
<1>3. Min(FreeSlots) \in FreeSlots
  <2>1. FreeSlots \in SUBSET Nat
    BY ForwardAssumption DEF FreeSlots
  <2> QED BY <2>1, <1>1, MinIs
<1>4. Min(FreeSlots) \in Slots /\ \A q \in Live : req[q].slot # Min(FreeSlots)
  BY <1>3 DEF FreeSlots
<1> DEFINE slot == Min(FreeSlots)
<1> HIDE DEF slot
<1>5. /\ slot \in Slots /\ slot \in Nat /\ \A q \in Live : req[q].slot # slot
      /\ req' = [req EXCEPT ![r].live = TRUE, ![r].slot = slot]
  <2>1. slot \in Slots /\ \A q \in Live : req[q].slot # slot
    BY <1>4 DEF slot
  <2>2. slot \in Nat
    BY <2>1, ForwardAssumption
  <2>3. req' = [req EXCEPT ![r].live = TRUE, ![r].slot = slot]
    BY <1>1, Zenon DEF slot
  <2> QED BY <2>1, <2>2, <2>3
<1>6. req \in [Requests -> [live : BOOLEAN, slot : Nat, computed : Nat]]
  BY <1>2 DEF SlotsHeld
<1>7. /\ req' \in [Requests -> [live : BOOLEAN, slot : Nat, computed : Nat]]
      /\ req'[r].live /\ req'[r].slot = slot /\ req'[r].computed = 0
      /\ \A q \in Requests \ {r} : req'[q] = req[q]
  <2>1. req[r].computed = 0
    BY <1>1
  <2>2. \A q \in Requests \ {r} : req'[q] = req[q]
    BY <1>5, <1>6
  <2>3. req'[r] = [req[r] EXCEPT !.live = TRUE, !.slot = slot]
    BY <1>5, <1>6
  <2>4. req'[r].live /\ req'[r].slot = slot /\ req'[r].computed = 0
    BY <1>6, <2>1, <2>3
  <2>5. req' \in [Requests -> [live : BOOLEAN, slot : Nat, computed : Nat]]
    BY <1>5, <1>6
  <2> QED BY <2>2, <2>4, <2>5
<1>8. Live' = Live \cup {r}
  BY <1>7 DEF Live
<1>9. \A q \in Live : q \in Requests \ {r} /\ req'[q] = req[q] /\ req[q].slot \in Slots
  BY <1>1, <1>2, <1>7 DEF Live, SlotsHeld
<1>10. SlotsHeld'
  <2>1. \A q \in Live' : req'[q].slot \in Slots
    BY <1>5, <1>7, <1>8, <1>9
  <2>2. \A q, s \in Live : req[q].slot = req[s].slot => q = s
    BY <1>2 DEF SlotsHeld
  <2>3. \A q, s \in Live' : req'[q].slot = req'[s].slot => q = s
    BY <2>2, <1>5, <1>7, <1>8, <1>9
  <2> QED BY <2>1, <2>3, <1>7 DEF SlotsHeld
<1>11. \A q \in Requests : req'[q].live /\ req'[q].computed > 0 => req'[q] = req[q]
  BY <1>7
<1>12. Shaped' /\ Batched' /\ StatesRight' /\ Counted' /\ RowsOK'
  BY <1>1, <1>2, <1>10, <1>11, IdleFrame
<1>13. Prepared' /\ RaisedRight' /\ LogitsRight'
  BY <1>1, <1>2, WeightsKept DEF Prepared, RaisedRight, LogitsRight
<1> QED BY <1>10, <1>12, <1>13 DEF ForwardInv

LEMMA FinishStep ==
  ASSUME ForwardInv, NEW r \in Requests, Finish(r)
  PROVE  ForwardInv'
<1>1. /\ pc = "idle" /\ pc' = "idle" /\ pc \notin Passing /\ pc # "raised" /\ r \in Live
      /\ req' = [req EXCEPT ![r].live = FALSE, ![r].slot = 0]
      /\ logits' = <<>> /\ cfg' = cfg /\ weights' = weights /\ raced' = raced
      /\ UNCHANGED stateVars
  BY DEF Finish, Sampled, Passing
<1>2. Prepared /\ SlotsHeld /\ Shaped /\ StatesRight /\ Counted
  BY <1>1 DEF ForwardInv
<1>3. req \in [Requests -> [live : BOOLEAN, slot : Nat, computed : Nat]]
  BY <1>2 DEF SlotsHeld
<1>4. /\ req' \in [Requests -> [live : BOOLEAN, slot : Nat, computed : Nat]]
      /\ ~req'[r].live /\ \A q \in Requests \ {r} : req'[q] = req[q]
  BY <1>1, <1>3
<1>5. Live' = Live \ {r}
  BY <1>4 DEF Live
<1>6. SlotsHeld'
  <2>1. \A q \in Live' : q \in Live /\ req'[q] = req[q]
    BY <1>4, <1>5 DEF Live
  <2> QED BY <2>1, <1>2, <1>4 DEF SlotsHeld
<1>7. \A q \in Requests : req'[q].live /\ req'[q].computed > 0 => req'[q] = req[q]
  BY <1>4
<1>8. Shaped' /\ Batched' /\ StatesRight' /\ Counted' /\ RowsOK'
  BY <1>1, <1>2, <1>6, <1>7, IdleFrame
<1>9. Prepared' /\ RaisedRight' /\ LogitsRight'
  BY <1>1, <1>2, WeightsKept DEF Prepared, RaisedRight, LogitsRight
<1> QED BY <1>6, <1>8, <1>9 DEF ForwardInv

LEMMA PreprocessStep ==
  ASSUME ForwardInv, PreprocessWeights
  PROVE  ForwardInv'
<1>1. /\ pc = "load" /\ pc' = "idle" /\ pc \notin Passing /\ pc' \notin Passing
      /\ weights' = AllWeights /\ cfg' = cfg /\ req' = req /\ batch' = batch /\ logits' = logits
      /\ raced' = raced /\ UNCHANGED stateVars
  BY DEF PreprocessWeights, AllWeights, Passing
<1>2. Prepared /\ SlotsHeld /\ Shaped /\ StatesRight /\ Counted /\ LogitsRight
  BY <1>1 DEF ForwardInv
<1>3. SlotsHeld'
  BY <1>1, <1>2 DEF SlotsHeld, Live
<1>4. Shaped' /\ Batched' /\ StatesRight' /\ Counted' /\ RowsOK'
  BY <1>1, <1>2, <1>3, IdleFrame
<1>5. Prepared' /\ RaisedRight' /\ LogitsRight'
  BY <1>1, <1>2, WeightsKept DEF Prepared, RaisedRight, LogitsRight
<1> QED BY <1>3, <1>4, <1>5 DEF ForwardInv

\* With its weights all there, a step fails on the stacked inputs only.
LEMMA RaiseStep ==
  ASSUME ForwardInv, Raise
  PROVE  ForwardInv'
<1>1. /\ pc \in {"tmix", "cmix", "last"} /\ pc' = "raised" /\ pc \in Passing
      /\ cfg' = cfg /\ weights' = weights /\ batch' = batch
  BY DEF Raise, Passing
<1>2. Prepared /\ weights = AllWeights /\ BatchShape(batch)
  BY <1>1 DEF ForwardInv, Prepared, Batched, BatchOf
<1>3. RkvRaises
  <2>1. TimeMixReads \subseteq weights /\ ChannelMixReads \subseteq weights
    BY <1>2, TimeMixFinds, ChannelMixFinds
  <2>2. LinearReads("head") \in weights
    BY <1>2, LinearThere DEF Linears
  <2> QED BY <2>1, <2>2 DEF Raise
<1>4. Uniform(batch) /\ cfg.rkv_mode # "off" /\ ~Orig("att_c2c")
  <2>1. IsUniform /\ UseBatchedRkv
    BY <1>3 DEF RkvRaises
  <2>2. Uniform(batch)
    BY <2>1, <1>2, RowsFound
  <2> QED BY <2>1, <2>2 DEF UseBatchedRkv
<1>5. Prepared' /\ RaisedRight'
  BY <1>1, <1>2, <1>4, WeightsKept DEF Prepared, RaisedRight, Orig
<1> QED BY <1>1, <1>5 DEF ForwardInv
-----------------------------------------------------------------------------
(***************************************************************************)
(* Theorems.                                                               *)
(***************************************************************************)
LEMMA ForwardInit ==
  ASSUME Init
  PROVE  ForwardInv
<1>1. /\ cfg \in Configs /\ pc = "load" /\ pc \notin Passing
      /\ req = [r \in Requests |-> NoRequest] /\ logits = <<>>
      /\ shift_state = [l \in Layers |-> [k \in {"att", "ffn"} |-> [s \in Slots |-> Zero]]]
      /\ wkv_state = [l \in Layers |-> [s \in Slots |-> Zero]]
  BY DEF Init, Passing
<1>2. /\ req \in [Requests -> [live : BOOLEAN, slot : Nat, computed : Nat]]
      /\ \A r \in Requests : ~req[r].live
  BY <1>1 DEF NoRequest
<1>3. SlotsHeld
  BY <1>2 DEF SlotsHeld, Live
<1>4. \A I, s : Others(req, I, raced, s)
  BY <1>2 DEF Others
<1>5. StatesRight /\ Counted
  BY <1>1, <1>2, <1>4 DEF StatesRight, StateIn, Counted
<1>6. Prepared /\ RaisedRight /\ Shaped /\ Batched /\ RowsOK /\ LogitsRight
  BY <1>1 DEF Prepared, RaisedRight, Shaped, Batched, RowsOK, LogitsRight
<1> QED BY <1>3, <1>5, <1>6 DEF ForwardInv

LEMMA ForwardStutter ==
  ASSUME ForwardInv, UNCHANGED vars
  PROVE  ForwardInv'
<1>1. /\ cfg' = cfg /\ weights' = weights /\ pc' = pc /\ layer' = layer /\ req' = req
      /\ batch' = batch /\ x' = x /\ xx' = xx /\ v_first' = v_first /\ pre_mix' = pre_mix
      /\ shift_state' = shift_state /\ wkv_state' = wkv_state /\ elapsed' = elapsed
      /\ logits' = logits /\ raced' = raced
  BY DEF vars, rowVars, stateVars
<1>2. InPass' = InPass /\ AllWeights' = AllWeights /\ Live' = Live
  BY <1>1, WeightsKept DEF InPass, Live
<1>3. Prepared' = Prepared /\ RaisedRight' = RaisedRight
  BY <1>1, <1>2 DEF Prepared, RaisedRight, Orig
<1>4. SlotsHeld' = SlotsHeld /\ Shaped' = Shaped /\ Counted' = Counted
  BY <1>1, <1>2 DEF SlotsHeld, Shaped, Counted
<1>5. Batched' = Batched /\ RowsOK' = RowsOK /\ LogitsRight' = LogitsRight
  BY <1>1 DEF Batched, RowsOK, LogitsRight
<1>6. StatesRight' = StatesRight
  BY <1>1, <1>2 DEF StatesRight, StateIn, AttDone, WkvDone, FfnDone
<1> QED BY <1>1, <1>3, <1>4, <1>5, <1>6 DEF ForwardInv

\* From the load of the weights to the last pass: whoever is in the batch, each row, state
\* and logit is that of its request alone (or, after a race, of its own tokens), and every
\* request has a slot of its own that says how far it is.
THEOREM ForwardInvariant == Spec => []ForwardInv
<1>1. Init => ForwardInv
  BY ForwardInit
<1>2. ForwardInv /\ [Next]_vars => ForwardInv'
  <2> SUFFICES ASSUME ForwardInv, [Next]_vars PROVE ForwardInv'
    OBVIOUS
  <2>1. CASE PreprocessWeights
    BY <2>1, PreprocessStep
  <2>2. CASE \E r \in Requests : Admit(r) \/ Finish(r)
    BY <2>2, AdmitStep, FinishStep
  <2>3. CASE Forward
    BY <2>3, ForwardStep
  <2>4. CASE TimeMix
    BY <2>4, TimeMixStep
  <2>5. CASE ChannelMix
    BY <2>5, ChannelMixStep
  <2>6. CASE NextLayer
    BY <2>6, NextLayerStep
  <2>7. CASE FinalizeLastLayer
    BY <2>7, FinalizeStep
  <2>8. CASE Raise
    BY <2>8, RaiseStep
  <2>9. CASE UNCHANGED vars
    BY <2>9, ForwardStutter
  <2> QED BY <2>1, <2>2, <2>3, <2>4, <2>5, <2>6, <2>7, <2>8, <2>9 DEF Next
<1> QED BY <1>1, <1>2, PTL DEF Spec

\* RWKV7.forward with its kernels: between two passes every layer's shift and wkv state in
\* a request's slot, elapsed, and the logits are what the request computed alone has after
\* the same tokens; where tmix_mix6_kernel or cmix_mix_kernel has raced they depend on the
\* request's own tokens still.  For every number of requests, slots, layers and tokens.
THEOREM AloneOrRacedHolds == Spec => []AloneOrRaced
<1>1. ForwardInv => AloneOrRaced
  <2> SUFFICES ASSUME ForwardInv, pc = "idle" PROVE AloneOrRaced
    BY DEF AloneOrRaced
  <2>1. StatesRight /\ Counted /\ LogitsRight /\ SlotsHeld /\ InPass = {}
    BY DEF ForwardInv, InPass, Passing
  <2>2. \A r, k, value : RightIn(raced, r, k, value) <=> Right(r, k, value)
    BY DEF RightIn, Right
  <2>3. ASSUME NEW r \in Live, req[r].computed > 0, NEW value \in SlotValues(req[r].slot)
        PROVE  Right(r, req[r].computed, value)
    <3>1. r \in Requests /\ req[r].live
      BY DEF Live
    <3>2. \A l \in Layers : /\ Others(req, {}, raced, shift_state[l]["att"])
                            /\ Others(req, {}, raced, wkv_state[l])
                            /\ Others(req, {}, raced, shift_state[l]["ffn"])
      BY <2>1 DEF StatesRight, StateIn
    <3>3. \A l \in Layers : /\ Right(r, req[r].computed, shift_state[l]["att"][req[r].slot])
                            /\ Right(r, req[r].computed, wkv_state[l][req[r].slot])
                            /\ Right(r, req[r].computed, shift_state[l]["ffn"][req[r].slot])
      BY <2>2, <2>3, <3>1, <3>2 DEF Others
    <3> QED BY <2>3, <3>3 DEF SlotValues
  <2>4. \A r \in Live : req[r].computed > 0 => elapsed[req[r].slot] = req[r].computed
    BY <2>1 DEF Counted, Live
  <2>5. \A d \in DOMAIN logits :
          Right(batch[d].req, batch[d].first + batch[d].num - 1, logits[d])
    BY <2>1, <2>2 DEF LogitsRight
  <2> QED BY <2>3, <2>4, <2>5 DEF AloneOrRaced
<1> QED BY <1>1, ForwardInvariant, PTL

\* PathSelector.select and its dispatchers: over all choices of path and of weight
\* preparation, every path finds its weights in the layout it wants; of what the model
\* holds, only a uniform batch whose r, k and v are computed in one product fails a pass.
THEOREM RaisesOnlyHolds == Spec => []RaisesOnlyOnStackedRkv
<1>1. ForwardInv => RaisesOnlyOnStackedRkv
  <2> SUFFICES ASSUME ForwardInv, pc = "raised"
               PROVE  IsUniform /\ cfg.rkv_mode # "off" /\ ~Orig("att_c2c")
    BY DEF RaisesOnlyOnStackedRkv
  <2>1. RaisedRight
    BY DEF ForwardInv
  <2>2. Uniform(batch) <=> IsUniform
    BY DEF Uniform, IsUniform, Total, QueryStartLoc, B, MaxT
  <2> QED BY <2>1, <2>2 DEF RaisedRight
<1> QED BY <1>1, ForwardInvariant, PTL
=============================================================================
