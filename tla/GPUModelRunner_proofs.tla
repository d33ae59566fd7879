------------------------ MODULE GPUModelRunner_proofs ------------------------
(***************************************************************************)
(* The model runner gives every request the state after its own tokens,    *)
(* for any configuration, any batches and any requests: RunnerTypeOK,      *)
(* OwnTokensOnly and DefaultsStart.                                        *)
(*                                                                         *)
(* RunnerInv says the same of the two places in the middle of a step: the  *)
(* states when the batch is known, and when the forward pass is done but   *)
(* its tokens are not sampled yet.                                         *)
(***************************************************************************)
EXTENDS GPUModelRunner, FiniteSetTheorems, SequenceTheorems, TLAPS

-----------------------------------------------------------------------------
(***************************************************************************)
(* The inductive invariant                                                 *)
(***************************************************************************)
MaxLen == Max(PromptLens) + MaxOutput
ReqData == [live : BOOLEAN, slot : Nat, prompt : Nat, computed : Nat, output : Nat, done : BOOLEAN]
RunDatas == [req : Requests, slot : Nat, first : Nat, last : Nat, is_decode : BOOLEAN,
             samples : BOOLEAN]

Booting == pc \in {"args", "rejected", "capture", "no start"}
Loaded == pc \in {"capture", "no start", "ready", "execute", "sample"}

\* Start-up.
Config ==
  /\ args \in Args /\ to_capture \in Seq(Int)
  /\ pc \in {"args", "rejected", "capture", "no start", "ready", "execute", "sample", "down"}
  /\ entries \subseteq 1 .. args.max_num_seqs
  /\ pc \notin {"args", "rejected"} => ~Rejected(args)
  /\ pc \in {"capture", "no start"} /\ ~args.named /\ ~args.enforce_eager =>
       \A i \in DOMAIN to_capture : to_capture[i] \in 1 .. args.max_num_seqs
  /\ pc = "no start" => \E i \in DOMAIN to_capture : to_capture[i] \notin 1 .. args.max_num_seqs

GpuTypes ==
  Loaded =>
    /\ state \in [Slots -> States] /\ last_token \in [Slots -> Tokens]
    /\ uniform_slots \in [Slots -> Slots] /\ uniform_tokens \in [Slots -> Tokens]

\* How far a request is.
Progress(r) ==
  /\ req[r].slot \in Slots /\ req[r].prompt \in PromptLens /\ req[r].output <= MaxOutput
  /\ req[r].output = 0 => req[r].computed < req[r].prompt
  /\ req[r].output > 0 => req[r].computed = req[r].prompt + req[r].output - 1

Holding ==
  /\ req \in [Requests -> ReqData]
  /\ \A r \in Live : Progress(r)
  /\ \A r, q \in Live : req[r].slot = req[q].slot => r = q
  /\ free_slots = IF pc \in {"args", "rejected"} THEN {} ELSE Slots \ {req[r].slot : r \in Live}
  /\ Booting => Live = {}

\* Its state and its last token are its own.
Own(r) ==
  /\ req[r].computed > 0 => state[req[r].slot] = [of |-> r, n |-> req[r].computed]
  /\ req[r].output > 0 => last_token[req[r].slot] = <<r, req[r].computed + 1>>

Batched ==
  pc \in {"execute", "sample"} =>
    /\ batch \in Seq(RunDatas)
    /\ \A i \in 1 .. B : /\ batch[i].req \in Live /\ req[batch[i].req].output < MaxOutput
                         /\ \E num \in Nums(batch[i].req) : batch[i] = RunData(batch[i].req, num)
    /\ \A i, j \in 1 .. B : batch[i].req = batch[j].req => i = j

Computing ==
  /\ pc \in {"ready", "execute"} => \A r \in Live : Own(r)
  /\ pc = "sample" =>
       /\ \A r \in Live : (\A i \in 1 .. B : batch[i].req # r) => Own(r)
       /\ \A i \in 1 .. B :
            /\ rows[i].slot = batch[i].slot
            /\ state[batch[i].slot] = [of |-> batch[i].req, n |-> batch[i].last]

RunnerInv ==
  Config /\ GpuTypes /\ Holding /\ Batched /\ Computing /\ ~min_prev_negative

-----------------------------------------------------------------------------
(***************************************************************************)
(* Numbers in order                                                        *)
(***************************************************************************)
\* A set of natural numbers has a least one.
LEMMA HasLeast ==
  ASSUME NEW S \in SUBSET Nat, S # {}
  PROVE  \E m \in S : \A x \in S : m <= x
<1> DEFINE R == {ss \in Nat \X Nat : ss[1] < ss[2]}
<1>1. IsWellFoundedOn(R, Nat)
  BY NatLessThanWellFounded DEF OpToRel
<1>2. \A x, y \in Nat : <<x, y>> \in R <=> x < y
  OBVIOUS
<1> HIDE DEF R
<1>3. PICK m \in S : \A x \in S : ~ (<<x, m>> \in R)
  BY <1>1, WFMin
<1>4. \A x \in S : ~ (x < m) /\ x \in Nat /\ m \in Nat
  BY <1>2, <1>3
<1>5. \A x \in S : m <= x
  BY <1>4
<1> QED BY <1>5

LEMMA MinIs ==
  ASSUME NEW S \in SUBSET Nat, S # {}
  PROVE  Min(S) \in S /\ \A x \in S : Min(S) <= x
BY HasLeast DEF Min

\* Every rank below the size of a finite set is the rank of one of its elements.
LEMMA HasRank ==
  ASSUME NEW S \in SUBSET Nat, IsFiniteSet(S), NEW k \in 0 .. Cardinality(S) - 1
  PROVE  \E s \in S : Cardinality({t \in S : t < s}) = k
<1> DEFINE Below(s) == {t \in S : t < s}
           n == Cardinality(S)
           T == {j \in 0 .. n - 1 : ~ \E s \in S : Cardinality(Below(s)) = j}
<1>1. n \in Nat /\ S # {}
  <2>1. n \in Nat
    BY FS_CardinalityType
  <2> QED BY <2>1, FS_EmptySet
<1>2. SUFFICES ASSUME T # {} PROVE FALSE
  OBVIOUS
<1>3. T \in SUBSET Nat
  OBVIOUS
<1>4. PICK m \in T : \A j \in T : m <= j
  BY <1>2, <1>3, HasLeast
<1>5. m \in 0 .. n - 1 /\ m \in Nat /\ \A s \in S : Cardinality(Below(s)) # m
  <2>1. m \in 0 .. n - 1 /\ ~ \E s \in S : Cardinality(Below(s)) = m
    <3> HIDE DEF Below, n
    <3> QED OBVIOUS
  <2> HIDE DEF T, Below, n
  <2> QED BY <1>1, <2>1
<1>6. CASE m = 0
  <2>1. Min(S) \in S /\ \A x \in S : Min(S) <= x
    BY <1>1, MinIs
  <2>2. Below(Min(S)) = {}
    <3> DEFINE u == Min(S)
    <3>1. u \in S /\ \A x \in S : u <= x /\ x \in Nat /\ u \in Nat
      BY <2>1
    <3> HIDE DEF u
    <3>2. \A x \in S : ~ (x < u)
      BY <3>1
    <3>3. Below(u) = {}
      BY <3>2
    <3> QED BY <3>3 DEF u
  <2> HIDE DEF Below
  <2> QED BY <1>5, <1>6, <2>1, <2>2, FS_EmptySet
<1>7. CASE m # 0
  <2>1. m - 1 \in 0 .. n - 1 /\ m - 1 \notin T
    BY <1>1, <1>3, <1>4, <1>5, <1>7
  <2>2. PICK s \in S : Cardinality(Below(s)) = m - 1
    BY <2>1
  <2> DEFINE U == {t \in S : t > s}
             V == Below(s) \cup {s}
  <2>3. IsFiniteSet(Below(s)) /\ s \notin Below(s)
    BY FS_Subset
  <2>4. IsFiniteSet(V) /\ Cardinality(V) = m
    <3>1. Cardinality(Below(s)) = m - 1 /\ m \in Nat
      BY <1>5, <2>2
    <3> HIDE DEF Below, T, n
    <3>2. IsFiniteSet(V)
      BY <2>3, FS_AddElement
    <3>3. Cardinality(V) = Cardinality(Below(s)) + 1
      BY <2>3, FS_AddElement
    <3> HIDE DEF V
    <3> QED BY <3>1, <3>2, <3>3
  <2>5. U # {}
    <3> SUFFICES ASSUME U = {} PROVE FALSE
      OBVIOUS
    <3>1. \A t \in S : ~ (t > s) /\ t \in Nat /\ s \in Nat
      OBVIOUS
    <3>2. \A t \in S : t < s \/ t = s
      BY <3>1
    <3>3. S = V
      BY <3>2
    <3>4. Cardinality(V) = n
      BY <3>3
    <3> HIDE DEF V, T, n
    <3>5. m < n
      BY <1>1, <1>5
    <3> QED BY <1>1, <1>5, <2>4, <3>4, <3>5
  <2>6. U \in SUBSET Nat
    OBVIOUS
  <2>7. Min(U) \in U /\ \A x \in U : Min(U) <= x
    BY <2>5, <2>6, MinIs
  <2>8. Below(Min(U)) = V
    <3> DEFINE u == Min(U)
    <3>1. u \in S /\ u > s /\ \A x \in S : x > s => u <= x
      BY <2>7
    <3> HIDE DEF u
    <3>2. \A x \in S : x \in Nat /\ u \in Nat /\ s \in Nat
      BY <3>1
    <3>3. \A x \in S : x < u <=> x < s \/ x = s
      BY <3>1, <3>2
    <3>4. Below(u) = V
      BY <3>3
    <3> QED BY <3>4 DEF u
  <2>9. Min(U) \in S
    BY <2>7
  <2> HIDE DEF Below, U, V
  <2> QED BY <1>5, <2>4, <2>8, <2>9
<1> QED BY <1>6, <1>7

\* Sorted(S) lists elements of S.
LEMMA SortedIs ==
  ASSUME NEW S \in SUBSET Nat, IsFiniteSet(S)
  PROVE  Sorted(S) \in Seq(S) /\ Len(Sorted(S)) = Cardinality(S)
<1>1. Cardinality(S) \in Nat
  BY FS_CardinalityType
<1>2. \A k \in 1 .. Cardinality(S) : Sorted(S)[k] \in S
  <2> SUFFICES ASSUME NEW k \in 1 .. Cardinality(S) PROVE Sorted(S)[k] \in S
    OBVIOUS
  <2>1. k - 1 \in 0 .. Cardinality(S) - 1
    BY <1>1
  <2>2. \E s \in S : Cardinality({t \in S : t < s}) = k - 1
    BY <2>1, HasRank
  <2>3. Sorted(S)[k] = CHOOSE s \in S : Cardinality({t \in S : t < s}) = k - 1
    BY DEF Sorted
  <2> QED BY <2>2, <2>3
<1>3. Sorted(S) \in [1 .. Cardinality(S) -> S]
  BY <1>2 DEF Sorted
<1> QED BY <1>1, <1>3

\* With default arguments only sizes are captured that the buffers hold.
LEMMA DefaultShapes ==
  ASSUME NEW a \in Args, ~Rejected(a), ~a.named, ~a.enforce_eager,
         NEW i \in DOMAIN CaptureShapes(a)
  PROVE  CaptureShapes(a)[i] \in 1 .. a.max_num_seqs
<1> DEFINE sizes == DefaultCaptureSizes(a.max_num_seqs, a.max_num_batched_tokens)
           most == Min({a.max_num_seqs, 512, a.max_num_batched_tokens})
<1>1. a.max_num_seqs \in Nat \ {0} /\ a.max_num_batched_tokens \in Nat
      /\ a.max_num_batched_tokens >= a.max_num_seqs
  BY ConfigAssumption DEF Rejected
<1>2. most \in Nat /\ most >= 1 /\ most <= a.max_num_seqs
  <2> DEFINE S == {a.max_num_seqs, 512, a.max_num_batched_tokens}
  <2>1. S \in SUBSET Nat /\ S # {} /\ \A x \in S : x >= 1
    BY <1>1
  <2>2. a.max_num_seqs \in S
    OBVIOUS
  <2> HIDE DEF S
  <2>3. Min(S) \in S /\ \A x \in S : Min(S) <= x
    BY <2>1, MinIs
  <2>4. most = Min(S)
    BY DEF S
  <2> HIDE DEF most
  <2> QED BY <2>1, <2>2, <2>3, <2>4
<1>3. sizes = {s \in {1, 2, 4} \cup {8 * k : k \in 1 .. 31} \cup {256 + 16 * k : k \in 0 .. 16} :
                 s <= most} \cup {most}
  <2>1. ~(most < 1)
    <3> HIDE DEF most
    <3> QED BY <1>2
  <2> QED BY <2>1 DEF DefaultCaptureSizes
<1> HIDE DEF sizes, most
<1>4. sizes \subseteq 1 .. a.max_num_seqs /\ most \in sizes
  BY <1>1, <1>2, <1>3
<1>5. sizes \in SUBSET Nat /\ IsFiniteSet(sizes)
  <2>1. 1 \in Int /\ a.max_num_seqs \in Int
    BY <1>1
  <2>2. IsFiniteSet(1 .. a.max_num_seqs)
    BY <2>1, FS_Interval
  <2>3. 1 .. a.max_num_seqs \subseteq Nat
    BY <1>1
  <2>4. sizes \in SUBSET Nat
    BY <1>4, <2>3
  <2> QED BY <1>4, <2>2, <2>4, FS_Subset
<1>6. Sorted(sizes) \in Seq(sizes) /\ Len(Sorted(sizes)) = Cardinality(sizes)
  BY <1>5, SortedIs
<1>7. Sorted(sizes) # <<>>
  <2>1. Cardinality(sizes) # 0
    BY <1>4, <1>5, FS_EmptySet
  <2> QED BY <1>6, <2>1
<1>8. CASE a.cudagraph_mode = "none"
  BY <1>8 DEF CaptureShapes
<1>9. CASE a.cudagraph_mode # "none"
  <2>1. CaptureSize(a) = Sorted(sizes)
    BY <1>9 DEF CaptureSize, sizes
  <2>2. CaptureShapes(a) = Sorted(sizes)
    BY <1>7, <1>9, <2>1 DEF CaptureShapes
  <2>3. i \in DOMAIN Sorted(sizes)
    BY <2>2
  <2>4. Sorted(sizes)[i] \in sizes
    BY <1>6, <2>3
  <2> QED BY <1>4, <2>2, <2>4
<1> QED BY <1>8, <1>9

LEMMA ShapesAre ==
  ASSUME NEW a \in Args
  PROVE  CaptureShapes(a) \in Seq(Int)
<1> DEFINE sizes == DefaultCaptureSizes(a.max_num_seqs, a.max_num_batched_tokens)
           most == Min({a.max_num_seqs, 512, a.max_num_batched_tokens})
<1>1. a.max_num_seqs \in Nat /\ a.max_num_batched_tokens \in Nat
      /\ a.cudagraph_capture_size \in Seq(Int) /\ FallbackTop \in Nat
  BY ConfigAssumption
<1>2. \A S \in SUBSET Nat : \A q \in Seq(S) : q \in Seq(Int)
  <2> SUFFICES ASSUME NEW S \in SUBSET Nat, NEW q \in Seq(S) PROVE q \in Seq(Int)
    OBVIOUS
  <2>1. q \in [1 .. Len(q) -> S] /\ Len(q) \in Nat
    OBVIOUS
  <2>2. \A i \in 1 .. Len(q) : q[i] \in S
    BY <2>1
  <2>3. \A i \in 1 .. Len(q) : q[i] \in Int
    <3> SUFFICES ASSUME NEW i \in 1 .. Len(q) PROVE q[i] \in Int
      OBVIOUS
    <3>1. \A x \in S : x \in Nat
      OBVIOUS
    <3>2. q[i] \in Nat
      BY <2>2, <3>1
    <3> QED BY <3>2
  <2>4. q = [i \in 1 .. Len(q) |-> q[i]]
    BY <2>1
  <2> QED BY <2>1, <2>3, <2>4
<1>3. most \in Nat
  <2>1. {a.max_num_seqs, 512, a.max_num_batched_tokens} \in SUBSET Nat
    BY <1>1
  <2> QED BY <2>1, MinIs
<1>4. sizes \subseteq 1 .. most
  BY <1>3 DEF DefaultCaptureSizes
<1> HIDE DEF sizes, most
<1>5. IsFiniteSet(1 .. most) /\ 1 .. most \in SUBSET Nat
  <2>1. 1 \in Int /\ most \in Int
    BY <1>3
  <2>2. IsFiniteSet(1 .. most)
    BY <2>1, FS_Interval
  <2> QED BY <1>3, <2>2
<1>6. sizes \in SUBSET Nat /\ IsFiniteSet(sizes)
  <2>1. sizes \in SUBSET Nat
    BY <1>4, <1>5
  <2> QED BY <1>4, <1>5, <2>1, FS_Subset
<1>7. Sorted(sizes) \in Seq(Int)
  BY <1>2, <1>6, SortedIs
<1>8. 1 .. FallbackTop \in SUBSET Nat /\ IsFiniteSet(1 .. FallbackTop)
  <2>1. 1 \in Int /\ FallbackTop \in Int
    BY <1>1
  <2>2. IsFiniteSet(1 .. FallbackTop)
    BY <2>1, FS_Interval
  <2> QED BY <1>1, <2>2
<1>9. Sorted(1 .. FallbackTop) \in Seq(Int)
  BY <1>2, <1>8, SortedIs
<1> QED BY <1>1, <1>7, <1>9 DEF CaptureShapes, CaptureSize, sizes

-----------------------------------------------------------------------------
(***************************************************************************)
(* What a batch holds                                                      *)
(***************************************************************************)
LEMMA Bounds ==
  /\ MaxLen \in Nat /\ MaxLen >= 1 /\ MaxLen = Max(PromptLens) + MaxOutput
  /\ Max(PromptLens) \in Nat /\ MaxOutput \in Nat
  /\ \A n \in PromptLens : n \in Nat /\ n >= 1 /\ n <= Max(PromptLens)
BY RunnerAssumption DEF MaxLen

LEMMA SlotsAre ==
  ASSUME Config
  PROVE  /\ args.max_num_seqs \in Nat \ {0} /\ Slots \subseteq Nat
         /\ IsFiniteSet(Slots) /\ Cardinality(Slots) = args.max_num_seqs
<1> DEFINE top == args.max_num_seqs - 1
<1>1. args.max_num_seqs \in Nat \ {0}
  BY ConfigAssumption DEF Config
<1>2. 0 \in Int /\ top \in Int /\ Slots = 0 .. top
  BY <1>1 DEF Slots
<1>3. IsFiniteSet(0 .. top) /\ Cardinality(0 .. top) = IF 0 > top THEN 0 ELSE top - 0 + 1
  <2> HIDE DEF top
  <2> QED BY <1>2, FS_Interval
<1>4. 0 .. top \subseteq Nat
  BY <1>1
<1> QED BY <1>1, <1>2, <1>3, <1>4

LEMMA BatchIs ==
  ASSUME RunnerInv, pc \in {"execute", "sample"}, NEW i \in 1 .. B
  PROVE  /\ B \in Nat /\ DOMAIN batch = 1 .. B
         /\ batch[i].req \in Live /\ batch[i].req \in Requests
         /\ batch[i].slot = req[batch[i].req].slot /\ batch[i].slot \in Slots
         /\ req[batch[i].req] \in ReqData /\ req[batch[i].req].output < MaxOutput
         /\ batch[i].first = req[batch[i].req].computed + 1
         /\ batch[i].first \in Nat /\ batch[i].last \in Nat
         /\ batch[i].first <= batch[i].last /\ batch[i].last < MaxLen
         /\ batch[i].is_decode \in BOOLEAN /\ batch[i].samples \in BOOLEAN
         /\ batch[i].is_decode =>
              /\ batch[i].last = batch[i].first /\ batch[i].first > 1 /\ batch[i].samples
              /\ req[batch[i].req].output > 0
              /\ batch[i].last = req[batch[i].req].prompt + req[batch[i].req].output
         /\ ~batch[i].is_decode =>
              /\ req[batch[i].req].output = 0 /\ batch[i].last <= req[batch[i].req].prompt
              /\ batch[i].samples <=> batch[i].last = req[batch[i].req].prompt
<1> DEFINE d == batch[i]
           r == batch[i].req
<1>1. /\ batch \in Seq(RunDatas) /\ r \in Live /\ req[r].output < MaxOutput
      /\ \E num \in Nums(r) : d = RunData(r, num)
  BY DEF RunnerInv, Batched
<1>2. B \in Nat /\ DOMAIN batch = 1 .. B /\ d \in RunDatas
  BY <1>1 DEF B
<1>3. r \in Requests /\ req[r] \in ReqData /\ Progress(r)
  BY <1>1 DEF RunnerInv, Holding, Live
<1>4. PICK num \in Nums(r) : d = RunData(r, num)
  BY <1>1
<1>5. /\ req[r].computed \in Nat /\ req[r].output \in Nat /\ req[r].prompt \in Nat
      /\ req[r].slot \in Slots
  BY <1>3 DEF ReqData, Progress
<1>6. /\ d.slot = req[r].slot /\ d.first = req[r].computed + 1
      /\ d.last = req[r].computed + num
      /\ d.is_decode = IsDecode(r)
      /\ d.samples = (IsDecode(r) \/ req[r].computed + num >= req[r].prompt)
  <2> HIDE DEF r
  <2> QED BY <1>4 DEF RunData
<1>7. /\ req[r].prompt >= 1 /\ req[r].prompt <= Max(PromptLens)
      /\ req[r].output = 0 => req[r].computed < req[r].prompt
      /\ req[r].output > 0 => req[r].computed = req[r].prompt + req[r].output - 1
  BY <1>3, Bounds DEF Progress
<1>8. num \in Nums(r) /\ d.is_decode \in BOOLEAN /\ d.samples \in BOOLEAN
  BY <1>2, <1>4 DEF RunDatas
<1> HIDE DEF d, r
<1>9. CASE req[r].output > 0
  <2>1. IsDecode(r) /\ num = 1
    BY <1>5, <1>7, <1>8, <1>9 DEF IsDecode, Nums
  <2>2. /\ d.first \in Nat /\ d.last \in Nat /\ d.first <= d.last /\ d.last < MaxLen
        /\ d.last = d.first /\ d.first > 1 /\ d.last = req[r].prompt + req[r].output
    <3>1. req[r].output < MaxOutput
      BY <1>1
    <3>2. req[r].computed = req[r].prompt + req[r].output - 1
      BY <1>7, <1>9
    <3>3. d.first = req[r].computed + 1 /\ d.last = req[r].computed + 1
      BY <1>6, <2>1
    <3>4. req[r].prompt >= 1 /\ req[r].prompt <= Max(PromptLens)
      BY <1>7
    <3>5. /\ MaxLen = Max(PromptLens) + MaxOutput
          /\ Max(PromptLens) \in Nat /\ MaxOutput \in Nat
      BY Bounds
    <3> QED BY <1>5, <1>9, <3>1, <3>2, <3>3, <3>4, <3>5
  <2>3. d.is_decode /\ d.samples
    BY <1>6, <2>1
  <2> HIDE DEF IsDecode
  <2> QED
    BY <1>1, <1>2, <1>3, <1>5, <1>6, <1>8, <1>9, <2>2, <2>3 DEF d, r
<1>10. CASE req[r].output = 0
  <2>1. ~IsDecode(r) /\ num \in 1 .. req[r].prompt - req[r].computed
    BY <1>5, <1>7, <1>8, <1>10 DEF IsDecode, Nums
  <2>2. num \in Nat /\ num >= 1 /\ req[r].computed + num <= req[r].prompt
    BY <1>5, <2>1
  <2>3. /\ d.first \in Nat /\ d.last \in Nat /\ d.first <= d.last /\ d.last < MaxLen
        /\ d.last <= req[r].prompt
    BY <1>1, <1>5, <1>6, <1>7, <1>10, <2>2, Bounds
  <2>4. d.last = req[r].prompt <=> req[r].computed + num >= req[r].prompt
    BY <1>5, <1>6, <2>2
  <2>5. ~d.is_decode /\ (d.samples <=> d.last = req[r].prompt)
    BY <1>6, <2>1, <2>4
  <2> QED
    BY <1>1, <1>2, <1>3, <1>5, <1>6, <1>8, <1>10, <2>3, <2>5 DEF d, r
<1> QED BY <1>5, <1>9, <1>10

\* Two requests of a batch are on two slots.
LEMMA SlotsApart ==
  ASSUME RunnerInv, pc \in {"execute", "sample"}, NEW i \in 1 .. B, NEW j \in 1 .. B,
         batch[i].slot = batch[j].slot
  PROVE  i = j
<1>1. batch[i].req \in Live /\ batch[i].slot = req[batch[i].req].slot
  BY BatchIs
<1>2. batch[j].req \in Live /\ batch[j].slot = req[batch[j].req].slot
  BY BatchIs
<1>3. batch[i].req = batch[j].req
  BY <1>1, <1>2 DEF RunnerInv, Holding
<1> QED BY <1>3 DEF RunnerInv, Batched

\* What one token is to the forward pass.
LEMMA RunIs ==
  ASSUME NEW token \in Tokens
  PROVE  Run(token).req \in Requests \cup {0} /\ Run(token).last \in -1 .. MaxLen
<1>1. CASE token = Dummy
  BY <1>1, Bounds DEF Dummy, Run
<1>2. CASE token = Unsampled
  BY <1>2, Bounds DEF Unsampled, Run
<1>3. CASE token \in Requests \X (1 .. MaxLen)
  BY <1>3, Bounds DEF Run
<1> QED BY <1>1, <1>2, <1>3 DEF Tokens, MaxLen

\* A decode's token is its own, and continues its state.
LEMMA DecodeRow ==
  ASSUME RunnerInv, pc = "execute", NEW i \in 1 .. B, batch[i].is_decode
  PROVE  /\ DecodeToken(i) # Unsampled /\ DecodeToken(i) \in Tokens
         /\ Absorb(state[batch[i].slot], Run(DecodeToken(i)))
              = [of |-> batch[i].req, n |-> batch[i].last]
<1> DEFINE r == batch[i].req
<1>1. /\ r \in Live /\ r \in Requests /\ batch[i].slot = req[r].slot
      /\ batch[i].slot \in Slots /\ req[r].computed \in Nat /\ req[r].output > 0
      /\ batch[i].first = req[r].computed + 1 /\ batch[i].last = batch[i].first
      /\ batch[i].first > 1 /\ batch[i].first \in Nat
  BY BatchIs DEF ReqData
<1>2. Own(r)
  BY <1>1 DEF RunnerInv, Computing
<1> HIDE DEF r
<1>3. last_token[batch[i].slot] = <<r, batch[i].first>>
  BY <1>1, <1>2 DEF Own
<1>4. state[batch[i].slot] = [of |-> r, n |-> batch[i].first - 1]
  BY <1>1, <1>2 DEF Own
<1>5. r # 0
  BY <1>1, RunnerAssumption
<1>6. DecodeToken(i) # Unsampled
  BY <1>3, <1>5 DEF DecodeToken, Unsampled
<1>7. DecodeToken(i) \in Tokens
  BY <1>1 DEF RunnerInv, GpuTypes, Loaded, DecodeToken
<1>8. Run(DecodeToken(i)) = [req |-> r, first |-> batch[i].first, last |-> batch[i].first]
  BY <1>3 DEF Run, DecodeToken
<1>9. Absorb(state[batch[i].slot], Run(DecodeToken(i))) = [of |-> r, n |-> batch[i].last]
  BY <1>1, <1>4, <1>5, <1>8 DEF Absorb
<1> QED BY <1>6, <1>7, <1>9 DEF r

-----------------------------------------------------------------------------
(***************************************************************************)
(* The forward pass                                                        *)
(***************************************************************************)
\* Whatever its rows are, the pass leaves states.
LEMMA AbsorbIs ==
  ASSUME NEW s \in States, NEW run, run.req \in Requests \cup {0}, run.last \in -1 .. MaxLen
  PROVE  Absorb(s, run) \in States
<1>1. Garbage \in States
  BY Bounds DEF Garbage, States, MaxLen
<1>2. [of |-> run.req, n |-> run.last] \in States
  BY DEF States, MaxLen
<1> QED BY <1>1, <1>2 DEF Absorb

\* The rows of the batch, each on its request's slot and continuing that request's state,
\* and any others on free slots, make the step.
LEMMA Executes ==
  ASSUME RunnerInv, pc = "execute", pc' = "sample",
         NEW theRows, NEW from \in [Slots -> States], NEW n \in Nat, B <= n,
         DOMAIN theRows = 1 .. n,
         \A i \in 1 .. n : /\ theRows[i].run.req \in Requests \cup {0}
                           /\ theRows[i].run.last \in -1 .. MaxLen,
         \A i \in 1 .. B :
           /\ theRows[i].slot = batch[i].slot
           /\ Absorb(from[batch[i].slot], theRows[i].run)
                = [of |-> batch[i].req, n |-> batch[i].last],
         \A i \in 1 .. n : i > B => theRows[i].slot \in free_slots,
         \A s \in Slots : (\A i \in 1 .. B : batch[i].slot # s) => from[s] = state[s],
         Forward(theRows, from),
         UNCHANGED <<args, to_capture, entries, req, free_slots, batch, last_token>>,
         ~min_prev_negative',
         uniform_slots' \in [Slots -> Slots], uniform_tokens' \in [Slots -> Tokens]
  PROVE  RunnerInv'
<1>1. Slots' = Slots /\ Live' = Live /\ Tokens' = Tokens /\ States' = States /\ B' = B
  BY DEF Slots, Live, Tokens, States, B
<1>2. \A s \in Slots : RowsOn(theRows, s) = {} => state'[s] = from[s]
  BY DEF Forward
<1>3. \A s \in Slots, i \in 1 .. n :
        RowsOn(theRows, s) = {i} => state'[s] = Absorb(from[s], theRows[i].run)
  <2> SUFFICES ASSUME NEW s \in Slots, NEW i \in 1 .. n, RowsOn(theRows, s) = {i}
               PROVE  state'[s] = Absorb(from[s], theRows[i].run)
    OBVIOUS
  <2>1. Cardinality(RowsOn(theRows, s)) = 1
    BY FS_Singleton
  <2>2. (CHOOSE j \in RowsOn(theRows, s) : TRUE) = i
    OBVIOUS
  <2>3. ~ (Cardinality(RowsOn(theRows, s)) > 1)
    BY <2>1
  <2>4. RowsOn(theRows, s) # {}
    OBVIOUS
  <2> HIDE DEF RowsOn
  <2>5. state'[s] = Absorb(from[s], theRows[CHOOSE j \in RowsOn(theRows, s) : TRUE].run)
    BY <2>3, <2>4 DEF Forward
  <2> QED BY <2>2, <2>5
<1>4. state' \in [Slots -> States]
  <2> SUFFICES ASSUME NEW s \in Slots
               PROVE  \/ from[s] \in States /\ Garbage \in States /\ RowsOn(theRows, s) = {}
                      \/ /\ Garbage \in States
                         /\ Absorb(from[s], theRows[CHOOSE i \in RowsOn(theRows, s) : TRUE].run)
                              \in States
    BY DEF Forward
  <2>1. Garbage \in States
    BY Bounds DEF Garbage, States, MaxLen
  <2>2. from[s] \in States
    OBVIOUS
  <2>3. CASE RowsOn(theRows, s) # {}
    <3>1. PICK i : i = CHOOSE j \in RowsOn(theRows, s) : TRUE
      OBVIOUS
    <3>2. i \in 1 .. n
      BY <2>3, <3>1 DEF RowsOn
    <3>3. Absorb(from[s], theRows[i].run) \in States
      BY <2>2, <3>2, AbsorbIs
    <3> QED BY <2>1, <3>1, <3>3
  <2> QED BY <2>1, <2>2, <2>3
<1>5. \A i \in 1 .. B : RowsOn(theRows, batch[i].slot) = {i} /\ i \in 1 .. n
  <2> SUFFICES ASSUME NEW i \in 1 .. B
               PROVE  RowsOn(theRows, batch[i].slot) = {i} /\ i \in 1 .. n
    OBVIOUS
  <2>1. B \in Nat /\ batch[i].req \in Live /\ batch[i].slot = req[batch[i].req].slot
    BY BatchIs
  <2>2. i \in 1 .. n
    BY <2>1
  <2>3. batch[i].slot \notin free_slots
    BY <2>1 DEF RunnerInv, Holding
  <2>4. \A j \in 1 .. n : theRows[j].slot = batch[i].slot => j = i
    <3> SUFFICES ASSUME NEW j \in 1 .. n, theRows[j].slot = batch[i].slot PROVE j = i
      OBVIOUS
    <3>1. ~ (j > B)
      BY <2>3
    <3>2. j \in 1 .. B
      BY <2>1, <3>1
    <3>3. batch[j].slot = batch[i].slot
      BY <3>2
    <3> QED BY <3>2, <3>3, SlotsApart
  <2> QED BY <2>2, <2>4 DEF RowsOn
<1>6. \A i \in 1 .. B : state'[batch[i].slot] = [of |-> batch[i].req, n |-> batch[i].last]
  <2> SUFFICES ASSUME NEW i \in 1 .. B
               PROVE  state'[batch[i].slot] = [of |-> batch[i].req, n |-> batch[i].last]
    OBVIOUS
  <2>1. batch[i].slot \in Slots
    BY BatchIs
  <2> QED BY <1>3, <1>5, <2>1
<1>7. \A i \in 1 .. B : rows'[i].slot = batch[i].slot
  BY DEF Forward
<1>8. \A r \in Live : (\A i \in 1 .. B : batch[i].req # r) =>
        state'[req[r].slot] = state[req[r].slot]
  <2> SUFFICES ASSUME NEW r \in Live, \A i \in 1 .. B : batch[i].req # r
               PROVE  state'[req[r].slot] = state[req[r].slot]
    OBVIOUS
  <2>1. req[r].slot \in Slots /\ req[r].slot \notin free_slots
    BY DEF RunnerInv, Holding, Progress
  <2>2. \A i \in 1 .. B : batch[i].slot # req[r].slot
    <3> SUFFICES ASSUME NEW i \in 1 .. B, batch[i].slot = req[r].slot PROVE FALSE
      OBVIOUS
    <3>1. batch[i].req \in Live /\ batch[i].slot = req[batch[i].req].slot
      BY BatchIs
    <3>2. batch[i].req = r
      BY <3>1 DEF RunnerInv, Holding
    <3> QED BY <3>2
  <2>3. B \in Nat
    BY DEF RunnerInv, Batched, B
  <2>4. RowsOn(theRows, req[r].slot) = {}
    <3> SUFFICES ASSUME NEW j \in 1 .. n, theRows[j].slot = req[r].slot PROVE FALSE
      BY DEF RowsOn
    <3>1. ~ (j > B)
      BY <2>1
    <3>2. j \in 1 .. B
      BY <2>3, <3>1
    <3> QED BY <2>2, <3>2
  <2> QED BY <1>2, <2>1, <2>2, <2>4
<1>9. Config'
  BY <1>1 DEF RunnerInv, Config
<1>10. GpuTypes'
  BY <1>1, <1>4 DEF RunnerInv, GpuTypes, Loaded
<1>11. Holding'
  BY <1>1 DEF RunnerInv, Holding, Booting, Progress
<1>12. Batched'
  BY <1>1 DEF RunnerInv, Batched, Nums, RunData, IsDecode
<1>13. Computing'
  <2>1. ASSUME NEW r \in Live, \A i \in 1 .. B : batch[i].req # r
        PROVE  Own(r)'
    <3>1. Own(r)
      BY DEF RunnerInv, Computing
    <3> QED BY <1>8, <2>1, <3>1 DEF Own
  <2>2. pc' \notin {"ready", "execute"}
    OBVIOUS
  <2> QED BY <1>1, <1>6, <1>7, <2>1, <2>2 DEF Computing
<1> QED BY <1>9, <1>10, <1>11, <1>12, <1>13 DEF RunnerInv

LEMMA InExecute ==
  ASSUME RunnerInv, pc = "execute"
  PROVE  /\ B \in Nat /\ state \in [Slots -> States] /\ last_token \in [Slots -> Tokens]
         /\ uniform_slots \in [Slots -> Slots] /\ uniform_tokens \in [Slots -> Tokens]
         /\ ~min_prev_negative
BY DEF RunnerInv, GpuTypes, Loaded, Batched, B

\* A prefill chunk continues its own state, or starts from zero.
LEMMA EagerStep ==
  ASSUME RunnerInv, ExecuteEager
  PROVE  RunnerInv'
<1> DEFINE zeroed == [s \in Slots |->
                        IF \E i \in 1 .. B : batch[i].slot = s /\ FirstChunk(batch[i])
                        THEN Zero ELSE state[s]]
           row(d) == [slot |-> d.slot,
                      run |-> IF d.is_decode THEN Run(last_token[d.slot])
                              ELSE [req |-> d.req, first |-> d.first, last |-> d.last]]
           theRows == [i \in 1 .. B |-> row(batch[i])]
<1>1. /\ pc = "execute" /\ pc' = "sample" /\ Forward(theRows, zeroed)
      /\ UNCHANGED <<args, to_capture, entries, req, free_slots, batch, last_token,
                     min_prev_negative, uniform_slots, uniform_tokens>>
  BY DEF ExecuteEager, bufferVars
<1>2. /\ B \in Nat /\ state \in [Slots -> States] /\ last_token \in [Slots -> Tokens]
      /\ uniform_slots \in [Slots -> Slots] /\ uniform_tokens \in [Slots -> Tokens]
      /\ ~min_prev_negative
  BY <1>1, InExecute
<1>3. zeroed \in [Slots -> States]
  <2>1. Zero \in States
    BY Bounds DEF Zero, States, MaxLen
  <2> QED BY <1>2, <2>1
<1>4. \A i \in 1 .. B : /\ theRows[i].slot = batch[i].slot
                        /\ theRows[i].run = IF batch[i].is_decode THEN Run(DecodeToken(i))
                             ELSE [req |-> batch[i].req, first |-> batch[i].first,
                                   last |-> batch[i].last]
  BY DEF DecodeToken
<1>5. \A s \in Slots : (\A i \in 1 .. B : batch[i].slot # s) => zeroed[s] = state[s]
  OBVIOUS
<1>6. DOMAIN theRows = 1 .. B
  OBVIOUS
<1>7. \A i \in 1 .. B :
        zeroed[batch[i].slot] = IF FirstChunk(batch[i]) THEN Zero ELSE state[batch[i].slot]
  <2> SUFFICES ASSUME NEW i \in 1 .. B
               PROVE  zeroed[batch[i].slot] = IF FirstChunk(batch[i]) THEN Zero
                                              ELSE state[batch[i].slot]
    OBVIOUS
  <2>1. batch[i].slot \in Slots
    BY <1>1, BatchIs
  <2>2. \A j \in 1 .. B : batch[j].slot = batch[i].slot => j = i
    BY <1>1, SlotsApart
  <2>3. (\E j \in 1 .. B : batch[j].slot = batch[i].slot /\ FirstChunk(batch[j]))
          <=> FirstChunk(batch[i])
    BY <2>2
  <2> HIDE DEF FirstChunk
  <2> QED BY <2>1, <2>3
<1> HIDE DEF zeroed, theRows
<1>8. \A i \in 1 .. B :
        /\ theRows[i].run.req \in Requests \cup {0}
        /\ theRows[i].run.last \in -1 .. MaxLen
        /\ Absorb(zeroed[batch[i].slot], theRows[i].run)
             = [of |-> batch[i].req, n |-> batch[i].last]
  <2> SUFFICES ASSUME NEW i \in 1 .. B
               PROVE  /\ theRows[i].run.req \in Requests \cup {0}
                      /\ theRows[i].run.last \in -1 .. MaxLen
                      /\ Absorb(zeroed[batch[i].slot], theRows[i].run)
                           = [of |-> batch[i].req, n |-> batch[i].last]
    OBVIOUS
  <2>1. CASE batch[i].is_decode
    <3>1. theRows[i].run = Run(DecodeToken(i))
      BY <1>4, <2>1
    <3>2. zeroed[batch[i].slot] = state[batch[i].slot]
      BY <1>7, <2>1 DEF FirstChunk
    <3>3. DecodeToken(i) \in Tokens
      BY <1>1, <2>1, DecodeRow
    <3>4. Absorb(state[batch[i].slot], Run(DecodeToken(i)))
            = [of |-> batch[i].req, n |-> batch[i].last]
      BY <1>1, <2>1, DecodeRow
    <3> QED BY <3>1, <3>2, <3>3, <3>4, RunIs
  <2>2. CASE ~batch[i].is_decode
    <3> DEFINE r == batch[i].req
    <3>1. theRows[i].run = [req |-> r, first |-> batch[i].first, last |-> batch[i].last]
      BY <1>4, <2>2
    <3>2. /\ r \in Live /\ r \in Requests /\ batch[i].slot = req[r].slot
          /\ req[r] \in ReqData /\ batch[i].first = req[r].computed + 1
          /\ batch[i].last \in Nat /\ batch[i].last < MaxLen
      BY <1>1, BatchIs
    <3>3. Own(r)
      BY <1>1, <3>2 DEF RunnerInv, Computing
    <3> HIDE DEF r
    <3>4. r # 0 /\ MaxLen \in Nat
      BY <3>2, RunnerAssumption, Bounds
    <3>5. req[r].computed \in Nat
      BY <3>2 DEF ReqData
    <3>6. FirstChunk(batch[i]) <=> batch[i].first = 1
      BY <2>2 DEF FirstChunk
    <3>7. CASE batch[i].first = 1
      <4>1. zeroed[batch[i].slot] = Zero
        BY <1>7, <3>6, <3>7
      <4> QED BY <3>1, <3>2, <3>4, <3>7, <4>1 DEF Absorb, r
    <3>8. CASE batch[i].first # 1
      <4>1. zeroed[batch[i].slot] = state[batch[i].slot]
        BY <1>7, <3>6, <3>8
      <4>2. req[r].computed > 0 /\ batch[i].first - 1 = req[r].computed
        BY <3>2, <3>5, <3>8
      <4>3. state[batch[i].slot] = [of |-> r, n |-> batch[i].first - 1]
        BY <3>2, <3>3, <4>2 DEF Own
      <4> QED BY <3>1, <3>2, <3>4, <3>8, <4>1, <4>3 DEF Absorb, r
    <3> QED BY <3>7, <3>8
  <2>3. batch[i].is_decode \in BOOLEAN
    BY <1>1, BatchIs
  <2> QED BY <2>1, <2>2
<1>9. Slots' = Slots /\ Tokens' = Tokens
  BY <1>1 DEF Slots, Tokens
<1>10. /\ ~min_prev_negative' /\ uniform_slots' \in [Slots -> Slots]
       /\ uniform_tokens' \in [Slots -> Tokens]
  BY <1>1, <1>2
<1>11. B <= B /\ \A i \in 1 .. B : ~ (i > B)
  BY <1>2
<1> QED BY <1>1, <1>2, <1>3, <1>4, <1>5, <1>6, <1>8, <1>10, <1>11, Executes

\* A batch of decodes, without a graph.
LEMMA DecodeEagerStep ==
  ASSUME RunnerInv, ExecuteDecodeEager
  PROVE  RunnerInv'
<1> DEFINE theRows == [i \in 1 .. B |-> [slot |-> batch[i].slot, run |-> Run(DecodeToken(i))]]
<1>1. /\ pc = "execute" /\ pc' = "sample" /\ Forward(theRows, state) /\ CheckTokens
      /\ UNCHANGED <<args, to_capture, entries, req, free_slots, batch, last_token,
                     uniform_slots, uniform_tokens>>
      /\ \A i \in 1 .. B : batch[i].is_decode
  BY DEF ExecuteDecodeEager, bufferVars, IsUniformDecode
<1>2. /\ B \in Nat /\ state \in [Slots -> States] /\ last_token \in [Slots -> Tokens]
      /\ uniform_slots \in [Slots -> Slots] /\ uniform_tokens \in [Slots -> Tokens]
      /\ ~min_prev_negative
  BY <1>1, InExecute
<1>3. \A i \in 1 .. B : /\ DecodeToken(i) # Unsampled /\ DecodeToken(i) \in Tokens
                        /\ Absorb(state[batch[i].slot], Run(DecodeToken(i)))
                             = [of |-> batch[i].req, n |-> batch[i].last]
  BY <1>1, DecodeRow
<1>4. ~min_prev_negative'
  BY <1>1, <1>3 DEF CheckTokens
<1>5. \A i \in 1 .. B : theRows[i].slot = batch[i].slot /\ theRows[i].run = Run(DecodeToken(i))
  OBVIOUS
<1>6. DOMAIN theRows = 1 .. B
  OBVIOUS
<1> HIDE DEF theRows
<1>7. \A i \in 1 .. B :
        /\ theRows[i].run.req \in Requests \cup {0}
        /\ theRows[i].run.last \in -1 .. MaxLen
        /\ Absorb(state[batch[i].slot], theRows[i].run)
             = [of |-> batch[i].req, n |-> batch[i].last]
  BY <1>3, <1>5, RunIs
<1>8. /\ uniform_slots' \in [Slots -> Slots] /\ uniform_tokens' \in [Slots -> Tokens]
  BY <1>1, <1>2
<1>9. B <= B /\ \A i \in 1 .. B : ~ (i > B)
  BY <1>2
<1> QED BY <1>1, <1>2, <1>4, <1>5, <1>6, <1>7, <1>8, <1>9, Executes

-----------------------------------------------------------------------------
(***************************************************************************)
(* A graph                                                                 *)
(***************************************************************************)
\* A batch has at most as many requests as there are slots.
LEMMA BatchFits ==
  ASSUME RunnerInv, pc = "execute"
  PROVE  /\ B \in Nat /\ B <= args.max_num_seqs
         /\ args.max_num_seqs \in Nat \ {0} /\ IsFiniteSet(Slots)
<1>1. args.max_num_seqs \in Nat \ {0}
  BY SlotsAre DEF RunnerInv
<1>2. B \in Nat
  BY InExecute
<1>3. IsFiniteSet(1 .. B) /\ Cardinality(1 .. B) = B
  <2>1. 1 \in Int /\ B \in Int
    BY <1>2
  <2>2. Cardinality(1 .. B) = IF 1 > B THEN 0 ELSE B - 1 + 1
    BY <2>1, FS_Interval
  <2> QED BY <1>2, <2>1, <2>2, FS_Interval
<1>4. IsFiniteSet(Slots) /\ Cardinality(Slots) = args.max_num_seqs
  BY SlotsAre DEF RunnerInv
<1>5. ~ (args.max_num_seqs < B)
  <2> SUFFICES ASSUME args.max_num_seqs < B PROVE FALSE
    OBVIOUS
  <2> DEFINE f == [i \in 1 .. B |-> batch[i].slot]
  <2>1. f \in [1 .. B -> Slots]
    BY BatchIs
  <2> DEFINE D == 1 .. B
  <2>2. /\ IsFiniteSet(D) /\ IsFiniteSet(Slots) /\ f \in [D -> Slots]
        /\ Cardinality(Slots) < Cardinality(D)
    BY <1>3, <1>4, <2>1
  <2> HIDE DEF f, D
  <2>2a. \E x, y \in D : x # y /\ f[x] = f[y]
    BY <2>2, FS_PigeonHole, Zenon
  <2>3. \E i, j \in 1 .. B : i # j /\ f[i] = f[j]
    BY <2>2a DEF D
  <2>4. PICK i \in 1 .. B, j \in 1 .. B : i # j /\ batch[i].slot = batch[j].slot
    BY <2>3 DEF f
  <2> QED BY <2>4, SlotsApart
<1> QED BY <1>1, <1>2, <1>4, <1>5

\* A graph that is replayed has a row for every request and none beyond the buffers.
LEMMA PaddedIs ==
  ASSUME RunnerInv, pc = "execute", Padded > 0
  PROVE  Padded \in Nat /\ B <= Padded /\ Padded <= args.max_num_seqs
<1> DEFINE N == args.max_num_seqs
           S == {s \in entries \cup {N + 1} : s >= B}
<1>1. B \in Nat /\ B <= N /\ N \in Nat
  BY BatchFits
<1>2. entries \subseteq 1 .. N
  BY DEF RunnerInv, Config
<1> HIDE DEF N
<1>3. S \in SUBSET Nat /\ N + 1 \in S
  <2>1. \A s \in entries : s \in Nat
    BY <1>1, <1>2
  <2>2. N + 1 \in Nat /\ N + 1 >= B
    BY <1>1
  <2>3. \A s \in S : s \in Nat
    BY <2>1, <2>2
  <2> QED BY <2>2, <2>3
<1>4. \A s \in S : s >= B
  OBVIOUS
<1>5. PaddedSize(B) = Min(S)
  BY DEF PaddedSize, N
<1> HIDE DEF S
<1>6. PaddedSize(B) \in S /\ PaddedSize(B) \in Nat
  BY <1>3, <1>5, MinIs
<1>7. Padded = IF PaddedSize(B) > N THEN 0 ELSE PaddedSize(B)
  BY DEF Padded, N
<1>8. Padded = PaddedSize(B) /\ ~ (PaddedSize(B) > N)
  BY <1>7
<1> QED BY <1>1, <1>4, <1>6, <1>8 DEF N

\* The padding rows are on free slots.
LEMMA PadsAreFree ==
  ASSUME RunnerInv, pc = "execute", Padded > 0, CanPad, NEW k \in 1 .. Padded - B
  PROVE  PadSlots[k] \in free_slots
<1>1. /\ Padded \in Nat /\ B <= Padded /\ B \in Nat
  BY PaddedIs, BatchFits
<1>2. free_slots \subseteq Slots /\ IsFiniteSet(Slots)
  BY BatchFits DEF RunnerInv, Holding
<1>3. free_slots \in SUBSET Nat /\ IsFiniteSet(free_slots)
  <2>1. Slots \subseteq Nat
    BY BatchFits DEF Slots
  <2>2. free_slots \in SUBSET Slots
    BY <1>2
  <2> QED BY <1>2, <2>1, <2>2, FS_Subset
<1>4. Sorted(free_slots) \in Seq(free_slots) /\ Len(Sorted(free_slots)) = Cardinality(free_slots)
  BY <1>3, SortedIs
<1>5. Padded - B \in Nat /\ Padded - B <= Cardinality(free_slots)
      /\ Cardinality(free_slots) \in Nat
  BY <1>1, <1>3, FS_CardinalityType DEF CanPad
<1> DEFINE q == Sorted(free_slots)
           m == Padded - B
<1>6. q \in Seq(free_slots) /\ m \in Nat /\ m <= Len(q) /\ k \in 1 .. m /\ Len(q) \in Nat
  BY <1>4, <1>5
<1>7. PadSlots = SubSeq(q, 1, m)
  BY DEF PadSlots
<1> HIDE DEF q, m
<1>8. SubSeq(q, 1, m)[k] = q[k] /\ k \in 1 .. Len(q)
  BY <1>6
<1>9. q[k] \in free_slots
  BY <1>6, <1>8
<1> QED BY <1>7, <1>8, <1>9

\* A replay computes on the batch's slots, and on free ones for the rows that pad it.
LEMMA ReplayStep ==
  ASSUME RunnerInv, ReplayGraph
  PROVE  RunnerInv'
<1> DEFINE theRows == [i \in 1 .. Padded |-> [slot |-> uniform_slots'[i - 1],
                                              run |-> Run(uniform_tokens'[i - 1])]]
<1>1. /\ pc = "execute" /\ pc' = "sample" /\ Padded > 0 /\ CanPad
      /\ Forward(theRows, state) /\ CheckTokens /\ FillBuffers
      /\ UNCHANGED <<args, to_capture, entries, req, free_slots, batch, last_token>>
      /\ \A i \in 1 .. B : batch[i].is_decode
  BY DEF ReplayGraph, Replay, ZeroedPads, IsUniformDecode
<1>2. /\ B \in Nat /\ state \in [Slots -> States] /\ last_token \in [Slots -> Tokens]
      /\ uniform_slots \in [Slots -> Slots] /\ uniform_tokens \in [Slots -> Tokens]
      /\ ~min_prev_negative
  BY <1>1, InExecute
<1>3. \A i \in 1 .. B : /\ DecodeToken(i) # Unsampled /\ DecodeToken(i) \in Tokens
                        /\ Absorb(state[batch[i].slot], Run(DecodeToken(i)))
                             = [of |-> batch[i].req, n |-> batch[i].last]
  BY <1>1, DecodeRow
<1>4. ~min_prev_negative'
  BY <1>1, <1>3 DEF CheckTokens
<1>5. /\ Padded \in Nat /\ B <= Padded /\ Padded <= args.max_num_seqs
      /\ args.max_num_seqs \in Nat
  BY <1>1, PaddedIs, BatchFits
<1>6. \A i \in 1 .. Padded : i - 1 \in Slots /\ i - 1 \in Nat /\ ~ (i - 1 >= Padded)
  BY <1>5 DEF Slots
<1>7. \A k \in 1 .. Padded - B : PadSlots[k] \in free_slots
  BY <1>1, PadsAreFree
<1>8. \A i \in 1 .. B : i \in 1 .. Padded /\ i - 1 < B /\ i - 1 + 1 = i
  BY <1>2, <1>5
<1>9. \A i \in 1 .. B : /\ uniform_slots'[i - 1] = batch[i].slot
                        /\ uniform_tokens'[i - 1] = DecodeToken(i)
  <2> SUFFICES ASSUME NEW i \in 1 .. B
               PROVE  /\ uniform_slots'[i - 1] = batch[i].slot
                      /\ uniform_tokens'[i - 1] = DecodeToken(i)
    OBVIOUS
  <2>1. i - 1 \in Slots /\ ~ (i - 1 >= Padded) /\ i - 1 < B /\ i - 1 + 1 = i
    BY <1>6, <1>8
  <2> QED BY <1>1, <2>1 DEF FillBuffers
<1>10. \A i \in 1 .. Padded : i > B =>
         /\ uniform_slots'[i - 1] \in free_slots
         /\ uniform_tokens'[i - 1] = Dummy
  <2> SUFFICES ASSUME NEW i \in 1 .. Padded, i > B
               PROVE  /\ uniform_slots'[i - 1] \in free_slots
                      /\ uniform_tokens'[i - 1] = Dummy
    OBVIOUS
  <2>1. i - 1 \in Slots /\ ~ (i - 1 >= Padded) /\ ~ (i - 1 < B)
        /\ i - 1 + 1 - B \in 1 .. Padded - B
    BY <1>2, <1>5, <1>6
  <2>2. uniform_slots'[i - 1] = PadSlots[i - 1 + 1 - B]
    BY <1>1, <2>1 DEF FillBuffers
  <2>3. uniform_tokens'[i - 1] = Dummy
    BY <1>1, <2>1 DEF FillBuffers
  <2> QED BY <1>7, <2>1, <2>2, <2>3
<1>11. Dummy \in Tokens
  BY DEF Tokens
<1>12. /\ uniform_slots' \in [Slots -> Slots] /\ uniform_tokens' \in [Slots -> Tokens]
  <2>1. free_slots \subseteq Slots
    BY <1>1 DEF RunnerInv, Holding
  <2>2. \A s \in Slots : s \in Nat
    BY <1>5 DEF Slots
  <2>3. ASSUME NEW s \in Slots, ~ (s >= Padded)
        PROVE  uniform_slots'[s] \in Slots /\ uniform_tokens'[s] \in Tokens
    <3>0. PICK i : i = s + 1
      OBVIOUS
    <3>1. i \in 1 .. Padded /\ i - 1 = s
      BY <1>5, <2>2, <2>3, <3>0
    <3>2. CASE i > B
      BY <1>10, <1>11, <2>1, <3>1, <3>2
    <3>3. CASE ~ (i > B)
      <4>1. i \in 1 .. B
        BY <1>2, <1>5, <3>1, <3>3
      <4>2. batch[i].slot \in Slots
        BY <1>1, <4>1, BatchIs
      <4> QED BY <1>3, <1>9, <3>1, <4>1, <4>2
    <3> QED BY <3>2, <3>3
  <2>4. ASSUME NEW s \in Slots, s >= Padded
        PROVE  uniform_slots'[s] = uniform_slots[s] /\ uniform_tokens'[s] = uniform_tokens[s]
    BY <1>1, <2>4 DEF FillBuffers
  <2>5. \A s \in Slots : uniform_slots'[s] \in Slots /\ uniform_tokens'[s] \in Tokens
    BY <1>2, <2>3, <2>4
  <2>6. /\ uniform_slots' = [s \in Slots |-> uniform_slots'[s]]
        /\ uniform_tokens' = [s \in Slots |-> uniform_tokens'[s]]
    BY <1>1 DEF FillBuffers
  <2> QED BY <2>5, <2>6
<1>13. \A i \in 1 .. Padded : /\ theRows[i].slot = uniform_slots'[i - 1]
                              /\ theRows[i].run = Run(uniform_tokens'[i - 1])
  OBVIOUS
<1>14. DOMAIN theRows = 1 .. Padded
  OBVIOUS
<1> HIDE DEF theRows
<1>15. \A i \in 1 .. Padded : /\ theRows[i].run.req \in Requests \cup {0}
                              /\ theRows[i].run.last \in -1 .. MaxLen
  <2> SUFFICES ASSUME NEW i \in 1 .. Padded
               PROVE  /\ theRows[i].run.req \in Requests \cup {0}
                      /\ theRows[i].run.last \in -1 .. MaxLen
    OBVIOUS
  <2>1. uniform_tokens'[i - 1] \in Tokens
    BY <1>6, <1>12
  <2> QED BY <1>13, <2>1, RunIs
<1>16. \A i \in 1 .. B : /\ theRows[i].slot = batch[i].slot
                         /\ Absorb(state[batch[i].slot], theRows[i].run)
                              = [of |-> batch[i].req, n |-> batch[i].last]
  BY <1>3, <1>8, <1>9, <1>13
<1>17. \A i \in 1 .. Padded : i > B => theRows[i].slot \in free_slots
  BY <1>10, <1>13
<1> QED BY <1>1, <1>2, <1>4, <1>5, <1>12, <1>14, <1>15, <1>16, <1>17, Executes

-----------------------------------------------------------------------------
(***************************************************************************)
(* Sampling, and the scheduler                                             *)
(***************************************************************************)
\* A request that was in the batch owns what it computed, and the token sampled from it.
LEMMA SampleStep ==
  ASSUME RunnerInv, SampleTokens
  PROVE  RunnerInv'
<1>1. /\ pc = "sample" /\ pc' = "ready"
      /\ UNCHANGED <<args, to_capture, entries, free_slots, state, min_prev_negative,
                     uniform_slots, uniform_tokens>>
  BY DEF SampleTokens, bufferVars
<1>2. /\ state \in [Slots -> States] /\ last_token \in [Slots -> Tokens]
      /\ uniform_slots \in [Slots -> Slots] /\ uniform_tokens \in [Slots -> Tokens]
      /\ req \in [Requests -> ReqData] /\ Live \subseteq Requests
  BY <1>1 DEF RunnerInv, GpuTypes, Loaded, Holding, Live
<1>3. Slots' = Slots /\ Tokens' = Tokens /\ States' = States
  BY <1>1 DEF Slots, Tokens, States
<1>4. \A i \in 1 .. B : SampledFor(i) = <<batch[i].req, batch[i].last + 1>>
  <2> SUFFICES ASSUME NEW i \in 1 .. B
               PROVE  SampledFor(i) = <<batch[i].req, batch[i].last + 1>>
    OBVIOUS
  <2>1. state[rows[i].slot] = [of |-> batch[i].req, n |-> batch[i].last]
    BY <1>1 DEF RunnerInv, Computing
  <2> QED BY <2>1 DEF SampledFor
<1>5. \A i \in 1 .. B : batch[i].samples => last_token'[batch[i].slot] = SampledFor(i)
  <2> SUFFICES ASSUME NEW i \in 1 .. B, batch[i].samples
               PROVE  last_token'[batch[i].slot] = SampledFor(i)
    OBVIOUS
  <2>1. batch[i].slot \in Slots
    BY <1>1, BatchIs
  <2>2. \A j \in 1 .. B : batch[j].slot = batch[i].slot => j = i
    BY <1>1, SlotsApart
  <2>3. Sampling(batch[i].slot) = {i}
    BY <2>2 DEF Sampling
  <2>4. (CHOOSE j \in Sampling(batch[i].slot) : TRUE) = i
    BY <2>3
  <2> QED BY <2>1, <2>3, <2>4 DEF SampleTokens
<1>6. \A s \in Slots : (\A i \in 1 .. B : batch[i].slot # s) => last_token'[s] = last_token[s]
  BY DEF SampleTokens, Sampling
<1>7. last_token' \in [Slots -> Tokens]
  <2> SUFFICES ASSUME NEW s \in Slots
               PROVE  Sampling(s) # {} => SampledFor(CHOOSE i \in Sampling(s) : TRUE) \in Tokens
    BY <1>2 DEF SampleTokens
  <2> SUFFICES ASSUME Sampling(s) # {}
               PROVE  SampledFor(CHOOSE i \in Sampling(s) : TRUE) \in Tokens
    OBVIOUS
  <2>1. PICK i : i = CHOOSE j \in Sampling(s) : TRUE
    OBVIOUS
  <2>2. i \in 1 .. B
    BY <2>1 DEF Sampling
  <2>3. batch[i].req \in Requests /\ batch[i].last \in Nat /\ batch[i].last < MaxLen
    BY <1>1, <2>2, BatchIs
  <2>4. batch[i].last + 1 \in 1 .. Max(PromptLens) + MaxOutput
    BY <2>3, Bounds
  <2>5. <<batch[i].req, batch[i].last + 1>> \in Tokens
    BY <2>3, <2>4 DEF Tokens
  <2> QED BY <1>4, <2>1, <2>2, <2>5
<1>8. \A r \in Requests : (\A i \in 1 .. B : batch[i].req # r) => req'[r] = req[r]
  BY DEF SampleTokens
<1>9. \A i \in 1 .. B :
        /\ req'[batch[i].req] =
             [req[batch[i].req] EXCEPT !.computed = batch[i].last,
                                       !.output = @ + (IF batch[i].samples THEN 1 ELSE 0)]
        /\ batch[i].req \in Requests
  <2> SUFFICES ASSUME NEW i \in 1 .. B
               PROVE  /\ req'[batch[i].req] =
                           [req[batch[i].req] EXCEPT
                              !.computed = batch[i].last,
                              !.output = @ + (IF batch[i].samples THEN 1 ELSE 0)]
                      /\ batch[i].req \in Requests
    OBVIOUS
  <2>1. batch[i].req \in Requests
    BY <1>1, BatchIs
  <2>2. \A j \in 1 .. B : batch[j].req = batch[i].req => j = i
    BY <1>1 DEF RunnerInv, Batched
  <2>3. (CHOOSE j \in 1 .. B : batch[j].req = batch[i].req) = i
    BY <2>2
  <2>4. \E j \in 1 .. B : batch[j].req = batch[i].req
    OBVIOUS
  <2> QED BY <2>1, <2>3, <2>4 DEF SampleTokens
<1>10. \A i \in 1 .. B :
        LET r == batch[i].req IN
        /\ req'[r] \in ReqData /\ req'[r].live /\ req'[r].slot = req[r].slot
        /\ req'[r].prompt = req[r].prompt /\ req'[r].computed = batch[i].last
        /\ req'[r].output <= MaxOutput
        /\ batch[i].samples => /\ req'[r].output > 0
                               /\ req'[r].computed = req'[r].prompt + req'[r].output - 1
        /\ ~batch[i].samples => req'[r].output = 0 /\ req'[r].computed < req'[r].prompt
  <2> SUFFICES ASSUME NEW i \in 1 .. B
               PROVE  LET r == batch[i].req IN
                      /\ req'[r] \in ReqData /\ req'[r].live /\ req'[r].slot = req[r].slot
                      /\ req'[r].prompt = req[r].prompt /\ req'[r].computed = batch[i].last
                      /\ req'[r].output <= MaxOutput
                      /\ batch[i].samples =>
                           /\ req'[r].output > 0
                           /\ req'[r].computed = req'[r].prompt + req'[r].output - 1
                      /\ ~batch[i].samples =>
                           req'[r].output = 0 /\ req'[r].computed < req'[r].prompt
    OBVIOUS
  <2> DEFINE r == batch[i].req
  <2>1. /\ r \in Live /\ req[r] \in ReqData /\ req[r].output < MaxOutput
        /\ batch[i].last \in Nat /\ batch[i].is_decode \in BOOLEAN
        /\ batch[i].samples \in BOOLEAN
        /\ batch[i].is_decode =>
             batch[i].samples /\ batch[i].last = req[r].prompt + req[r].output
        /\ ~batch[i].is_decode =>
             /\ req[r].output = 0 /\ batch[i].last <= req[r].prompt
             /\ batch[i].samples <=> batch[i].last = req[r].prompt
    BY <1>1, BatchIs
  <2>2. req'[r] = [req[r] EXCEPT !.computed = batch[i].last,
                                 !.output = @ + (IF batch[i].samples THEN 1 ELSE 0)]
    BY <1>9
  <2>3. req[r].live /\ req[r].output \in Nat /\ req[r].prompt \in Nat /\ MaxOutput \in Nat
    BY <2>1, Bounds DEF Live, ReqData
  <2> HIDE DEF r
  <2>4. /\ req'[r].live = req[r].live /\ req'[r].slot = req[r].slot
        /\ req'[r].prompt = req[r].prompt /\ req'[r].computed = batch[i].last
        /\ req'[r].output = req[r].output + (IF batch[i].samples THEN 1 ELSE 0)
    BY <2>1, <2>2 DEF ReqData
  <2>5. req[r].output + (IF batch[i].samples THEN 1 ELSE 0) \in Nat
    BY <2>3
  <2>6. req'[r] \in ReqData
    BY <2>1, <2>2, <2>5 DEF ReqData
  <2>7. CASE batch[i].samples
    <3>1. batch[i].last = req[r].prompt + req[r].output
      BY <2>1, <2>3, <2>7
    <3>2. req'[r].output = req[r].output + 1
      BY <2>4, <2>7
    <3>3. /\ req'[r].output <= MaxOutput /\ req'[r].output > 0
          /\ req'[r].computed = req'[r].prompt + req'[r].output - 1
      BY <2>1, <2>3, <2>4, <3>1, <3>2
    <3> QED BY <2>3, <2>4, <2>6, <2>7, <3>3 DEF r
  <2>8. CASE ~batch[i].samples
    <3>1. ~batch[i].is_decode /\ req[r].output = 0 /\ batch[i].last <= req[r].prompt
          /\ batch[i].last # req[r].prompt
      BY <2>1, <2>8
    <3>2. req'[r].output = req[r].output
      BY <2>3, <2>4, <2>8
    <3>3. req'[r].output <= MaxOutput /\ req'[r].output = 0
          /\ req'[r].computed < req'[r].prompt
      BY <2>1, <2>3, <2>4, <3>1, <3>2
    <3> QED BY <2>3, <2>4, <2>6, <2>8, <3>3 DEF r
  <2> QED BY <2>1, <2>7, <2>8
<1>11. \A r \in Requests : \/ \E i \in 1 .. B : batch[i].req = r
                          \/ \A i \in 1 .. B : batch[i].req # r
  OBVIOUS
<1>12. Live' = Live
  <2>1. \A r \in Requests : req'[r].live <=> req[r].live
    <3> SUFFICES ASSUME NEW r \in Requests PROVE req'[r].live <=> req[r].live
      OBVIOUS
    <3>1. ASSUME NEW i \in 1 .. B, batch[i].req = r PROVE req'[r].live <=> req[r].live
      <4>1. req[r].live
        BY <1>1, <3>1, BatchIs DEF Live
      <4> QED BY <1>10, <3>1, <4>1
    <3> QED BY <1>8, <3>1
  <2> QED BY <2>1 DEF Live
<1>13. \A r \in Live : req'[r].slot = req[r].slot
  BY <1>2, <1>8, <1>10
<1>14. \A r \in Live : Progress(r)'
  <2> SUFFICES ASSUME NEW r \in Live PROVE Progress(r)'
    OBVIOUS
  <2>1. Progress(r)
    BY DEF RunnerInv, Holding
  <2>2. CASE \A i \in 1 .. B : batch[i].req # r
    BY <1>2, <1>3, <1>8, <2>1, <2>2 DEF Progress
  <2>3. ASSUME NEW i \in 1 .. B, batch[i].req = r PROVE Progress(r)'
    <3>1. batch[i].samples \in BOOLEAN /\ req'[r] \in ReqData
      BY <1>1, <1>10, <2>3, BatchIs
    <3>2. /\ req'[r].slot = req[r].slot /\ req'[r].prompt = req[r].prompt
          /\ req'[r].output <= MaxOutput
      BY <1>10, <2>3
    <3>3. /\ req'[r].output = 0 => req'[r].computed < req'[r].prompt
          /\ req'[r].output > 0 => req'[r].computed = req'[r].prompt + req'[r].output - 1
      BY <1>10, <2>3, <3>1
    <3> QED BY <1>3, <2>1, <3>2, <3>3 DEF Progress
  <2> QED BY <2>2, <2>3
<1>15. \A r \in Live : Own(r)'
  <2> SUFFICES ASSUME NEW r \in Live PROVE Own(r)'
    OBVIOUS
  <2>1. CASE \A i \in 1 .. B : batch[i].req # r
    <3>1. Own(r) /\ r \in Requests
      BY <1>1, <1>2, <2>1 DEF RunnerInv, Computing
    <3>2. \A i \in 1 .. B : batch[i].slot # req[r].slot
      <4> SUFFICES ASSUME NEW i \in 1 .. B, batch[i].slot = req[r].slot PROVE FALSE
        OBVIOUS
      <4>1. batch[i].req \in Live /\ batch[i].slot = req[batch[i].req].slot
        BY <1>1, BatchIs
      <4> QED BY <2>1, <4>1 DEF RunnerInv, Holding
    <3>3. req[r].slot \in Slots
      BY DEF RunnerInv, Holding, Progress
    <3>4. last_token'[req[r].slot] = last_token[req[r].slot]
      BY <1>6, <3>2, <3>3
    <3>5. req'[r] = req[r]
      BY <1>8, <2>1, <3>1
    <3> QED BY <1>1, <3>1, <3>4, <3>5 DEF Own
  <2>2. ASSUME NEW i \in 1 .. B, batch[i].req = r PROVE Own(r)'
    <3>1. /\ batch[i].slot = req[r].slot /\ batch[i].samples \in BOOLEAN
          /\ req'[r].slot = req[r].slot /\ req'[r].computed = batch[i].last
          /\ ~batch[i].samples => req'[r].output = 0
      BY <1>1, <1>10, <2>2, BatchIs
    <3>2. state'[batch[i].slot] = [of |-> r, n |-> batch[i].last]
      BY <1>1, <2>2 DEF RunnerInv, Computing
    <3>3. batch[i].samples => last_token'[batch[i].slot] = <<r, batch[i].last + 1>>
      BY <1>4, <1>5, <2>2
    <3>4. req'[r].output > 0 => batch[i].samples
      BY <3>1
    <3> QED BY <3>1, <3>2, <3>3, <3>4 DEF Own
  <2> QED BY <2>1, <2>2
<1>16. req' \in [Requests -> ReqData]
  <2>1. \A r \in Requests : req'[r] \in ReqData
    BY <1>2, <1>8, <1>10
  <2>2. req' = [r \in Requests |-> req'[r]]
    BY DEF SampleTokens
  <2> QED BY <2>1, <2>2
<1>17. Config'
  BY <1>1 DEF RunnerInv, Config
<1>18. GpuTypes'
  BY <1>1, <1>2, <1>3, <1>7 DEF GpuTypes
<1>19. Holding'
  <2>1. \A r, q \in Live : req'[r].slot = req'[q].slot => r = q
    BY <1>13 DEF RunnerInv, Holding
  <2>2. free_slots' = Slots \ {req'[r].slot : r \in Live}
    <3>1. free_slots = Slots \ {req[r].slot : r \in Live}
      BY <1>1 DEF RunnerInv, Holding
    <3> QED BY <1>1, <1>13, <3>1
  <2> QED BY <1>1, <1>3, <1>12, <1>14, <1>16, <2>1, <2>2 DEF Holding, Booting
<1>20. Batched' /\ Computing' /\ ~min_prev_negative'
  BY <1>1, <1>12, <1>15 DEF RunnerInv, Batched, Computing
<1> QED BY <1>17, <1>18, <1>19, <1>20 DEF RunnerInv

\* A batch is made of distinct live requests; nothing else changes.
LEMMA ScheduleStep ==
  ASSUME RunnerInv, Schedule
  PROVE  RunnerInv'
<1> DEFINE Ready == {r \in Requests : req[r].live /\ req[r].output < MaxOutput}
<1>1. /\ pc = "ready" /\ pc' = "execute"
      /\ UNCHANGED <<args, to_capture, entries, req, free_slots, rows, state, last_token,
                     min_prev_negative, uniform_slots, uniform_tokens>>
  BY DEF Schedule, gpuVars, bufferVars
<1>1a. PICK S \in SUBSET Ready :
        \E order \in SetToSeqs(S), num \in [S -> 1 .. Max(PromptLens)] :
          /\ \A r \in S : num[r] \in Nums(r)
          /\ batch' = [i \in DOMAIN order |-> RunData(order[i], num[order[i]])]
  BY DEF Schedule
<1>2. PICK order \in SetToSeqs(S), num \in [S -> 1 .. Max(PromptLens)] :
        /\ \A r \in S : num[r] \in Nums(r)
        /\ batch' = [i \in DOMAIN order |-> RunData(order[i], num[order[i]])]
  BY <1>1a
<1>3. Slots' = Slots /\ Live' = Live /\ Tokens' = Tokens /\ States' = States
  BY <1>1 DEF Slots, Live, Tokens, States
<1>4. IsFiniteSet(S) /\ Cardinality(S) \in Nat
  <2>1. IsFiniteSet(Slots)
    BY SlotsAre DEF RunnerInv
  <2> DEFINE f == [r \in S |-> req[r].slot]
  <2>2. f \in [S -> Slots] /\ \A r, q \in S : f[r] = f[q] => r = q
    BY DEF RunnerInv, Holding, Live, Progress
  <2>3. f \in Injection(S, Slots)
    <3> HIDE DEF f
    <3> QED BY <2>2 DEF Injection, IsInjective
  <2> HIDE DEF f
  <2>4. IsFiniteSet(S)
    BY <2>1, <2>3, FS_Injection
  <2> QED BY <2>4, FS_CardinalityType
<1>5. /\ order \in [1 .. Cardinality(S) -> S]
      /\ \A i, j \in 1 .. Cardinality(S) : i # j => order[i] # order[j]
  BY <1>2 DEF SetToSeqs
<1> DEFINE n == Cardinality(S)
<1>6. /\ n \in Nat /\ order \in [1 .. n -> S] /\ DOMAIN order = 1 .. n
      /\ \A i, j \in 1 .. n : order[i] = order[j] => i = j
  BY <1>4, <1>5
<1> HIDE DEF n
<1>7. \A i \in 1 .. n : /\ batch'[i] = RunData(order[i], num[order[i]])
                        /\ order[i] \in Live /\ order[i] \in Requests
                        /\ req[order[i]].output < MaxOutput
                        /\ num[order[i]] \in Nums(order[i]) /\ num[order[i]] \in Nat
  <2> SUFFICES ASSUME NEW i \in 1 .. n
               PROVE  /\ batch'[i] = RunData(order[i], num[order[i]])
                      /\ order[i] \in Live /\ order[i] \in Requests
                      /\ req[order[i]].output < MaxOutput
                      /\ num[order[i]] \in Nums(order[i]) /\ num[order[i]] \in Nat
    OBVIOUS
  <2>1. order[i] \in S
    BY <1>6
  <2>2. order[i] \in Requests /\ req[order[i]].live /\ req[order[i]].output < MaxOutput
    BY <1>2, <2>1
  <2>3. num[order[i]] \in 1 .. Max(PromptLens)
    BY <1>2, <2>1
  <2>4. num[order[i]] \in Nat
    BY <2>3, Bounds
  <2> QED BY <1>2, <1>6, <2>1, <2>2, <2>4 DEF Live
<1>8. \A i \in 1 .. n : batch'[i] \in RunDatas /\ batch'[i].req = order[i]
  <2> SUFFICES ASSUME NEW i \in 1 .. n
               PROVE  batch'[i] \in RunDatas /\ batch'[i].req = order[i]
    OBVIOUS
  <2> DEFINE r == order[i]
             k == num[order[i]]
  <2>1. batch'[i] = RunData(r, k) /\ r \in Requests /\ k \in Nat
    BY <1>7
  <2>2. req[r] \in ReqData
    BY <2>1 DEF RunnerInv, Holding
  <2>3. req[r].slot \in Nat /\ req[r].computed \in Nat /\ req[r].prompt \in Nat
    BY <2>2 DEF ReqData
  <2> HIDE DEF r, k
  <2>4. req[r].computed + 1 \in Nat /\ req[r].computed + k \in Nat
    BY <2>1, <2>3
  <2>5. IsDecode(r) \in BOOLEAN
    BY DEF IsDecode
  <2>6. (IsDecode(r) \/ req[r].computed + k >= req[r].prompt) \in BOOLEAN
    OBVIOUS
  <2>7. RunData(r, k) \in RunDatas
    BY <2>1, <2>3, <2>4, <2>5, <2>6 DEF RunData, RunDatas
  <2> QED BY <2>1, <2>7 DEF RunData, r
<1>9. batch' \in Seq(RunDatas) /\ B' = n
  <2>1. DOMAIN batch' = 1 .. n /\ batch' = [i \in 1 .. n |-> batch'[i]]
    BY <1>2, <1>6
  <2>2. batch' \in [1 .. n -> RunDatas]
    BY <1>8, <2>1
  <2>3. batch' \in Seq(RunDatas) /\ Len(batch') = n
    BY <1>6, <2>2
  <2> QED BY <2>3 DEF B
<1>10. Config'
  BY <1>1 DEF RunnerInv, Config
<1>11. GpuTypes'
  BY <1>1, <1>3 DEF RunnerInv, GpuTypes, Loaded
<1>12. Holding'
  BY <1>1, <1>3 DEF RunnerInv, Holding, Booting, Progress
<1>13. Batched'
  <2>3. ASSUME NEW i \in 1 .. n
        PROVE  /\ batch'[i].req \in Live /\ req[batch'[i].req].output < MaxOutput
               /\ \E k \in Nums(batch'[i].req) : batch'[i] = RunData(batch'[i].req, k)
    BY <1>7, <1>8
  <2>4. \A i, j \in 1 .. n : batch'[i].req = batch'[j].req => i = j
    BY <1>6, <1>8
  <2>5. ASSUME NEW i \in 1 .. n
        PROVE  (\E k \in Nums(batch[i].req) : batch[i] = RunData(batch[i].req, k))'
    BY <1>1, <2>3 DEF Nums, RunData, IsDecode
  <2> QED BY <1>1, <1>3, <1>9, <2>3, <2>4, <2>5 DEF Batched
<1>14. Computing'
  BY <1>1, <1>3 DEF RunnerInv, Computing, Own
<1>15. ~min_prev_negative'
  BY <1>1 DEF RunnerInv
<1> QED BY <1>10, <1>11, <1>12, <1>13, <1>14, <1>15 DEF RunnerInv

\* A new request gets a free slot.
LEMMA AdmitStep ==
  ASSUME RunnerInv, NEW r \in Requests, Admit(r)
  PROVE  RunnerInv'
<1>1. /\ pc = "ready" /\ pc' = "ready" /\ free_slots # {} /\ ~req[r].live
      /\ free_slots' = free_slots \ {Min(free_slots)}
      /\ UNCHANGED <<args, to_capture, entries, batch, rows, state, last_token,
                     min_prev_negative, uniform_slots, uniform_tokens>>
  BY DEF Admit, gpuVars, bufferVars
<1>2. PICK prompt \in PromptLens :
        req' = [req EXCEPT ![r] = [NotYet EXCEPT !.live = TRUE, !.slot = Min(free_slots),
                                                 !.prompt = prompt]]
  BY DEF Admit
<1>3. req \in [Requests -> ReqData] /\ free_slots = Slots \ {req[q].slot : q \in Live}
  BY <1>1 DEF RunnerInv, Holding
<1>4. Min(free_slots) \in free_slots
  <2>1. free_slots \in SUBSET Nat
    BY <1>3, SlotsAre DEF RunnerInv
  <2> QED BY <1>1, <2>1, MinIs
<1> DEFINE s == Min(free_slots)
<1>5. s \in Slots /\ s \in Nat /\ \A q \in Live : req[q].slot # s
  <2>1. Slots \subseteq Nat
    BY SlotsAre DEF RunnerInv
  <2> QED BY <1>3, <1>4, <2>1
<1>6. Slots' = Slots /\ Tokens' = Tokens /\ States' = States
  BY <1>1 DEF Slots, Tokens, States
<1> HIDE DEF s
<1>7. /\ req'[r].live /\ req'[r].slot = s /\ req'[r].prompt = prompt
      /\ req'[r].computed = 0 /\ req'[r].output = 0
      /\ \A q \in Requests : q # r => req'[q] = req[q]
  BY <1>2, <1>3 DEF NotYet, s
<1>8. req' \in [Requests -> ReqData]
  <2>1. prompt \in Nat
    BY Bounds
  <2>2. [NotYet EXCEPT !.live = TRUE, !.slot = Min(free_slots), !.prompt = prompt] \in ReqData
    BY <1>5, <2>1 DEF NotYet, ReqData, s
  <2> QED BY <1>2, <1>3, <2>2
<1>9. Live' = Live \cup {r} /\ r \notin Live /\ Live \subseteq Requests
  BY <1>1, <1>7 DEF Live
<1>10. \A q \in Live : req'[q] = req[q]
  BY <1>7, <1>9
<1>11. \A q \in Live' : Progress(q)'
  <2>1. \A q \in Live : Progress(q)'
    BY <1>6, <1>10 DEF RunnerInv, Holding, Progress
  <2>2. Progress(r)'
    BY <1>5, <1>6, <1>7, Bounds DEF Progress
  <2> QED BY <1>9, <2>1, <2>2
<1>12. \A q \in Live' : Own(q)'
  <2>1. \A q \in Live : Own(q)'
    BY <1>1, <1>10 DEF RunnerInv, Computing, Own
  <2>2. Own(r)'
    BY <1>7 DEF Own
  <2> QED BY <1>9, <2>1, <2>2
<1>13. Holding'
  <2>1. \A p, q \in Live' : req'[p].slot = req'[q].slot => p = q
    BY <1>5, <1>7, <1>9, <1>10 DEF RunnerInv, Holding
  <2>2. free_slots' = Slots \ {req'[q].slot : q \in Live'}
    <3>1. {req'[q].slot : q \in Live'} = {req[q].slot : q \in Live} \cup {s}
      BY <1>7, <1>9, <1>10
    <3> QED BY <1>1, <1>3, <3>1 DEF s
  <2> QED BY <1>1, <1>6, <1>8, <1>11, <2>1, <2>2 DEF Holding, Booting
<1>14. Config'
  BY <1>1 DEF RunnerInv, Config
<1>15. GpuTypes'
  BY <1>1, <1>6 DEF RunnerInv, GpuTypes, Loaded
<1>16. Batched' /\ Computing' /\ ~min_prev_negative'
  BY <1>1, <1>12 DEF RunnerInv, Batched, Computing
<1> QED BY <1>13, <1>14, <1>15, <1>16 DEF RunnerInv

\* Its slot comes back.
LEMMA FinishStep ==
  ASSUME RunnerInv, NEW r \in Requests, Finish(r)
  PROVE  RunnerInv'
<1>1. /\ pc = "ready" /\ pc' = "ready" /\ req[r].live
      /\ req' = [req EXCEPT ![r].live = FALSE, ![r].done = TRUE]
      /\ free_slots' = free_slots \cup {req[r].slot}
      /\ UNCHANGED <<args, to_capture, entries, batch, rows, state, last_token,
                     min_prev_negative, uniform_slots, uniform_tokens>>
  BY DEF Finish, gpuVars, bufferVars
<1>2. req \in [Requests -> ReqData] /\ free_slots = Slots \ {req[q].slot : q \in Live}
  BY <1>1 DEF RunnerInv, Holding
<1>3. Slots' = Slots /\ Tokens' = Tokens /\ States' = States
  BY <1>1 DEF Slots, Tokens, States
<1>4. /\ req' \in [Requests -> ReqData] /\ ~req'[r].live
      /\ \A q \in Requests : q # r => req'[q] = req[q]
  <2>1. [req[r] EXCEPT !.live = FALSE, !.done = TRUE] \in ReqData
    BY <1>2 DEF ReqData
  <2>2. req' = [req EXCEPT ![r] = [req[r] EXCEPT !.live = FALSE, !.done = TRUE]]
    BY <1>1
  <2>3. ~req'[r].live
    BY <1>1, <1>2 DEF ReqData
  <2> QED BY <1>2, <2>1, <2>2, <2>3
<1>5. Live' = Live \ {r} /\ r \in Live /\ Live \subseteq Requests
  BY <1>1, <1>4 DEF Live
<1>6. \A q \in Live' : req'[q] = req[q] /\ q \in Live /\ q # r
  BY <1>4, <1>5
<1>7. \A q \in Live' : Progress(q)' /\ Own(q)'
  <2> SUFFICES ASSUME NEW q \in Live' PROVE Progress(q)' /\ Own(q)'
    OBVIOUS
  <2>1. q \in Live /\ req'[q] = req[q]
    BY <1>6
  <2>2. Progress(q) /\ Own(q)
    BY <1>1, <2>1 DEF RunnerInv, Holding, Computing
  <2>3. Progress(q)'
    BY <1>3, <2>1, <2>2 DEF Progress
  <2>4. Own(q)'
    BY <1>1, <2>1, <2>2 DEF Own
  <2> QED BY <2>3, <2>4
<1>8. Holding'
  <2>1. \A p, q \in Live' : req'[p].slot = req'[q].slot => p = q
    BY <1>6 DEF RunnerInv, Holding
  <2>2. free_slots' = Slots \ {req'[q].slot : q \in Live'}
    <3>1. req[r].slot \in Slots
      BY <1>5 DEF RunnerInv, Holding, Progress
    <3>2. \A q \in Live : q # r => req[q].slot # req[r].slot
      BY <1>5 DEF RunnerInv, Holding
    <3>3. {req'[q].slot : q \in Live'} = {req[q].slot : q \in Live} \ {req[r].slot}
      BY <1>5, <1>6, <3>2
    <3> QED BY <1>1, <1>2, <3>1, <3>3
  <2> QED BY <1>1, <1>3, <1>4, <1>7, <2>1, <2>2 DEF Holding, Booting
<1>9. Config'
  BY <1>1 DEF RunnerInv, Config
<1>10. GpuTypes'
  BY <1>1, <1>3 DEF RunnerInv, GpuTypes, Loaded
<1>11. Batched' /\ Computing' /\ ~min_prev_negative'
  BY <1>1, <1>7 DEF RunnerInv, Batched, Computing
<1> QED BY <1>8, <1>9, <1>10, <1>11 DEF RunnerInv

-----------------------------------------------------------------------------
(***************************************************************************)
(* Start-up and shutdown                                                   *)
(***************************************************************************)
LEMMA InitHolds ==
  ASSUME Init
  PROVE  RunnerInv
<1>1. req \in [Requests -> ReqData] /\ Live = {}
  <2>1. NotYet \in ReqData /\ ~NotYet.live
    BY DEF NotYet, ReqData
  <2> QED BY <2>1 DEF Init, Live
<1>2. Config
  BY DEF Init, Config
<1>3. Holding
  BY <1>1 DEF Init, Holding, Booting
<1> QED BY <1>2, <1>3 DEF Init, RunnerInv, GpuTypes, Loaded, Batched, Computing

LEMMA RejectStep ==
  ASSUME RunnerInv, Reject
  PROVE  RunnerInv'
<1>1. /\ pc = "args" /\ pc' = "rejected"
      /\ UNCHANGED <<args, to_capture, entries, req, free_slots, batch, rows, min_prev_negative>>
  BY DEF Reject, gpuVars
<1>2. Live' = Live /\ Slots' = Slots /\ Live = {}
  BY <1>1 DEF RunnerInv, Holding, Booting, Live, Slots
<1>3. Config'
  BY <1>1 DEF RunnerInv, Config
<1>4. Holding'
  BY <1>1, <1>2 DEF RunnerInv, Holding, Booting
<1> QED BY <1>1, <1>3, <1>4 DEF RunnerInv, GpuTypes, Loaded, Batched, Computing

\* A slot of the model's that is new holds the zero state.
LEMMA LoadStep ==
  ASSUME RunnerInv, LoadModel
  PROVE  RunnerInv'
<1>1. /\ pc = "args" /\ pc' = "capture" /\ ~Rejected(args)
      /\ to_capture' = CaptureShapes(args) /\ free_slots' = Slots
      /\ UNCHANGED <<args, entries, req, batch, rows, min_prev_negative>>
  BY DEF LoadModel
<1>2. Live' = Live /\ Slots' = Slots /\ Live = {} /\ Tokens' = Tokens /\ States' = States
  BY <1>1 DEF RunnerInv, Holding, Booting, Live, Slots, Tokens, States
<1>3. args \in Args
  BY DEF RunnerInv, Config
<1>4. Config'
  <2>1. to_capture' \in Seq(Int)
    BY <1>1, <1>3, ShapesAre
  <2>2. ~args.named /\ ~args.enforce_eager =>
          \A i \in DOMAIN to_capture' : to_capture'[i] \in 1 .. args.max_num_seqs
    BY <1>1, <1>3, DefaultShapes
  <2>3. entries \subseteq 1 .. args.max_num_seqs
    BY DEF RunnerInv, Config
  <2>4. Rejected(args)' = Rejected(args)
    BY <1>1 DEF Rejected
  <2> QED BY <1>1, <1>3, <2>1, <2>2, <2>3, <2>4 DEF Config
<1>5. GpuTypes'
  <2>1. Zero \in States /\ Unsampled \in Tokens /\ Dummy \in Tokens
    BY Bounds DEF Zero, States, Tokens, MaxLen
  <2>2. 0 \in Slots
    BY SlotsAre DEF RunnerInv, Slots
  <2>3. /\ state' \in [Slots -> States] /\ last_token' \in [Slots -> Tokens]
        /\ uniform_slots' \in [Slots -> Slots] /\ uniform_tokens' \in [Slots -> Tokens]
    BY <2>1, <2>2 DEF LoadModel
  <2> QED BY <1>2, <2>3 DEF GpuTypes
<1>6. Holding'
  BY <1>1, <1>2 DEF RunnerInv, Holding, Booting
<1> QED BY <1>1, <1>4, <1>5, <1>6 DEF RunnerInv, Batched, Computing

\* A size is captured only if the buffers have its rows.
LEMMA CaptureStep ==
  ASSUME RunnerInv, CaptureForShape
  PROVE  RunnerInv'
<1> DEFINE size == Last(to_capture)
<1>1. /\ pc = "capture" /\ pc' = "capture" /\ to_capture # <<>>
      /\ size \in 1 .. args.max_num_seqs
      /\ entries' = entries \cup {size}
      /\ state' = [s \in Slots |-> IF s < size THEN Garbage ELSE state[s]]
      /\ uniform_slots' = [i \in Slots |-> IF i < size THEN i ELSE uniform_slots[i]]
      /\ to_capture' = Front(to_capture)
      /\ UNCHANGED <<args, req, free_slots, batch, rows, last_token, min_prev_negative,
                     uniform_tokens>>
  BY DEF CaptureForShape, Capture
<1>2. Live' = Live /\ Slots' = Slots /\ Live = {} /\ Tokens' = Tokens /\ States' = States
  BY <1>1 DEF RunnerInv, Holding, Booting, Live, Slots, Tokens, States
<1> HIDE DEF size
<1>3. Config'
  <2>1. to_capture \in Seq(Int)
    BY DEF RunnerInv, Config
  <2>2. to_capture' \in Seq(Int) /\ \A i \in DOMAIN to_capture' :
          i \in DOMAIN to_capture /\ to_capture'[i] = to_capture[i]
    BY <1>1, <2>1 DEF Front
  <2>3. entries' \subseteq 1 .. args.max_num_seqs
    BY <1>1 DEF RunnerInv, Config
  <2>4. ~Rejected(args)'
    BY <1>1 DEF RunnerInv, Config, Rejected
  <2> QED BY <1>1, <2>2, <2>3, <2>4 DEF RunnerInv, Config
<1>4. GpuTypes'
  <2>1. Garbage \in States
    BY Bounds DEF Garbage, States, MaxLen
  <2>2. /\ state \in [Slots -> States] /\ last_token \in [Slots -> Tokens]
        /\ uniform_slots \in [Slots -> Slots] /\ uniform_tokens \in [Slots -> Tokens]
    BY <1>1 DEF RunnerInv, GpuTypes, Loaded
  <2>3. state' \in [Slots -> States]
    BY <1>1, <2>1, <2>2
  <2>4. uniform_slots' \in [Slots -> Slots]
    BY <1>1, <2>2
  <2> QED BY <1>1, <1>2, <2>2, <2>3, <2>4 DEF GpuTypes
<1>5. Holding'
  BY <1>1, <1>2 DEF RunnerInv, Holding, Booting
<1> QED BY <1>1, <1>3, <1>4, <1>5 DEF RunnerInv, Batched, Computing

LEMMA CaptureRaisesStep ==
  ASSUME RunnerInv, CaptureRaises
  PROVE  RunnerInv'
<1>1. /\ pc = "capture" /\ pc' = "no start" /\ to_capture # <<>>
      /\ Last(to_capture) \notin 1 .. args.max_num_seqs
      /\ UNCHANGED <<args, to_capture, entries, req, free_slots, batch, rows, state,
                     last_token, min_prev_negative, uniform_slots, uniform_tokens>>
  BY DEF CaptureRaises, gpuVars, bufferVars
<1>2. Live' = Live /\ Slots' = Slots /\ Live = {} /\ Tokens' = Tokens /\ States' = States
  BY <1>1 DEF RunnerInv, Holding, Booting, Live, Slots, Tokens, States
<1>3. \E i \in DOMAIN to_capture : to_capture[i] \notin 1 .. args.max_num_seqs
  <2>1. to_capture \in Seq(Int)
    BY DEF RunnerInv, Config
  <2>2. Len(to_capture) \in DOMAIN to_capture
    <3> DEFINE q == to_capture
    <3>1. q \in Seq(Int) /\ q # <<>>
      BY <1>1, <2>1
    <3> HIDE DEF q
    <3>2. Len(q) \in Nat /\ Len(q) # 0 /\ DOMAIN q = 1 .. Len(q)
      BY <3>1
    <3>3. Len(q) \in DOMAIN q
      BY <3>2
    <3> QED BY <3>3 DEF q
  <2> QED BY <1>1, <2>2 DEF Last
<1>4. Config'
  <2>1. ~Rejected(args)'
    BY <1>1 DEF RunnerInv, Config, Rejected
  <2> QED BY <1>1, <1>3, <2>1 DEF RunnerInv, Config
<1>5. GpuTypes'
  BY <1>1, <1>2 DEF RunnerInv, GpuTypes, Loaded
<1>6. Holding'
  BY <1>1, <1>2 DEF RunnerInv, Holding, Booting
<1> QED BY <1>1, <1>4, <1>5, <1>6 DEF RunnerInv, Batched, Computing

LEMMA CaptureEndStep ==
  ASSUME RunnerInv, CaptureEnd
  PROVE  RunnerInv'
<1>1. /\ pc = "capture" /\ pc' = "ready"
      /\ UNCHANGED <<args, to_capture, entries, req, free_slots, batch, rows, state,
                     last_token, min_prev_negative, uniform_slots, uniform_tokens>>
  BY DEF CaptureEnd, gpuVars, bufferVars
<1>2. Live' = Live /\ Slots' = Slots /\ Live = {} /\ Tokens' = Tokens /\ States' = States
  BY <1>1 DEF RunnerInv, Holding, Booting, Live, Slots, Tokens, States
<1>3. Config'
  <2>1. ~Rejected(args)'
    BY <1>1 DEF RunnerInv, Config, Rejected
  <2> QED BY <1>1, <2>1 DEF RunnerInv, Config
<1>4. GpuTypes'
  BY <1>1, <1>2 DEF RunnerInv, GpuTypes, Loaded
<1>5. Holding'
  BY <1>1, <1>2 DEF RunnerInv, Holding, Booting
<1> QED BY <1>1, <1>2, <1>3, <1>4, <1>5 DEF RunnerInv, Batched, Computing

LEMMA ShutdownStep ==
  ASSUME RunnerInv, Shutdown
  PROVE  RunnerInv'
<1>1. /\ pc = "ready" /\ pc' = "down" /\ entries' = {} /\ ~min_prev_negative'
      /\ UNCHANGED <<args, to_capture, req, free_slots, batch, rows>>
  BY DEF Shutdown
<1>2. Live' = Live /\ Slots' = Slots
  BY <1>1 DEF Live, Slots
<1>3. Config'
  <2>1. ~Rejected(args)'
    BY <1>1 DEF RunnerInv, Config, Rejected
  <2> QED BY <1>1, <2>1 DEF RunnerInv, Config
<1>4. Holding'
  BY <1>1, <1>2 DEF RunnerInv, Holding, Booting, Progress
<1> QED BY <1>1, <1>3, <1>4 DEF RunnerInv, GpuTypes, Loaded, Batched, Computing

LEMMA RunnerInvStutter ==
  ASSUME RunnerInv, UNCHANGED vars
  PROVE  RunnerInv'
<1>1. UNCHANGED <<args, pc, to_capture, entries, req, free_slots, batch, rows, state,
                  last_token, min_prev_negative, uniform_slots, uniform_tokens>>
  BY DEF vars, gpuVars, bufferVars
<1>2. Live' = Live /\ Slots' = Slots /\ Tokens' = Tokens /\ States' = States
  BY <1>1 DEF Live, Slots, Tokens, States
<1>3. Config'
  BY <1>1 DEF RunnerInv, Config, Rejected
<1>4. GpuTypes'
  BY <1>1, <1>2 DEF RunnerInv, GpuTypes, Loaded
<1>5. Holding'
  BY <1>1, <1>2 DEF RunnerInv, Holding, Booting, Progress
<1>6. Batched'
  BY <1>1, <1>2 DEF RunnerInv, Batched, B, Nums, RunData, IsDecode
<1>7. Computing' /\ ~min_prev_negative'
  BY <1>1, <1>2 DEF RunnerInv, Computing, B, Own
<1> QED BY <1>3, <1>4, <1>5, <1>6, <1>7 DEF RunnerInv

-----------------------------------------------------------------------------
(***************************************************************************)
(* The theorems                                                            *)
(***************************************************************************)
LEMMA RunnerNext ==
  ASSUME RunnerInv, Next
  PROVE  RunnerInv'
<1>1. CASE Reject
  BY <1>1, RejectStep
<1>2. CASE LoadModel
  BY <1>2, LoadStep
<1>3. CASE CaptureForShape
  BY <1>3, CaptureStep
<1>4. CASE CaptureRaises
  BY <1>4, CaptureRaisesStep
<1>5. CASE CaptureEnd
  BY <1>5, CaptureEndStep
<1>6. ASSUME NEW r \in Requests, Admit(r) PROVE RunnerInv'
  BY <1>6, AdmitStep
<1>7. ASSUME NEW r \in Requests, Finish(r) PROVE RunnerInv'
  BY <1>7, FinishStep
<1>8. CASE Schedule
  BY <1>8, ScheduleStep
<1>9. CASE ExecuteEager
  BY <1>9, EagerStep
<1>10. CASE ExecuteDecodeEager
  BY <1>10, DecodeEagerStep
<1>11. CASE ReplayGraph
  BY <1>11, ReplayStep
<1>12. CASE SampleTokens
  BY <1>12, SampleStep
<1>13. CASE Shutdown
  BY <1>13, ShutdownStep
<1> QED
  BY <1>1, <1>2, <1>3, <1>4, <1>5, <1>6, <1>7, <1>8, <1>9, <1>10, <1>11, <1>12, <1>13 DEF Next

\* In every reachable state, in the middle of a step too, the requests that are not in the
\* batch own their slot's state and last token, and those in it are about to.
THEOREM RunnerInvariant == Spec => []RunnerInv
<1>1. Init => RunnerInv
  BY InitHolds
<1>2. RunnerInv /\ [Next]_vars => RunnerInv'
  BY RunnerNext, RunnerInvStutter
<1> QED BY <1>1, <1>2, PTL DEF Spec

\* The captured sizes fit the buffers, the buffers and the slots' states are well formed,
\* and the free slots are exactly those of no live request.
THEOREM RunnerTypeCorrect == Spec => []RunnerTypeOK
<1>1. RunnerInv => RunnerTypeOK
  <2> SUFFICES ASSUME RunnerInv PROVE RunnerTypeOK
    OBVIOUS
  <2>1. /\ pc \in {"args", "rejected", "capture", "no start", "ready", "execute", "sample", "down"}
        /\ entries \in SUBSET (1 .. args.max_num_seqs)
    BY DEF RunnerInv, Config
  <2>2. free_slots \in SUBSET Slots
    BY DEF RunnerInv, Holding
  <2>3. pc \in {"ready", "execute", "sample"} =>
          free_slots = Slots \ {req[r].slot : r \in Live}
    BY DEF RunnerInv, Holding
  <2>4. pc \in {"ready", "execute", "sample"} =>
          /\ state \in [Slots -> States] /\ last_token \in [Slots -> Tokens]
          /\ uniform_slots \in [Slots -> Slots] /\ uniform_tokens \in [Slots -> Tokens]
    BY DEF RunnerInv, GpuTypes, Loaded
  <2> QED BY <2>1, <2>2, <2>3, <2>4 DEF RunnerTypeOK
<1> QED BY <1>1, RunnerInvariant, PTL

\* For any number of slots, any requests and batches, and any sizes that were captured: on
\* every path a request's slot ends with the state after exactly that request's tokens, and
\* the pads of a replay, which are not cleaned, are on nobody's slot.
THEOREM OwnTokensOnlyHolds == Spec => []OwnTokensOnly
<1>1. RunnerInv => OwnTokensOnly
  BY DEF RunnerInv, Computing, Own, OwnTokensOnly
<1> QED BY <1>1, RunnerInvariant, PTL

\* Whatever the limits, the sizes that are chosen by default can all be captured.
THEOREM DefaultsStartHolds == Spec => []DefaultsStart
<1>1. RunnerInv => DefaultsStart
  BY DEF RunnerInv, Config, DefaultsStart
<1> QED BY <1>1, RunnerInvariant, PTL
=============================================================================
