------------------------ MODULE EngineCoreProc_proofs -------------------------
(***************************************************************************)
(* EngineCore is correct for every number of requests and slots, every     *)
(* budget and threshold, and both queue policies; and so is the engine     *)
(* process around it, three threads and a client, in any interleaving,     *)
(* with any number of signals.                                             *)
(*                                                                         *)
(* CoreInv is inductive for whatever drives the engine: requests that are  *)
(* added, rejected or aborted between two steps, ids put on aborts_queue   *)
(* at any time, and the step itself.  It is the conjunction of TypeOK and  *)
(* one invariant for each thing the step hands on from phase to phase:     *)
(* which queue a request is in, which slot it holds, what the batch says   *)
(* of it, how far it is, what its slot contains.  The lemmas about queues  *)
(* come first, then the properties of the engine.                          *)
(*                                                                         *)
(* The second part is the process.  Whatever a thread does to the engine   *)
(* is one of the moves CoreInv is inductive for, because the busy loop     *)
(* touches requests only between two steps (BetweenSteps).  ProcInv adds   *)
(* where the messages are: an ADD waits in input_queue for as long as the  *)
(* engine has not seen the request, and an ABORT never overtakes it.       *)
(***************************************************************************)
EXTENDS EngineCoreProc, TLAPS, FiniteSetTheorems

(***************************************************************************)
(* What the scheduler's operators on queues return, for every queue.       *)
(* Queues are sequences without repetition; taking ids out and sorting     *)
(* keep them so.  Induction over queues and sets is done with a minimal    *)
(* counterexample.                                                         *)
(***************************************************************************)
NoRepeats(q) == \A i, j \in DOMAIN q : q[i] = q[j] => i = j

\* Every non-empty set of natural numbers has a least element.
LEMMA NatMin ==
  ASSUME NEW T \in SUBSET Nat, T # {}
  PROVE  \E n \in T : \A m \in T : n <= m
<1> DEFINE R == OpToRel(<, Nat)
<1>1. IsWellFoundedOn(R, Nat)
  BY NatLessThanWellFounded
<1>2. \E x \in T : \A y \in T : ~ (<<y, x>> \in R)
  <2> HIDE DEF R
  <2> QED BY <1>1, WFMin
<1>3. \A x, y \in T : y < x => <<y, x>> \in R
  <2> SUFFICES ASSUME NEW x \in T, NEW y \in T, y < x PROVE <<y, x>> \in R
    OBVIOUS
  <2> QED BY DEF OpToRel
<1> HIDE DEF R
<1>4. PICK x \in T : \A y \in T : ~ (<<y, x>> \in R)
  BY <1>2
<1>5. \A y \in T : ~(y < x)
  BY <1>3, <1>4
<1>6. \A y \in T : x <= y
  BY <1>5
<1> QED BY <1>6

\* Every non-empty collection of subsets of a finite set has a minimal one.
LEMMA SubsetMin ==
  ASSUME NEW S, IsFiniteSet(S), NEW T \in SUBSET (SUBSET S), T # {}
  PROVE  \E m \in T : \A t \in T : t \subseteq m => t = m
<1>1. \A t \in T : IsFiniteSet(t) /\ t \subseteq S
  BY FS_Subset
<1>2. IsWellFoundedOn(StrictSubsetOrdering(S), FiniteSubsetsOf(S))
  BY FS_StrictSubsetOrderingWellFounded
<1>3. T \subseteq FiniteSubsetsOf(S)
  BY <1>1 DEF FiniteSubsetsOf
<1>4. \E x \in T : \A y \in T : ~ (<<y, x>> \in StrictSubsetOrdering(S))
  BY <1>2, <1>3, WFMin
<1> QED BY <1>1, <1>4 DEF StrictSubsetOrdering

\* Append adds one element, at the end.
LEMMA AppendElements ==
  ASSUME NEW S, NEW q \in Seq(S), NEW r \in S
  PROVE  /\ Append(q, r) \in Seq(S)
         /\ Elements(Append(q, r)) = Elements(q) \cup {r}
         /\ NoRepeats(q) /\ r \notin Elements(q) => NoRepeats(Append(q, r))
<1> DEFINE a == Append(q, r)
<1>1. /\ a \in Seq(S) /\ Len(q) \in Nat
      /\ DOMAIN q = 1 .. Len(q) /\ DOMAIN a = 1 .. Len(q) + 1
      /\ a[Len(q) + 1] = r /\ \A i \in 1 .. Len(q) : a[i] = q[i]
  OBVIOUS
<1> HIDE DEF a
<1>2. \A i \in 1 .. Len(q) + 1 : i \in 1 .. Len(q) \/ i = Len(q) + 1
  BY <1>1
<1>3. 1 .. Len(q) \subseteq 1 .. Len(q) + 1 /\ Len(q) + 1 \in 1 .. Len(q) + 1
  BY <1>1
<1>4. Elements(a) = Elements(q) \cup {r}
  BY <1>1, <1>2, <1>3 DEF Elements
<1>5. NoRepeats(q) /\ r \notin Elements(q) => NoRepeats(a)
  BY <1>1, <1>2, <1>3 DEF Elements, NoRepeats
<1> QED BY <1>1, <1>4, <1>5 DEF a

\* Popping a queue takes its head out of it.
LEMMA TailElements ==
  ASSUME NEW S, NEW q \in Seq(S), q # <<>>
  PROVE  /\ Head(q) \in S /\ Head(q) \in Elements(q) /\ Tail(q) \in Seq(S)
         /\ Elements(q) = Elements(Tail(q)) \cup {Head(q)}
         /\ NoRepeats(q) => /\ NoRepeats(Tail(q))
                           /\ Elements(Tail(q)) = Elements(q) \ {Head(q)}
<1> DEFINE t == Tail(q)
<1>1. /\ t \in Seq(S) /\ Len(q) \in Nat \ {0} /\ Head(q) = q[1] /\ q[1] \in S
      /\ DOMAIN q = 1 .. Len(q) /\ DOMAIN t = 1 .. Len(q) - 1
      /\ \A i \in 1 .. Len(q) - 1 : t[i] = q[i + 1]
  OBVIOUS
<1> HIDE DEF t
<1>2. \A i \in 1 .. Len(q) : i = 1 \/ (i - 1 \in 1 .. Len(q) - 1 /\ i = (i - 1) + 1)
  BY <1>1
<1>3. 1 \in 1 .. Len(q) /\ \A i \in 1 .. Len(q) - 1 : i + 1 \in 1 .. Len(q) /\ i + 1 # 1
  BY <1>1
<1>4. ASSUME NEW i \in DOMAIN q PROVE q[i] \in Elements(t) \cup {q[1]}
  <2>1. CASE i # 1
    <3>1. i - 1 \in DOMAIN t /\ q[i] = t[i - 1]
      BY <1>1, <1>2, <2>1
    <3> QED BY <3>1 DEF Elements
  <2> QED BY <2>1
<1>5. Elements(t) \subseteq Elements(q) /\ q[1] \in Elements(q)
  BY <1>1, <1>3 DEF Elements
<1>6. ASSUME NoRepeats(q) PROVE NoRepeats(t) /\ q[1] \notin Elements(t)
  <2>1. q[1] \notin Elements(t)
    BY <1>1, <1>3, <1>6 DEF Elements, NoRepeats
  <2>2. ASSUME NEW i \in DOMAIN t, NEW j \in DOMAIN t, t[i] = t[j] PROVE i = j
    <3>1. q[i + 1] = q[j + 1] /\ i + 1 \in DOMAIN q /\ j + 1 \in DOMAIN q
      BY <1>1, <1>3, <2>2
    <3>2. i + 1 = j + 1
      BY <1>6, <3>1 DEF NoRepeats
    <3> QED BY <1>1, <3>2
  <2> QED BY <2>1, <2>2 DEF NoRepeats
<1>7. Elements(q) = Elements(t) \cup {q[1]}
  BY <1>4, <1>5 DEF Elements
<1> QED BY <1>1, <1>5, <1>6, <1>7 DEF t

\* Concatenation.
LEMMA ConcatElements ==
  ASSUME NEW S, NEW p \in Seq(S), NEW q \in Seq(S)
  PROVE  /\ p \o q \in Seq(S)
         /\ Elements(p \o q) = Elements(p) \cup Elements(q)
         /\ NoRepeats(p) /\ NoRepeats(q) /\ Elements(p) \cap Elements(q) = {}
              => NoRepeats(p \o q)
<1> DEFINE c == p \o q
<1>1. /\ c \in Seq(S) /\ Len(p) \in Nat /\ Len(q) \in Nat
      /\ DOMAIN p = 1 .. Len(p) /\ DOMAIN q = 1 .. Len(q)
      /\ DOMAIN c = 1 .. Len(p) + Len(q)
      /\ \A i \in 1 .. Len(p) + Len(q) : c[i] = IF i <= Len(p) THEN p[i] ELSE q[i - Len(p)]
  OBVIOUS
<1> HIDE DEF c
<1>2. \A i \in DOMAIN c : \/ i \in DOMAIN p /\ c[i] = p[i]
                          \/ i - Len(p) \in DOMAIN q /\ c[i] = q[i - Len(p)]
  BY <1>1
<1>3. \A i \in DOMAIN p : i \in DOMAIN c /\ c[i] = p[i]
  BY <1>1
<1>4. \A i \in DOMAIN q : i + Len(p) \in DOMAIN c /\ c[i + Len(p)] = q[i]
  BY <1>1
<1>5. Elements(c) = Elements(p) \cup Elements(q)
  BY <1>2, <1>3, <1>4 DEF Elements
<1>6. ASSUME NoRepeats(p), NoRepeats(q), Elements(p) \cap Elements(q) = {},
             NEW i \in DOMAIN c, NEW j \in DOMAIN c, c[i] = c[j]
      PROVE  i = j
  <2>1. CASE i \in DOMAIN p /\ c[i] = p[i] /\ j \in DOMAIN p /\ c[j] = p[j]
    BY <1>6, <2>1 DEF NoRepeats
  <2>2. CASE i - Len(p) \in DOMAIN q /\ c[i] = q[i - Len(p)]
             /\ j - Len(p) \in DOMAIN q /\ c[j] = q[j - Len(p)]
    <3>1. i - Len(p) = j - Len(p)
      BY <1>6, <2>2 DEF NoRepeats
    <3> QED BY <1>1, <3>1
  <2>3. CASE i \in DOMAIN p /\ c[i] = p[i] /\ j - Len(p) \in DOMAIN q /\ c[j] = q[j - Len(p)]
    BY <1>6, <2>3 DEF Elements
  <2>4. CASE i - Len(p) \in DOMAIN q /\ c[i] = q[i - Len(p)] /\ j \in DOMAIN p /\ c[j] = p[j]
    BY <1>6, <2>4 DEF Elements
  <2> QED BY <1>2, <2>1, <2>2, <2>3, <2>4
<1>7. NoRepeats(p) /\ NoRepeats(q) /\ Elements(p) \cap Elements(q) = {} => NoRepeats(c)
  BY <1>6 DEF NoRepeats
<1> QED BY <1>1, <1>5, <1>7 DEF c

-----------------------------------------------------------------------------
\* One turn of Without, for every prefix of the queue.
Turn(q, ids, kept) ==
  [m \in 0 .. Len(q) |-> IF m = 0 THEN <<>>
                         ELSE IF q[m] \in ids THEN kept[m - 1] ELSE Append(kept[m - 1], q[m])]

\* The loop that Without abbreviates runs to its end.
LEMMA KeptExists ==
  ASSUME NEW q \in Seq(Requests), NEW ids
  PROVE  \E kept \in [0 .. Len(q) -> Seq(Requests)] : kept = Turn(q, ids, kept)
<1> DEFINE Turns(kept, m) == IF m = 0 THEN <<>>
                             ELSE IF q[m] \in ids THEN kept[m - 1]
                             ELSE Append(kept[m - 1], q[m])
           Good(k) == \E kept \in [0 .. k -> Seq(Requests)] :
                        \A m \in 0 .. k : kept[m] = Turns(kept, m)
           Bad == {k \in 0 .. Len(q) : ~Good(k)}
<1>1. Bad = {}
  <2> SUFFICES ASSUME Bad # {} PROVE FALSE
    OBVIOUS
  <2>1. PICK k \in Bad : \A m \in Bad : k <= m
    <3>1. Bad \in SUBSET Nat
      OBVIOUS
    <3> HIDE DEF Bad
    <3> QED BY <3>1, NatMin
  <2>2. CASE k = 0
    <3> DEFINE z == [m \in 0 .. 0 |-> <<>>]
    <3>1. z \in [0 .. 0 -> Seq(Requests)] /\ \A m \in 0 .. 0 : z[m] = Turns(z, m)
      OBVIOUS
    <3> QED BY <2>1, <2>2, <3>1
  <2>3. CASE k # 0
    <3>1. k - 1 \in 0 .. Len(q) /\ k \in 1 .. Len(q) /\ Good(k - 1)
      <4>1. k - 1 \in 0 .. Len(q) /\ k \in 1 .. Len(q) /\ ~(k <= k - 1)
        BY <2>3
      <4>2. k - 1 \notin Bad
        <5> HIDE DEF Bad
        <5> QED BY <2>1, <4>1
      <4> QED BY <4>1, <4>2
    <3>2. PICK f \in [0 .. k - 1 -> Seq(Requests)] : \A m \in 0 .. k - 1 : f[m] = Turns(f, m)
      BY <3>1
    <3> DEFINE last == IF q[k] \in ids THEN f[k - 1] ELSE Append(f[k - 1], q[k])
               g == [m \in 0 .. k |-> IF m = k THEN last ELSE f[m]]
    <3>3. last \in Seq(Requests)
      BY <3>1, <3>2
    <3>4. g \in [0 .. k -> Seq(Requests)]
      <4> HIDE DEF last
      <4> QED BY <3>1, <3>2, <3>3
    <3>5. ASSUME NEW m \in 0 .. k PROVE g[m] = Turns(g, m)
      <4>1. CASE m = k
        BY <4>1, <3>1
      <4>2. CASE m # k
        <5>1. m \in 0 .. k - 1 /\ g[m] = f[m] /\ (m # 0 => g[m - 1] = f[m - 1])
          BY <4>2, <3>1
        <5> HIDE DEF g
        <5> QED BY <5>1, <3>2
      <4> QED BY <4>1, <4>2
    <3>6. Good(k)
      <4> HIDE DEF g, Turns
      <4> QED BY <3>4, <3>5
    <3> QED BY <2>1, <3>6
  <2> QED BY <2>2, <2>3
<1>2. Good(Len(q))
  BY <1>1
<1>3. PICK kept \in [0 .. Len(q) -> Seq(Requests)] :
        \A m \in 0 .. Len(q) : kept[m] = Turns(kept, m)
  BY <1>2
<1>4. kept = [m \in 0 .. Len(q) |-> Turns(kept, m)]
  <2> HIDE DEF Turns
  <2> QED BY <1>3
<1> QED BY <1>4 DEF Turn

\* Without keeps what is not in ids, and only that, without repetition.
LEMMA WithoutElements ==
  ASSUME NEW q \in Seq(Requests), NEW ids
  PROVE  /\ Without(q, ids) \in Seq(Requests)
         /\ Elements(Without(q, ids)) = Elements(q) \ ids
         /\ NoRepeats(q) => NoRepeats(Without(q, ids))
<1> DEFINE f == CHOOSE kept : kept = Turn(q, ids, kept)
<1>1. Without(q, ids) = f[Len(q)]
  BY DEF Without, Turn
<1>2. Len(q) \in Nat /\ Len(q) \in 0 .. Len(q) /\ DOMAIN q = 1 .. Len(q)
  OBVIOUS
<1>3. \E kept \in [0 .. Len(q) -> Seq(Requests)] : kept = Turn(q, ids, kept)
  BY KeptExists
<1>4. f = Turn(q, ids, f)
  BY <1>3
<1> HIDE DEF f
<1>5. /\ f[0] = <<>>
      /\ \A m \in 1 .. Len(q) :
           f[m] = IF q[m] \in ids THEN f[m - 1] ELSE Append(f[m - 1], q[m])
  <2>1. \A m \in 0 .. Len(q) : f[m] = Turn(q, ids, f)[m]
    BY <1>4
  <2>2. 0 \in 0 .. Len(q) /\ \A m \in 1 .. Len(q) : m \in 0 .. Len(q) /\ m # 0
    BY <1>2
  <2> QED BY <2>1, <2>2 DEF Turn
<1> DEFINE Good(m) == /\ f[m] \in Seq(Requests)
                      /\ Elements(f[m]) = {q[i] : i \in 1 .. m} \ ids
                      /\ NoRepeats(q) => NoRepeats(f[m])
           Bad == {m \in 0 .. Len(q) : ~Good(m)}
<1>6. Bad = {}
  <2> SUFFICES ASSUME Bad # {} PROVE FALSE
    OBVIOUS
  <2>1. PICK k \in Bad : \A m \in Bad : k <= m
    <3>1. Bad \in SUBSET Nat
      BY <1>2
    <3> HIDE DEF Bad
    <3> QED BY <3>1, NatMin
  <2>2. k # 0
    <3>1. Good(0)
      BY <1>5 DEF Elements, NoRepeats
    <3> HIDE DEF Good
    <3> QED BY <3>1
  <2>3. k \in 1 .. Len(q) /\ k - 1 \in 0 .. Len(q) /\ k - 1 \in Nat /\ ~(k <= k - 1)
    BY <1>2, <2>2
  <2>4. Good(k - 1)
    <3>1. k - 1 \notin Bad
      <4> HIDE DEF Bad
      <4> QED BY <2>1, <2>3
    <3> HIDE DEF Good
    <3> QED BY <2>3, <3>1
  <2>5. {q[i] : i \in 1 .. k} = {q[i] : i \in 1 .. k - 1} \cup {q[k]}
    BY <2>3
  <2>6. q[k] \in Requests
    BY <1>2, <2>3
  <2>7. Good(k)
    <3>1. CASE q[k] \in ids
      <4>1. f[k] = f[k - 1]
        BY <1>5, <2>3, <3>1
      <4> QED BY <2>4, <2>5, <3>1, <4>1
    <3>2. CASE q[k] \notin ids
      <4>1. f[k] = Append(f[k - 1], q[k])
        BY <1>5, <2>3, <3>2
      <4>2. f[k] \in Seq(Requests)
        BY <2>4, <2>6, <4>1
      <4>3. Elements(f[k]) = Elements(f[k - 1]) \cup {q[k]}
        BY <2>4, <2>6, <4>1, AppendElements
      <4>4. NoRepeats(q) => NoRepeats(f[k])
        <5> SUFFICES ASSUME NoRepeats(q) PROVE NoRepeats(f[k])
          OBVIOUS
        <5>1. q[k] \notin Elements(f[k - 1])
          BY <1>2, <2>3, <2>4 DEF NoRepeats
        <5> QED BY <2>4, <2>6, <4>1, <5>1, AppendElements
      <4> QED BY <2>4, <2>5, <3>2, <4>2, <4>3, <4>4
    <3> QED BY <3>1, <3>2
  <2> HIDE DEF Good
  <2> QED BY <2>1, <2>7
<1>7. Good(Len(q))
  <2> HIDE DEF Good
  <2> QED BY <1>2, <1>6
<1>8. Elements(q) = {q[i] : i \in 1 .. Len(q)}
  BY <1>2 DEF Elements
<1> QED BY <1>1, <1>7, <1>8

-----------------------------------------------------------------------------
\* Precedes is a strict total order on requests.
LEMMA PrecedesOrder ==
  /\ \A r \in Requests : ~Precedes(r, r)
  /\ \A r, q \in Requests : r # q => Precedes(r, q) \/ Precedes(q, r)
  /\ \A r, q, x \in Requests : Precedes(r, q) /\ Precedes(q, x) => Precedes(r, x)
<1>1. \A r \in Requests : r \in Int /\ Priority[r] \in Int
  BY SchedulerAssumption
<1> QED BY <1>1 DEF Precedes

\* Of finitely many requests one goes last.
LEMMA GoesLast ==
  ASSUME NEW S \in SUBSET Requests, S # {}, IsFiniteSet(S)
  PROVE  \E m \in S : \A x \in S : x = m \/ Precedes(x, m)
<1> DEFINE Good(t) == \E m \in t : \A x \in t : x = m \/ Precedes(x, m)
           Bad == {t \in SUBSET S : t # {} /\ ~Good(t)}
<1>1. Bad = {}
  <2> SUFFICES ASSUME Bad # {} PROVE FALSE
    OBVIOUS
  <2>1. \A t \in Bad : IsFiniteSet(t)
    BY FS_Subset
  <2>2. PICK t \in Bad : \A u \in Bad : u \subseteq t => u = t
    <3> HIDE DEF Bad
    <3>1. Bad \in SUBSET SUBSET S
      BY DEF Bad
    <3> QED BY <3>1, SubsetMin
  <2>3. PICK x \in t : TRUE
    OBVIOUS
  <2>4. t \ {x} \notin Bad
    <3> HIDE DEF Bad
    <3> QED BY <2>2, <2>3
  <2>5. CASE t = {x}
    BY <2>5
  <2>6. CASE t # {x}
    <3>1. PICK m \in t \ {x} : \A y \in t \ {x} : y = m \/ Precedes(y, m)
      BY <2>3, <2>4, <2>6
    <3>2. m \in Requests /\ x \in Requests /\ t \subseteq Requests /\ m # x
      BY <3>1, <2>3
    <3>3. CASE Precedes(x, m)
      BY <3>1, <3>3
    <3>4. CASE Precedes(m, x)
      <4>1. \A y \in t : y = x \/ Precedes(y, x)
        BY <3>1, <3>2, <3>4, PrecedesOrder
      <4> QED BY <2>3, <4>1
    <3> QED BY <3>2, <3>3, <3>4, PrecedesOrder
  <2> QED BY <2>5, <2>6
<1> QED BY <1>1

IsSorted(q) == \A i, j \in DOMAIN q : i < j => Precedes(q[i], q[j])

\* Finitely many requests can be put in the order in which they go.
LEMMA SortedExists ==
  ASSUME NEW S \in SUBSET Requests, IsFiniteSet(S)
  PROVE  \E q \in [1 .. Cardinality(S) -> S] : IsSorted(q)
<1> DEFINE Good(t) == \E q \in [1 .. Cardinality(t) -> t] : IsSorted(q)
           Bad == {t \in SUBSET S : ~Good(t)}
<1>1. Bad = {}
  <2> SUFFICES ASSUME Bad # {} PROVE FALSE
    OBVIOUS
  <2>1. \A t \in Bad : IsFiniteSet(t)
    BY FS_Subset
  <2>2. PICK t \in Bad : \A u \in Bad : u \subseteq t => u = t
    <3> HIDE DEF Bad
    <3>1. Bad \in SUBSET SUBSET S
      BY DEF Bad
    <3> QED BY <3>1, SubsetMin
  <2>3. t # {}
    <3> DEFINE q == [i \in {} |-> 0]
    <3>1. Cardinality({}) = 0 /\ q \in [1 .. 0 -> {}] /\ IsSorted(q)
      BY FS_EmptySet DEF IsSorted
    <3>2. Good({})
      BY <3>1
    <3> QED BY <3>2
  <2>4. t \subseteq Requests /\ IsFiniteSet(t)
    BY <2>1
  <2>5. PICK m \in t : \A x \in t : x = m \/ Precedes(x, m)
    BY <2>3, <2>4, GoesLast
  <2>6. t \ {m} \notin Bad
    <3> HIDE DEF Bad
    <3> QED BY <2>2, <2>5
  <2>7. PICK q \in [1 .. Cardinality(t \ {m}) -> t \ {m}] : IsSorted(q)
    BY <2>6
  <2> DEFINE n == Cardinality(t)
  <2>8. n \in Nat \ {0} /\ Cardinality(t \ {m}) = n - 1
    BY <2>4, <2>5, FS_RemoveElement, FS_CardinalityType, FS_EmptySet
  <2> HIDE DEF n
  <2> DEFINE p == [i \in 1 .. n |-> IF i = n THEN m ELSE q[i]]
  <2>9. \A i \in 1 .. n : i # n => i \in 1 .. n - 1 /\ q[i] \in t \ {m}
    <3>1. q \in [1 .. n - 1 -> t \ {m}]
      BY <2>7, <2>8
    <3>2. \A i \in 1 .. n : i # n => i \in 1 .. n - 1
      BY <2>8
    <3> QED BY <3>1, <3>2
  <2>10. p \in [1 .. n -> t]
    BY <2>5, <2>9
  <2>11. ASSUME NEW i \in 1 .. n, NEW j \in 1 .. n, i < j PROVE Precedes(p[i], p[j])
    <3>1. i # n
      BY <2>8, <2>11
    <3>2. CASE j = n
      BY <2>5, <2>9, <3>1, <3>2
    <3>3. CASE j # n
      <4>1. i \in DOMAIN q /\ j \in DOMAIN q /\ p[i] = q[i] /\ p[j] = q[j]
        BY <2>7, <2>8, <2>9, <3>1, <3>3
      <4> QED BY <2>7, <2>11, <4>1 DEF IsSorted
    <3> QED BY <3>2, <3>3
  <2>12. Good(t)
    <3>1. IsSorted(p)
      BY <2>10, <2>11 DEF IsSorted
    <3> HIDE DEF p
    <3> QED BY <2>10, <3>1 DEF n
  <2> QED BY <2>12
<1> QED BY <1>1

\* A queue, FCFS or by priority, holds what was put into it, once.
LEMMA QueueElements ==
  ASSUME NEW q \in Seq(Requests), NoRepeats(q)
  PROVE  /\ Queue(q) \in Seq(Requests)
         /\ Elements(Queue(q)) = Elements(q)
         /\ NoRepeats(Queue(q))
<1>1. CASE Policy = "fcfs"
  BY <1>1 DEF Queue
<1>2. CASE Policy # "fcfs"
  <2> DEFINE S == Elements(q)
             n == Cardinality(S)
             p == Sorted(S)
  <2>1. S \in SUBSET Requests /\ IsFiniteSet(S) /\ n \in Nat
    <3>1. Len(q) \in Nat /\ DOMAIN q = 1 .. Len(q) /\ q \in [1 .. Len(q) -> Requests]
      OBVIOUS
    <3>2. q \in Surjection(1 .. Len(q), S)
      BY <3>1 DEF Surjection, Elements
    <3>3. IsFiniteSet(1 .. Len(q))
      BY <3>1, FS_Interval
    <3>4. IsFiniteSet(S)
      BY <3>2, <3>3, FS_Surjection
    <3> QED BY <3>1, <3>4, FS_CardinalityType DEF Elements
  <2>2. p = CHOOSE x \in [1 .. n -> S] : IsSorted(x)
    BY DEF Sorted, IsSorted
  <2>3. \E x \in [1 .. n -> S] : IsSorted(x)
    BY <2>1, SortedExists
  <2> HIDE DEF S, n, p
  <2>4. p \in [1 .. n -> S] /\ IsSorted(p)
    BY <2>2, <2>3
  <2>5. \A i, j \in 1 .. n : p[i] = p[j] => i = j
    <3> SUFFICES ASSUME NEW i \in 1 .. n, NEW j \in 1 .. n, p[i] = p[j], i # j PROVE FALSE
      OBVIOUS
    <3>1. i < j \/ j < i
      BY <2>1
    <3>2. p[i] \in Requests
      BY <2>1, <2>4
    <3> QED BY <2>4, <3>1, <3>2, PrecedesOrder DEF IsSorted
  <2>6. p \in Injection(1 .. n, S)
    BY <2>4, <2>5 DEF Injection, IsInjective
  <2>7. Cardinality(1 .. n) = n /\ IsFiniteSet(S) /\ n = Cardinality(S)
    BY <2>1, FS_Interval DEF n
  <2>8. p \in Surjection(1 .. n, S)
    BY <2>6, <2>7, FS_Injection
  <2>9. p \in Seq(Requests) /\ DOMAIN p = 1 .. n
    BY <2>1, <2>4
  <2>10. Elements(p) = S
    BY <2>8, <2>9 DEF Surjection, Elements
  <2> QED BY <1>2, <2>5, <2>9, <2>10 DEF Queue, S, p, NoRepeats
<1> QED BY <1>1, <1>2

\* A request occurs in a queue without repetition once or not at all.
LEMMA OccursOnce ==
  ASSUME NEW q \in Seq(Requests), NoRepeats(q), NEW r
  PROVE  Cardinality({i \in DOMAIN q : q[i] = r}) = IF r \in Elements(q) THEN 1 ELSE 0
<1>1. CASE r \in Elements(q)
  <2>1. PICK i \in DOMAIN q : q[i] = r
    BY <1>1 DEF Elements
  <2>2. {j \in DOMAIN q : q[j] = r} = {i}
    BY <2>1 DEF NoRepeats
  <2> QED BY <1>1, <2>2, FS_Singleton
<1>2. CASE r \notin Elements(q)
  <2>1. {j \in DOMAIN q : q[j] = r} = {}
    BY <1>2 DEF Elements
  <2> QED BY <1>2, <2>1, FS_EmptySet
<1> QED BY <1>1, <1>2

-----------------------------------------------------------------------------
(***************************************************************************)
(* Sums over a batch, as the recursive function they are computed with.    *)
(***************************************************************************)
First(T) == CHOOSE r \in T : TRUE

TokenSum(g, batch, A) ==
  g = [T \in SUBSET A |->
         IF T = {} THEN 0
         ELSE batch[First(T)].num_tokens + g[T \ {First(T)}]]

\* What TokenSum says of one set.
LEMMA TokenSumAt ==
  ASSUME NEW g, NEW batch, NEW A, TokenSum(g, batch, A), NEW T \in SUBSET A
  PROVE  /\ T = {} => g[T] = 0
         /\ T # {} => /\ First(T) \in T
                      /\ g[T] = batch[First(T)].num_tokens + g[T \ {First(T)}]
<1>1. g[T] = IF T = {} THEN 0 ELSE batch[First(T)].num_tokens + g[T \ {First(T)}]
  BY DEF TokenSum
<1>2. T # {} => First(T) \in T
  BY DEF First
<1> QED BY <1>1, <1>2

\* Two batches that agree on a finite set have the same sum over it.
LEMMA TokenSumUnique ==
  ASSUME NEW g, NEW h, NEW batch, NEW other, NEW A, NEW B,
         TokenSum(g, batch, A), TokenSum(h, other, B),
         NEW S, IsFiniteSet(S), S \subseteq A \cap B,
         \A r \in S : batch[r].num_tokens = other[r].num_tokens
  PROVE  g[S] = h[S]
<1> DEFINE Bad == {T \in SUBSET S : g[T] # h[T]}
<1> SUFFICES ASSUME Bad # {} PROVE FALSE
  OBVIOUS
<1>3. PICK T \in Bad : \A t \in Bad : t \subseteq T => t = T
  <2> HIDE DEF Bad
  <2>1. Bad \in SUBSET SUBSET S
    BY DEF Bad
  <2> QED BY <2>1, SubsetMin
<1>4. T \in SUBSET A /\ T \in SUBSET B /\ T \in SUBSET S /\ g[T] # h[T]
  BY <1>3
<1>5. T # {}
  BY <1>4, TokenSumAt
<1> DEFINE r == First(T)
<1>6. /\ r \in T
      /\ g[T] = batch[r].num_tokens + g[T \ {r}]
      /\ h[T] = other[r].num_tokens + h[T \ {r}]
  BY <1>4, <1>5, TokenSumAt
<1> HIDE DEF r
<1>7. g[T \ {r}] = h[T \ {r}]
  BY <1>3, <1>4, <1>6
<1> QED BY <1>4, <1>6, <1>7

\* There is such a sum for every finite batch.
LEMMA TokenSumExists ==
  ASSUME NEW batch, NEW S, IsFiniteSet(S)
  PROVE  \E g : TokenSum(g, batch, S)
<1> DEFINE Good(T) == \E g : TokenSum(g, batch, T)
           Bad == {T \in SUBSET S : ~Good(T)}
<1> SUFFICES ASSUME Bad # {} PROVE FALSE
  OBVIOUS
<1>3. PICK T \in Bad : \A t \in Bad : t \subseteq T => t = T
  <2> HIDE DEF Bad
  <2>1. Bad \in SUBSET SUBSET S
    BY DEF Bad
  <2> QED BY <2>1, SubsetMin
<1>4. \A U \in SUBSET T : U # T => \E g : TokenSum(g, batch, U)
  BY <1>3
<1> DEFINE G(U) == CHOOSE g : TokenSum(g, batch, U)
           Rest(U) == U \ {First(U)}
           val(U) == IF U = {} THEN 0
                     ELSE batch[First(U)].num_tokens + G(Rest(U))[Rest(U)]
           all == [U \in SUBSET T |-> val(U)]
<1>5. \A U \in SUBSET T : U # T => TokenSum(G(U), batch, U)
  BY <1>4
<1>6. \A U \in SUBSET T : U # {} => First(U) \in U /\ Rest(U) \in SUBSET T /\ Rest(U) # T
  BY DEF First
<1>7. \A U \in SUBSET T : IsFiniteSet(U)
  BY <1>3, FS_Subset
<1> HIDE DEF G
<1>8. ASSUME NEW U \in SUBSET T, U # T PROVE G(U)[U] = val(U)
  <2>1. TokenSum(G(U), batch, U)
    BY <1>5, <1>8
  <2>2. CASE U = {}
    BY <2>1, <2>2, TokenSumAt
  <2>3. CASE U # {}
    <3>1. G(U)[U] = batch[First(U)].num_tokens + G(U)[Rest(U)]
      BY <2>1, <2>3, TokenSumAt
    <3>2. TokenSum(G(Rest(U)), batch, Rest(U)) /\ IsFiniteSet(Rest(U)) /\ Rest(U) \subseteq U
      BY <1>5, <1>6, <1>7, <2>3
    <3>3. G(U)[Rest(U)] = G(Rest(U))[Rest(U)]
      <4> HIDE DEF Rest
      <4>1. Rest(U) \subseteq U \cap Rest(U)
        BY <3>2
      <4> QED BY <2>1, <3>2, <4>1, TokenSumUnique
    <3> QED BY <2>3, <3>1, <3>3
  <2> QED BY <2>2, <2>3
<1>9. \A U \in SUBSET T : U # {} => val(U) = batch[First(U)].num_tokens + all[Rest(U)]
  <2> SUFFICES ASSUME NEW U \in SUBSET T, U # {}
               PROVE  val(U) = batch[First(U)].num_tokens + all[Rest(U)]
    OBVIOUS
  <2>1. Rest(U) \in SUBSET T /\ Rest(U) # T
    BY <1>6
  <2> HIDE DEF Rest
  <2>2. all[Rest(U)] = val(Rest(U))
    BY <2>1
  <2>3. G(Rest(U))[Rest(U)] = val(Rest(U))
    BY <1>8, <2>1
  <2> HIDE DEF all
  <2> QED BY <2>2, <2>3
<1>10. TokenSum(all, batch, T)
  <2>1. all = [U \in SUBSET T |-> IF U = {} THEN 0 ELSE batch[First(U)].num_tokens + all[Rest(U)]]
    <3> DEFINE right == [U \in SUBSET T |->
                           IF U = {} THEN 0 ELSE batch[First(U)].num_tokens + all[Rest(U)]]
    <3>1. \A U \in SUBSET T : all[U] = right[U]
      <4> HIDE DEF Rest
      <4>1. \A U \in SUBSET T : all[U] = val(U) /\ (U = {} => val(U) = 0)
        OBVIOUS
      <4> HIDE DEF all, val
      <4> QED BY <1>9, <4>1
    <3> QED BY <3>1
  <2> HIDE DEF all
  <2> QED BY <2>1 DEF TokenSum
<1> QED BY <1>3, <1>10

\* A sum of integers is an integer.
LEMMA TokenSumInt ==
  ASSUME NEW g, NEW batch, NEW A, TokenSum(g, batch, A),
         NEW S \in SUBSET A, IsFiniteSet(S), \A r \in S : batch[r].num_tokens \in Int
  PROVE  g[S] \in Int
<1> DEFINE Bad == {T \in SUBSET S : g[T] \notin Int}
<1> SUFFICES ASSUME Bad # {} PROVE FALSE
  OBVIOUS
<1>2. PICK T \in Bad : \A t \in Bad : t \subseteq T => t = T
  <2> HIDE DEF Bad
  <2>1. Bad \in SUBSET SUBSET S
    BY DEF Bad
  <2> QED BY <2>1, SubsetMin
<1>3. T \in SUBSET A /\ T \in SUBSET S /\ g[T] \notin Int
  BY <1>2
<1>4. T # {}
  <2>1. T = {} => g[T] = 0
    BY <1>3, TokenSumAt
  <2> QED BY <1>3, <2>1
<1> DEFINE r == First(T)
<1>5. r \in T /\ g[T] = batch[r].num_tokens + g[T \ {r}]
  BY <1>3, <1>4, TokenSumAt
<1> HIDE DEF r
<1>6. g[T \ {r}] \in Int
  BY <1>2, <1>3, <1>5
<1> QED BY <1>3, <1>5, <1>6

\* The order in which a sum is taken does not matter: any element may come first.
LEMMA TokenSumAny ==
  ASSUME NEW g, NEW batch, NEW A, TokenSum(g, batch, A),
         NEW S \in SUBSET A, IsFiniteSet(S), \A r \in S : batch[r].num_tokens \in Int,
         NEW x \in S
  PROVE  g[S] = batch[x].num_tokens + g[S \ {x}]
<1>1. \A U \in SUBSET A : U # {} =>
        \E r \in U : g[U] = batch[r].num_tokens + g[U \ {r}]
  <2> SUFFICES ASSUME NEW U \in SUBSET A, U # {}
               PROVE  \E r \in U : g[U] = batch[r].num_tokens + g[U \ {r}]
    OBVIOUS
  <2>1. First(U) \in U /\ g[U] = batch[First(U)].num_tokens + g[U \ {First(U)}]
    BY TokenSumAt
  <2> QED BY <2>1
<1> DEFINE Wrong(T) == \E y \in T : g[T] # batch[y].num_tokens + g[T \ {y}]
           Bad == {T \in SUBSET S : Wrong(T)}
<1> SUFFICES ASSUME Bad # {} PROVE FALSE
  OBVIOUS
<1>2. PICK T \in Bad : \A t \in Bad : t \subseteq T => t = T
  <2> HIDE DEF Bad
  <2>1. Bad \in SUBSET SUBSET S
    BY DEF Bad
  <2> QED BY <2>1, SubsetMin
<1>3. PICK y \in T : g[T] # batch[y].num_tokens + g[T \ {y}]
  BY <1>2
<1>4. T \in SUBSET A /\ T \in SUBSET S /\ T # {}
  BY <1>2, <1>3
<1>5. \A t \in SUBSET S : t \subseteq T /\ t # T => ~Wrong(t)
  BY <1>2
<1> HIDE DEF Bad
<1>6. PICK r \in T : g[T] = batch[r].num_tokens + g[T \ {r}]
  BY <1>1, <1>4
<1>7. r # y
  BY <1>3, <1>6
<1>8. ~Wrong(T \ {r}) /\ ~Wrong(T \ {y})
  <2> HIDE DEF Wrong
  <2> QED BY <1>3, <1>4, <1>5, <1>6
<1>9. /\ g[T \ {r}] = batch[y].num_tokens + g[(T \ {r}) \ {y}]
      /\ g[T \ {y}] = batch[r].num_tokens + g[(T \ {y}) \ {r}]
  BY <1>4, <1>6, <1>7, <1>8
<1>10. (T \ {r}) \ {y} = (T \ {y}) \ {r} /\ (T \ {y}) \ {r} \in SUBSET S
  BY <1>4
<1>11. g[(T \ {y}) \ {r}] \in Int
  <2> DEFINE U == (T \ {y}) \ {r}
  <2>1. U \in SUBSET A /\ IsFiniteSet(U) /\ \A q \in U : batch[q].num_tokens \in Int
    BY <1>10, FS_Subset
  <2> HIDE DEF U
  <2>2. g[U] \in Int
    BY <2>1, TokenSumInt
  <2> QED BY <2>2 DEF U
<1>12. batch[r].num_tokens \in Int /\ batch[y].num_tokens \in Int
  BY <1>4, <1>6
<1> DEFINE rest == g[(T \ {y}) \ {r}]
<1>13. /\ g[T \ {r}] = batch[y].num_tokens + rest /\ g[T \ {y}] = batch[r].num_tokens + rest
       /\ rest \in Int
  BY <1>9, <1>10, <1>11
<1> HIDE DEF rest, Wrong
<1> QED BY <1>3, <1>6, <1>12, <1>13

-----------------------------------------------------------------------------
(***************************************************************************)
(* What CoreInv says, and that every step keeps it.                        *)
(***************************************************************************)
Waiting == {r \in Requests : status[r] = "WAITING"}
Running == {r \in Requests : status[r] = "RUNNING"}

\* A waiting request is in one of three queues, once; the running list has everyone
\* whose status says so, but the request that was in hand when allocate raised.
Places ==
  /\ NoRepeats(waiting) /\ NoRepeats(skipped_waiting) /\ NoRepeats(step_skipped)
  /\ Elements(waiting) \cap Elements(skipped_waiting) = {}
  /\ Elements(waiting) \cap Elements(step_skipped) = {}
  /\ Elements(skipped_waiting) \cap Elements(step_skipped) = {}
  /\ Elements(waiting) \cup Elements(skipped_waiting) \cup Elements(step_skipped) = Waiting
  /\ step_skipped # <<>> => pc \in {"phase2", "raised"}
  /\ running \subseteq Running
  /\ IF pc = "raised" THEN \E r \in Requests : Running \ running = {r}
                      ELSE Running \subseteq running

\* Slots are held by running requests and by requests that have ended.
SlotsHeld ==
  /\ \A r, q \in Slot!Holders : req_to_slot[r] = req_to_slot[q] => r = q
  /\ running \subseteq Slot!Holders
  /\ Slot!Holders \subseteq running \cup Ended
  /\ freed \subseteq Slot!Holders \cap Ended
  /\ freed # {} => pc \in {"update", "condense"}

\* num_computed_tokens before this step: schedule() ends by adding the batch's tokens.
Before(r) ==
  IF pc \in {"execute", "failed", "aborts", "update", "condense"} /\ r \in DOMAIN request_data
  THEN num_computed_tokens[r] - request_data[r].num_tokens
  ELSE num_computed_tokens[r]

\* What schedule() wrote down for a request stays true until the step is over.
EntryIsTrue(r) ==
  LET d == request_data[r] IN
  /\ d.num_computed_tokens = Before(r)
  /\ d.is_decode <=> Before(r) >= prompt_len[r]
  /\ d.is_last_prefill <=> ~d.is_decode /\ Before(r) + d.num_tokens >= prompt_len[r]
  /\ IF d.is_decode THEN d.num_tokens = 1 ELSE Before(r) + d.num_tokens <= prompt_len[r]
  /\ Before(r) + d.num_tokens < MaxModelLen
  /\ d.slot_index = req_to_slot[r]

\* A running request is visited once, and is scheduled, finished or skipped.
Batch ==
  /\ \A r \in DOMAIN request_data : EntryIsTrue(r)
  /\ finished_req_ids \cap DOMAIN request_data = {}
  /\ to_visit \cap (finished_req_ids \cup DOMAIN request_data) = {}
  /\ to_visit # {} => pc = "phase1"
  /\ pc \in {"phase1", "phase2", "execute", "aborts"} =>
       finished_req_ids \cup DOMAIN request_data \subseteq running
  /\ pc = "ready" => request_data = NoRequests /\ finished_req_ids = {}
  /\ pc \in {"ready", "phase1", "phase2", "raised", "execute", "failed"} =>
       sampled = NoRequests
  /\ pc \in {"aborts", "update"} =>
       DOMAIN sampled = {r \in DOMAIN request_data : IsSampled(request_data[r])}

\* num_computed_tokens without what has not been delivered yet.
Settled(r) == IF pc = "condense" THEN num_computed_tokens[r] ELSE Before(r)

\* A running request that has output has absorbed its prompt and its output but the
\* last token; it is not scheduled for more than it may have.
OnTrack(r) ==
  /\ IF output_tokens[r] > 0
     THEN Settled(r) = prompt_len[r] + output_tokens[r] - 1
     ELSE Settled(r) < prompt_len[r]
  /\ delivered[r].tokens = output_tokens[r]
  /\ pc # "condense" /\ r \in DOMAIN request_data /\ request_data[r].is_decode =>
       output_tokens[r] < max_tokens[r]

\* How far the requests are, before, while and after they run.
Progress ==
  /\ \A r \in Waiting \cup Running : prompt_len[r] \in PromptLens /\ max_tokens[r] \in MaxTokens
  /\ \A r \in Requests : status[r] \in {"NEW", "WAITING"} =>
       num_computed_tokens[r] = 0 /\ delivered[r].tokens = 0
  /\ \A r \in Requests : status[r] \in {"NEW", "WAITING", "RUNNING"} =>
       delivered[r].finishes = 0 /\ delivered[r].reason = "none"
  /\ \A r \in running : OnTrack(r)
  /\ \A r \in Requests : /\ delivered[r].tokens <= max_tokens[r]
                         /\ prompt_len[r] + delivered[r].tokens <= MaxModelLen

CoreInv == TypeOK /\ Places /\ SlotsHeld /\ Batch /\ Progress

\* The step never spends more than its budget.
Budget ==
  TotalTokens(DOMAIN request_data) + (IF pc \in {"phase1", "phase2"} THEN token_budget ELSE 0)
    <= MaxNumBatchedTokens

Long == {r \in running : Remaining(r) > ChunkedPrefillThreshold}

\* partial_prefills counts at least the long prompts, so its limit is theirs.
LongPrefills ==
  MaxLongPartialPrefills > 0 =>
    /\ Cardinality(Long) <= MaxLongPartialPrefills
    /\ pc = "phase2" => Cardinality(Long) <= partial_prefills

\* Whose state a slot holds, and whose last token, once the model has run.
OwnState ==
  \A r \in running \ relocated :
    LET slot == req_to_slot[r]
        ran  == pc \in {"aborts", "update"} /\ r \in DOMAIN sampled
    IN  /\ (IF pc \in {"aborts", "update"} THEN num_computed_tokens[r] ELSE Settled(r)) > 0
             => state_of[slot] = r
        /\ output_tokens[r] > 0 \/ ran => last_token[slot] = r

AmpleBudget == MaxNumBatchedTokens > ChunkedPrefillThreshold * (MaxNumSeqs - 1)

\* No request of the batch took more than a chunk of the budget.
BudgetLeft ==
  pc \in {"phase1", "phase2"} =>
    token_budget + ChunkedPrefillThreshold * Cardinality(DOMAIN request_data)
      >= MaxNumBatchedTokens

\* With an ample budget a step finishes only requests at a limit.
AtLimit(r) ==
  \/ output_tokens[r] = max_tokens[r]
  \/ prompt_len[r] + output_tokens[r] = MaxModelLen
  \/ prompt_len[r] + 1 >= MaxModelLen

FinishedAtLimit ==
  /\ BudgetLeft
  /\ pc # "condense" => \A r \in finished_req_ids \cap running : AtLimit(r)
  /\ \A r \in Requests : delivered[r].reason = "length" =>
       \/ delivered[r].tokens = max_tokens[r]
       \/ prompt_len[r] + delivered[r].tokens = MaxModelLen
       \/ prompt_len[r] + 1 >= MaxModelLen

\* Aborts that go through aborts_queue give every slot back and no final output.
QueuedAbortsOnly ==
  /\ Slot!Holders = running \cup freed
  /\ pc # "raised"
  /\ \A r \in Requests :
       delivered[r].finishes = IF status[r] = "FINISHED_STOPPED" THEN 1 ELSE 0

\* Aborts between two steps leave slots behind, which is why allocate raises.
SlotsLeak == pc = "raised" => Slot!Holders \cap Ended # {}

-----------------------------------------------------------------------------
(***************************************************************************)
(* Everything that may happen to the engine.                               *)
(***************************************************************************)
AddBetween ==
  /\ pc = "ready"
  /\ \E r \in Requests, prompt \in PromptLens, limit \in MaxTokens : AddRequest(r, prompt, limit)
  /\ UNCHANGED <<req_to_slot, pc, scheduleVars, outputVars, freed, delivered,
                 aborts_queue, sampled, gpuVars>>

AbortBetween(ids) ==
  /\ pc \in {"ready", "raised", "failed"}
  /\ FinishRequests(ids)
  /\ delivered' = [r \in Requests |->
       IF r \in ids \cap Unfinished
       THEN [delivered[r] EXCEPT !.finishes = @ + 1, !.reason = "abort"]
       ELSE delivered[r]]
  /\ UNCHANGED <<req_to_slot, pc, scheduleVars, outputVars, freed, aborts_queue,
                 sampled, gpuVars>>

RejectBetween(r) ==
  /\ pc = "ready" /\ status[r] = "NEW"
  /\ status' = [status EXCEPT ![r] = "FINISHED_ABORTED"]
  /\ delivered' = [delivered EXCEPT ![r].finishes = @ + 1, ![r].reason = "abort"]
  /\ UNCHANGED <<prompt_len, max_tokens, num_computed_tokens, queueVars, req_to_slot, pc,
                 scheduleVars, outputVars, freed, aborts_queue, sampled, gpuVars>>

QueueIds ==
  /\ aborts_queue' \in SUBSET Requests
  /\ UNCHANGED <<schedulerVars, sampled, gpuVars>>

ModelIdle == UNCHANGED <<aborts_queue, sampled, gpuVars>>

Drive ==
  \/ AddBetween
  \/ \E ids \in SUBSET Requests : AbortBetween(ids)
  \/ \E r \in Requests : RejectBetween(r)
  \/ QueueIds

\* The engine under anything that may drive it: the busy loop of its process, LLM, or a
\* client that does not keep to either.
DrivenSpec == Init /\ [][Step \/ Drive]_vars

-----------------------------------------------------------------------------
\* TypeOK in parts, one for the variables that change together.
RequestTypes ==
  /\ status \in [Requests -> Statuses]
  /\ prompt_len \in [Requests -> PromptLens \cup {0}]
  /\ max_tokens \in [Requests -> MaxTokens \cup {0}]
  /\ num_computed_tokens \in [Requests -> 0 .. MaxModelLen - 1]
QueueTypes ==
  /\ waiting \in Seq(Requests) /\ skipped_waiting \in Seq(Requests)
  /\ step_skipped \in Seq(Requests)
  /\ running \in SUBSET Requests
  /\ output_tokens \in [Requests -> Nat]
SlotTypes ==
  /\ req_to_slot \in [Requests -> Slot!Slots \cup {Slot!NoSlot}]
  /\ freed \in SUBSET Requests
StepTypes ==
  /\ pc \in {"ready", "phase1", "phase2", "raised", "execute", "failed", "aborts", "update",
             "condense"}
  /\ token_budget \in 0 .. MaxNumBatchedTokens
  /\ to_visit \in SUBSET running
  /\ partial_prefills \in Nat
BatchTypes ==
  /\ \E S \in SUBSET Requests : request_data \in [S -> RunDatas]
  /\ finished_req_ids \in SUBSET Requests
OutputTypes ==
  delivered \in [Requests -> [tokens : Nat, finishes : Nat,
                              reason : {"none", "length", "eos", "abort"}]]
GpuTypes ==
  /\ aborts_queue \in SUBSET Requests
  /\ \E S \in SUBSET Requests : sampled \in [S -> {"token", "eos"}]
  /\ state_of \in [Slot!Slots -> Requests \cup {Nobody, Mixed}]
  /\ last_token \in [Slot!Slots -> Requests \cup {Nobody, Mixed}]
  /\ min_prev_negative \in BOOLEAN
  /\ relocated \in SUBSET Requests

LEMMA TypeParts ==
  TypeOK <=> /\ RequestTypes /\ QueueTypes /\ SlotTypes /\ StepTypes
             /\ BatchTypes /\ OutputTypes /\ GpuTypes
  BY DEF TypeOK, RequestTypes, QueueTypes, SlotTypes, StepTypes, BatchTypes,
         OutputTypes, GpuTypes

\* What TypeOK says of a request, number by number.
LEMMA Numbers ==
  ASSUME TypeOK, NEW r \in Requests
  PROVE  /\ prompt_len[r] \in 0 .. MaxModelLen
         /\ max_tokens[r] \in Nat
         /\ num_computed_tokens[r] \in 0 .. MaxModelLen - 1
         /\ output_tokens[r] \in Nat
         /\ delivered[r].tokens \in Nat /\ delivered[r].finishes \in Nat
         /\ token_budget \in 0 .. MaxNumBatchedTokens
         /\ MaxModelLen \in Nat \ {0, 1} /\ MaxNumBatchedTokens \in Nat
         /\ ChunkedPrefillThreshold \in Nat \ {0}
         /\ IsDecode(r) <=> num_computed_tokens[r] >= prompt_len[r]
         /\ Remaining(r) = prompt_len[r] - num_computed_tokens[r]
<1>1. /\ prompt_len[r] \in PromptLens \cup {0} /\ max_tokens[r] \in MaxTokens \cup {0}
      /\ num_computed_tokens[r] \in 0 .. MaxModelLen - 1
      /\ token_budget \in 0 .. MaxNumBatchedTokens /\ output_tokens[r] \in Nat
  BY TypeParts DEF RequestTypes, QueueTypes, StepTypes
<1>2. delivered[r].tokens \in Nat /\ delivered[r].finishes \in Nat
  BY TypeParts DEF OutputTypes
<1>3. MaxModelLen \in Nat /\ \A n \in PromptLens : n \in 0 .. MaxModelLen
  BY SchedulerAssumption
<1>4. \A n \in MaxTokens : n \in Nat
  BY SchedulerAssumption
<1>5. prompt_len[r] \in 0 .. MaxModelLen /\ max_tokens[r] \in Nat
  BY <1>1, <1>3, <1>4
<1> QED BY <1>1, <1>2, <1>5, SchedulerAssumption DEF IsDecode, Remaining

\* What TypeOK says of the batch, entry by entry.
LEMMA BatchType ==
  ASSUME TypeOK
  PROVE  /\ DOMAIN request_data \subseteq Requests
         /\ request_data \in [DOMAIN request_data -> RunDatas]
         /\ \A r \in DOMAIN request_data :
              /\ request_data[r].num_tokens \in 1 .. MaxNumBatchedTokens
              /\ request_data[r].num_computed_tokens \in 0 .. MaxModelLen
              /\ request_data[r].slot_index \in Slot!Slots
              /\ request_data[r].is_decode \in BOOLEAN
              /\ request_data[r].is_last_prefill \in BOOLEAN
<1>1. PICK S \in SUBSET Requests : request_data \in [S -> RunDatas]
  BY TypeParts DEF BatchTypes
<1>2. DOMAIN request_data = S
  BY <1>1
<1>3. \A r \in S : request_data[r] \in RunDatas
  BY <1>1
<1>4. \A d \in RunDatas : /\ d.num_tokens \in 1 .. MaxNumBatchedTokens
                          /\ d.num_computed_tokens \in 0 .. MaxModelLen
                          /\ d.slot_index \in Slot!Slots
                          /\ d.is_decode \in BOOLEAN /\ d.is_last_prefill \in BOOLEAN
  BY DEF RunDatas
<1> QED BY <1>1, <1>2, <1>3, <1>4

\* The invariant holds before anything has happened.
LEMMA InitCore == Init => CoreInv
<1> SUFFICES ASSUME Init PROVE CoreInv
  OBVIOUS
<1> USE SchedulerAssumption DEF Init, SchedulerInit
<1>1. Slot!Holders = {}
  BY DEF Slot!Init, Slot!Holders
<1>2. Elements(<<>>) = {} /\ NoRepeats(<<>>)
  BY DEF Elements, NoRepeats
<1>3. DOMAIN request_data = {} /\ request_data \in [{} -> RunDatas]
      /\ sampled \in [{} -> {"token", "eos"}]
  BY DEF NoRequests
<1>4. TypeOK
  <2>1. req_to_slot \in [Requests -> Slot!Slots \cup {Slot!NoSlot}]
    BY DEF Slot!Init
  <2>2. delivered \in [Requests -> [tokens : Nat, finishes : Nat,
                                   reason : {"none", "length", "eos", "abort"}]]
    OBVIOUS
  <2>3. /\ status \in [Requests -> Statuses]
        /\ state_of \in [Slot!Slots -> Requests \cup {Nobody, Mixed}]
        /\ last_token \in [Slot!Slots -> Requests \cup {Nobody, Mixed}]
    BY DEF Statuses
  <2>4. num_computed_tokens \in [Requests -> 0 .. MaxModelLen - 1]
    OBVIOUS
  <2>5. /\ \E S \in SUBSET Requests : request_data \in [S -> RunDatas]
        /\ \E S \in SUBSET Requests : sampled \in [S -> {"token", "eos"}]
    BY <1>3
  <2>6. /\ prompt_len \in [Requests -> PromptLens \cup {0}]
        /\ max_tokens \in [Requests -> MaxTokens \cup {0}]
        /\ output_tokens \in [Requests -> Nat]
        /\ waiting \in Seq(Requests) /\ skipped_waiting \in Seq(Requests)
        /\ step_skipped \in Seq(Requests)
        /\ token_budget \in 0 .. MaxNumBatchedTokens /\ partial_prefills \in Nat
    OBVIOUS
  <2> QED BY <2>1, <2>2, <2>3, <2>4, <2>5, <2>6 DEF TypeOK
<1>5. Places
  BY <1>2 DEF Places, Waiting, Running
<1>6. SlotsHeld
  BY <1>1 DEF SlotsHeld
<1>7. Batch
  BY <1>3 DEF Batch
<1>8. Progress
  BY DEF Progress, Waiting, Running
<1> QED BY <1>4, <1>5, <1>6, <1>7, <1>8 DEF CoreInv

\* NumNew is the least of four numbers.
LEMMA NumNewLeast ==
  ASSUME TypeOK, NEW r \in Requests
  PROVE  /\ NumNew(r) \in Int
         /\ NumNew(r) <= (IF IsDecode(r) THEN 1 ELSE Remaining(r))
         /\ NumNew(r) <= ChunkedPrefillThreshold
         /\ NumNew(r) <= token_budget
         /\ NumNew(r) <= MaxModelLen - 1 - num_computed_tokens[r]
         /\ \/ NumNew(r) = (IF IsDecode(r) THEN 1 ELSE Remaining(r))
            \/ NumNew(r) = ChunkedPrefillThreshold
            \/ NumNew(r) = token_budget
            \/ NumNew(r) = MaxModelLen - 1 - num_computed_tokens[r]
<1> DEFINE a == IF IsDecode(r) THEN 1 ELSE Remaining(r)
           b == ChunkedPrefillThreshold
           c == token_budget
           d == MaxModelLen - 1 - num_computed_tokens[r]
<1>1. a \in Int /\ b \in Int /\ c \in Int /\ d \in Int
  BY Numbers
<1>2. NumNew(r) = CHOOSE x \in {a, b, c, d} : \A y \in {a, b, c, d} : x <= y
  BY DEF NumNew, MinOf
<1> HIDE DEF a, b, c, d
<1>3. \E x \in {a, b, c, d} : \A y \in {a, b, c, d} : x <= y
  BY <1>1
<1>4. NumNew(r) \in {a, b, c, d} /\ \A y \in {a, b, c, d} : NumNew(r) <= y
  BY <1>2, <1>3
<1> QED BY <1>1, <1>4 DEF a, b, c, d

\* What is in the batch entry that schedule() writes for r.
LEMMA EntryWritten ==
  ASSUME TypeOK, NEW r \in Requests, NumNew(r) > 0, NEW slot \in Slot!Slots
  PROVE  /\ RunData(r, slot) \in RunDatas
         /\ RunData(r, slot).num_tokens = NumNew(r)
         /\ RunData(r, slot).num_computed_tokens = num_computed_tokens[r]
         /\ RunData(r, slot).slot_index = slot
         /\ RunData(r, slot).is_decode <=> num_computed_tokens[r] >= prompt_len[r]
         /\ RunData(r, slot).is_last_prefill
              <=> ~IsDecode(r) /\ num_computed_tokens[r] + NumNew(r) >= prompt_len[r]
         /\ IF IsDecode(r) THEN NumNew(r) = 1
                           ELSE num_computed_tokens[r] + NumNew(r) <= prompt_len[r]
         /\ num_computed_tokens[r] + NumNew(r) < MaxModelLen
         /\ token_budget - NumNew(r) \in 0 .. MaxNumBatchedTokens
<1> USE SchedulerAssumption
<1>1. /\ num_computed_tokens[r] \in 0 .. MaxModelLen - 1
      /\ token_budget \in 0 .. MaxNumBatchedTokens
      /\ prompt_len[r] \in 0 .. MaxModelLen
  BY Numbers
<1>2. NumNew(r) \in 1 .. MaxNumBatchedTokens /\ token_budget - NumNew(r) \in 0 .. MaxNumBatchedTokens
  BY <1>1, NumNewLeast
<1>3. num_computed_tokens[r] \in 0 .. MaxModelLen
  BY <1>1
<1>4. RunData(r, slot) \in RunDatas
  BY <1>2, <1>3 DEF RunData, RunDatas, IsDecode, IsLastPrefill
<1>5. IF IsDecode(r) THEN NumNew(r) = 1
                     ELSE num_computed_tokens[r] + NumNew(r) <= prompt_len[r]
  BY <1>1, <1>2, NumNewLeast DEF IsDecode, Remaining
<1>6. num_computed_tokens[r] + NumNew(r) < MaxModelLen
  BY <1>1, <1>2, NumNewLeast
<1>7. IsLastPrefill(r, NumNew(r))
        <=> ~IsDecode(r) /\ num_computed_tokens[r] + NumNew(r) >= prompt_len[r]
  BY <1>1, <1>2 DEF IsLastPrefill, Remaining
<1> QED BY <1>2, <1>4, <1>5, <1>6, <1>7 DEF RunData, IsDecode

-----------------------------------------------------------------------------
\* Types: the requests.  ScheduleEnd counts the batch's tokens as computed.
LEMMA RequestTypesNext ==
  ASSUME CoreInv, Step \/ Drive PROVE RequestTypes'
<1> USE SchedulerAssumption DEF CoreInv
<1>0. RequestTypes
  BY TypeParts
<1>1. CASE UNCHANGED requestVars
  BY <1>0, <1>1 DEF requestVars, RequestTypes
<1>2. ASSUME NEW r \in Requests, Phase2Admit(r) \/ Phase2Raise(r) PROVE RequestTypes'
  BY <1>0, <1>2 DEF Phase2Admit, Phase2Raise, Phase2Pop, RequestTypes, Statuses
<1>3. CASE ScheduleEnd
  <2>1. UNCHANGED <<status, prompt_len, max_tokens>>
    BY <1>3 DEF ScheduleEnd
  <2>2. num_computed_tokens' =
         [r \in Requests |-> IF r \in DOMAIN request_data
                             THEN num_computed_tokens[r] + request_data[r].num_tokens
                             ELSE num_computed_tokens[r]]
    BY <1>3 DEF ScheduleEnd
  <2>3. ASSUME NEW r \in DOMAIN request_data
        PROVE  num_computed_tokens[r] + request_data[r].num_tokens \in 0 .. MaxModelLen - 1
    <3>1. r \in Requests /\ request_data[r].num_tokens \in 1 .. MaxNumBatchedTokens
      BY BatchType, <2>3
    <3>2. num_computed_tokens[r] + request_data[r].num_tokens < MaxModelLen
      BY <1>3, <2>3 DEF Batch, EntryIsTrue, Before, ScheduleEnd
    <3>3. num_computed_tokens[r] \in 0 .. MaxModelLen - 1 /\ MaxModelLen \in Nat
          /\ MaxNumBatchedTokens \in Nat
      <4> HIDE DEF CoreInv
      <4> QED BY <3>1, Numbers DEF CoreInv
    <3>4. request_data[r].num_tokens \in Nat
      BY <3>1, <3>3
    <3> QED BY <3>2, <3>3, <3>4
  <2> HIDE DEF CoreInv
  <2>4. num_computed_tokens' \in [Requests -> 0 .. MaxModelLen - 1]
    BY <1>0, <2>2, <2>3 DEF RequestTypes
  <2> QED BY <1>0, <2>1, <2>4 DEF RequestTypes
<1>4. ASSUME NEW ids, FinishRequests(ids) PROVE RequestTypes'
  BY <1>0, <1>4 DEF FinishRequests, RequestTypes, Statuses
<1>5. CASE Update
  BY <1>0, <1>5 DEF Update, UpdateFromOutput, RequestTypes, Statuses
<1>6. CASE AddBetween
  BY <1>0, <1>6 DEF AddBetween, AddRequest, RequestTypes, Statuses
<1>7. ASSUME NEW r \in Requests, RejectBetween(r) PROVE RequestTypes'
  BY <1>0, <1>7 DEF RejectBetween, RequestTypes, Statuses
<1>8. CASE \/ ScheduleStart \/ \E r \in Requests : Phase1Schedule(r)
           \/ \E r \in Requests : Phase1Finish(r)
           \/ \E r \in Requests : Phase1Skip(r)
           \/ Phase1End
           \/ \E r \in Requests : Phase2HoldBack(r)
           \/ Phase2Blocked \/ Execute \/ ExecuteRaises \/ Condense \/ QueueIds
  BY <1>1, <1>8 DEF ScheduleStart, Phase1Schedule, Phase1Finish, Phase1Skip, Phase1Visit,
     Phase1End, Phase2HoldBack, Phase2Pop, Phase2Blocked, Execute, ExecuteRaises, Condense,
     QueueIds, requestVars, schedulerVars
<1> QED
  BY <1>2, <1>3, <1>4, <1>5, <1>6, <1>7, <1>8
  DEF Step, Schedule, Drive, ProcessAbortsQueue, AbortBetween

-----------------------------------------------------------------------------
\* A request popped in phase 2 leaves its queue and the others as they were.
LEMMA Popped ==
  ASSUME TypeOK, Places, NEW r \in Requests, Phase2Pop(r)
  PROVE  /\ pc = "phase2" /\ r \in Waiting /\ r \notin Elements(step_skipped)
         /\ waiting' \in Seq(Requests) /\ NoRepeats(waiting')
         /\ skipped_waiting' \in Seq(Requests) /\ NoRepeats(skipped_waiting')
         /\ Elements(waiting') \subseteq Elements(waiting)
         /\ Elements(skipped_waiting') \subseteq Elements(skipped_waiting)
         /\ Elements(waiting') \cup Elements(skipped_waiting')
              = (Elements(waiting) \cup Elements(skipped_waiting)) \ {r}
<1>1. /\ waiting \in Seq(Requests) /\ skipped_waiting \in Seq(Requests)
      /\ NoRepeats(waiting) /\ NoRepeats(skipped_waiting)
      /\ Elements(waiting) \cap Elements(skipped_waiting) = {}
      /\ Elements(waiting) \cap Elements(step_skipped) = {}
      /\ Elements(skipped_waiting) \cap Elements(step_skipped) = {}
      /\ Elements(waiting) \cup Elements(skipped_waiting) \subseteq Waiting
  BY TypeParts DEF QueueTypes, Places
<1>2. pc = "phase2"
  BY DEF Phase2Pop, Phase2Open
<1>3. CASE /\ skipped_waiting # <<>> /\ r = Head(skipped_waiting)
           /\ skipped_waiting' = Tail(skipped_waiting) /\ UNCHANGED waiting
  <2>1. /\ r \in Elements(skipped_waiting) /\ skipped_waiting' \in Seq(Requests)
        /\ NoRepeats(skipped_waiting')
        /\ Elements(skipped_waiting') = Elements(skipped_waiting) \ {r}
    BY <1>1, <1>3, TailElements
  <2> QED BY <1>1, <1>2, <1>3, <2>1
<1>4. CASE /\ waiting # <<>> /\ r = Head(waiting)
           /\ waiting' = Tail(waiting) /\ UNCHANGED skipped_waiting
  <2>1. /\ r \in Elements(waiting) /\ waiting' \in Seq(Requests) /\ NoRepeats(waiting')
        /\ Elements(waiting') = Elements(waiting) \ {r}
    BY <1>1, <1>4, TailElements
  <2> QED BY <1>1, <1>2, <1>4, <2>1
<1> QED BY <1>3, <1>4 DEF Phase2Pop, Eligible

\* finish_requests takes the ids it finds out of every list it looks into.
LEMMA Finished ==
  ASSUME TypeOK, Places, NEW ids, FinishRequests(ids), UNCHANGED step_skipped,
         pc' = pc \/ (pc = "aborts" /\ pc' = "update")
  PROVE  /\ QueueTypes' /\ Places'
         /\ running' = running \ ids
         /\ Waiting' = Waiting \ (ids \cap Unfinished)
         /\ Running' = Running \ (ids \cap Unfinished)
         /\ Ended' = Ended \cup (ids \cap Unfinished)
<1>1. /\ waiting \in Seq(Requests) /\ skipped_waiting \in Seq(Requests)
      /\ step_skipped \in Seq(Requests)
      /\ running \in SUBSET Requests /\ output_tokens \in [Requests -> Nat]
      /\ status \in [Requests -> Statuses]
  BY TypeParts DEF QueueTypes, RequestTypes
<1>2. /\ status' = [r \in Requests |->
                  IF r \in ids \cap Unfinished THEN "FINISHED_ABORTED" ELSE status[r]]
      /\ running' = running \ ids
      /\ waiting' = Without(waiting, ids)
      /\ skipped_waiting' = Without(skipped_waiting, ids)
      /\ output_tokens' = [r \in Requests |->
                         IF r \in ids \cap running THEN 0 ELSE output_tokens[r]]
  BY DEF FinishRequests
<1>3. /\ waiting' \in Seq(Requests) /\ Elements(waiting') = Elements(waiting) \ ids
      /\ NoRepeats(waiting) => NoRepeats(waiting')
  BY <1>1, <1>2, WithoutElements
<1>4. /\ skipped_waiting' \in Seq(Requests)
      /\ Elements(skipped_waiting') = Elements(skipped_waiting) \ ids
      /\ NoRepeats(skipped_waiting) => NoRepeats(skipped_waiting')
  BY <1>1, <1>2, WithoutElements
<1>5. QueueTypes'
  BY <1>1, <1>2, <1>3, <1>4 DEF QueueTypes
<1>6. Unfinished = running \cup Elements(waiting) \cup Elements(skipped_waiting)
      /\ Unfinished \subseteq Requests
  BY <1>1 DEF Unfinished, Elements
<1>7. Waiting' = Waiting \ (ids \cap Unfinished) /\ Running' = Running \ (ids \cap Unfinished)
  BY <1>2 DEF Waiting, Running
<1>8. Ended' = Ended \cup (ids \cap Unfinished)
  BY <1>2, <1>6 DEF Ended
<1>9. Places'
  <2>1. /\ NoRepeats(waiting') /\ NoRepeats(skipped_waiting') /\ NoRepeats(step_skipped')
        /\ Elements(waiting') \cap Elements(skipped_waiting') = {}
        /\ Elements(waiting') \cap Elements(step_skipped') = {}
        /\ Elements(skipped_waiting') \cap Elements(step_skipped') = {}
    BY <1>3, <1>4 DEF Places
  <2>2. Elements(waiting') \cup Elements(skipped_waiting') \cup Elements(step_skipped') = Waiting'
    <3>1. Elements(step_skipped) \cap Unfinished = {}
      <4>1. Elements(step_skipped) \cap running = {}
        BY DEF Places, Waiting, Running
      <4> QED BY <4>1, <1>6 DEF Places
    <3> QED BY <1>3, <1>4, <1>6, <1>7, <3>1 DEF Places, Waiting, Running
  <2>3. step_skipped' # <<>> => pc' \in {"phase2", "raised"}
    BY DEF Places
  <2>4. running' \subseteq Running'
    BY <1>2, <1>6, <1>7 DEF Places, Waiting, Running
  <2>5. Running' \ running' = Running \ running
    BY <1>2, <1>6, <1>7 DEF Places, Waiting, Running
  <2>6. IF pc' = "raised" THEN \E r \in Requests : Running' \ running' = {r}
                          ELSE Running' \subseteq running'
    BY <2>5 DEF Places
  <2> QED BY <2>1, <2>2, <2>3, <2>4, <2>6 DEF Places
<1> QED BY <1>2, <1>5, <1>7, <1>8, <1>9

\* No step loses a request, duplicates one or leaves one behind in a list.
LEMMA PlacesNext ==
  ASSUME CoreInv, Step \/ Drive PROVE QueueTypes' /\ Places'
<1>0. /\ TypeOK /\ Places /\ QueueTypes /\ RequestTypes
      /\ waiting \in Seq(Requests) /\ skipped_waiting \in Seq(Requests)
      /\ step_skipped \in Seq(Requests)
  BY TypeParts DEF CoreInv, QueueTypes
<1>1. CASE UNCHANGED <<waiting, skipped_waiting, step_skipped, running, output_tokens, status>>
           /\ (pc' = pc \/ (pc # "raised" /\ pc' # "raised" /\ (pc # "phase2" \/ step_skipped = <<>>)))
  BY <1>0, <1>1 DEF QueueTypes, Places, Waiting, Running
<1>2. CASE ScheduleStart
  <2>1. step_skipped' = <<>> /\ pc' = "phase1" /\ pc = "ready"
        /\ UNCHANGED <<waiting, skipped_waiting, running, output_tokens, status>>
    BY <1>2 DEF ScheduleStart, requestVars, queueVars
  <2>2. step_skipped = <<>>
    BY <1>0, <2>1 DEF Places
  <2> QED BY <1>1, <2>1, <2>2
<1>3. ASSUME NEW r \in Requests, Phase2Admit(r) PROVE QueueTypes' /\ Places'
  <2>1. /\ status' = [status EXCEPT ![r] = "RUNNING"] /\ running' = running \cup {r}
        /\ output_tokens' = [output_tokens EXCEPT ![r] = 0]
        /\ UNCHANGED <<pc, step_skipped>> /\ Phase2Pop(r)
    BY <1>3 DEF Phase2Admit
  <2>2. Waiting' = Waiting \ {r} /\ Running' = Running \cup {r}
    BY <1>0, <2>1 DEF Waiting, Running, RequestTypes
  <2>3. pc = "phase2" /\ r \in Waiting /\ r \notin Elements(step_skipped)
    BY <1>0, <2>1, Popped
  <2>4. QueueTypes'
    BY <1>0, <2>1, Popped DEF QueueTypes
  <2> QED BY <1>0, <2>1, <2>2, <2>3, <2>4, Popped DEF Places
<1>4. ASSUME NEW r \in Requests, Phase2Raise(r) PROVE QueueTypes' /\ Places'
  <2>1. /\ status' = [status EXCEPT ![r] = "RUNNING"] /\ pc' = "raised"
        /\ UNCHANGED <<running, output_tokens, step_skipped>> /\ Phase2Pop(r)
    BY <1>4 DEF Phase2Raise
  <2>2. Waiting' = Waiting \ {r} /\ Running' = Running \cup {r}
    BY <1>0, <2>1 DEF Waiting, Running, RequestTypes
  <2>3. pc = "phase2" /\ r \in Waiting /\ r \notin Elements(step_skipped)
    BY <1>0, <2>1, Popped
  <2>4. QueueTypes'
    BY <1>0, <2>1, Popped DEF QueueTypes
  <2>5. Running' \ running' = {r}
    BY <1>0, <2>1, <2>2, <2>3 DEF Places, Waiting, Running
  <2> QED BY <1>0, <2>1, <2>2, <2>3, <2>4, <2>5, Popped DEF Places
<1>5. ASSUME NEW r \in Requests, Phase2HoldBack(r) PROVE QueueTypes' /\ Places'
  <2>1. /\ step_skipped' = Append(step_skipped, r)
        /\ UNCHANGED <<status, running, output_tokens, pc>> /\ Phase2Pop(r)
    BY <1>5 DEF Phase2HoldBack
  <2>2. Waiting' = Waiting /\ Running' = Running
    BY <2>1 DEF Waiting, Running
  <2>3. pc = "phase2" /\ r \in Waiting /\ r \notin Elements(step_skipped)
    BY <1>0, <2>1, Popped
  <2>4. /\ step_skipped' \in Seq(Requests)
        /\ Elements(step_skipped') = Elements(step_skipped) \cup {r}
        /\ NoRepeats(step_skipped')
    BY <1>0, <2>1, <2>3, AppendElements DEF Places
  <2>5. QueueTypes'
    BY <1>0, <2>1, <2>4, Popped DEF QueueTypes
  <2>6. r \notin Elements(waiting') /\ r \notin Elements(skipped_waiting')
    BY <1>0, <2>1, Popped
  <2> QED BY <1>0, <2>1, <2>2, <2>3, <2>4, <2>5, <2>6, Popped DEF Places
<1>6. CASE Phase2Blocked
  <2>1. /\ step_skipped' = step_skipped \o FirstOf(skipped_waiting) \o FirstOf(waiting)
        /\ skipped_waiting' = RestOf(skipped_waiting) /\ waiting' = RestOf(waiting)
        /\ UNCHANGED <<status, running, output_tokens, pc>> /\ pc = "phase2"
    BY <1>6 DEF Phase2Blocked, Phase2Open, requestVars
  <2>2. ASSUME NEW q \in Seq(Requests), NoRepeats(q)
        PROVE  /\ FirstOf(q) \in Seq(Requests) /\ RestOf(q) \in Seq(Requests)
               /\ NoRepeats(FirstOf(q)) /\ NoRepeats(RestOf(q))
               /\ Elements(FirstOf(q)) \cup Elements(RestOf(q)) = Elements(q)
               /\ Elements(FirstOf(q)) \cap Elements(RestOf(q)) = {}
    <3>1. CASE q = <<>>
      BY <2>2, <3>1 DEF FirstOf, RestOf, Elements
    <3>2. CASE q # <<>>
      <4>1. /\ Head(q) \in Requests /\ Tail(q) \in Seq(Requests) /\ NoRepeats(Tail(q))
            /\ Head(q) \in Elements(q) /\ Elements(Tail(q)) = Elements(q) \ {Head(q)}
        BY <2>2, <3>2, TailElements
      <4>2. /\ <<Head(q)>> \in Seq(Requests) /\ NoRepeats(<<Head(q)>>)
            /\ Elements(<<Head(q)>>) = {Head(q)}
        BY <4>1 DEF NoRepeats, Elements
      <4> QED BY <3>2, <4>1, <4>2 DEF FirstOf, RestOf
    <3> QED BY <3>1, <3>2
  <2>3. Waiting' = Waiting /\ Running' = Running
    BY <2>1 DEF Waiting, Running
  <2> DEFINE a == FirstOf(skipped_waiting)
             b == FirstOf(waiting)
             d == step_skipped \o a
  <2>4. /\ a \in Seq(Requests) /\ skipped_waiting' \in Seq(Requests)
        /\ NoRepeats(a) /\ NoRepeats(skipped_waiting')
        /\ Elements(a) \cup Elements(skipped_waiting') = Elements(skipped_waiting)
        /\ Elements(a) \cap Elements(skipped_waiting') = {}
    BY <1>0, <2>1, <2>2 DEF Places
  <2>5. /\ b \in Seq(Requests) /\ waiting' \in Seq(Requests)
        /\ NoRepeats(b) /\ NoRepeats(waiting')
        /\ Elements(b) \cup Elements(waiting') = Elements(waiting)
        /\ Elements(b) \cap Elements(waiting') = {}
    BY <1>0, <2>1, <2>2 DEF Places
  <2> HIDE DEF a, b
  <2>6. /\ d \in Seq(Requests) /\ NoRepeats(d)
        /\ Elements(d) = Elements(step_skipped) \cup Elements(a)
    BY <1>0, <2>4, ConcatElements DEF Places
  <2>10. step_skipped' = d \o b
    BY <2>1 DEF a, b
  <2> HIDE DEF d
  <2>7. Elements(d) \cap Elements(b) = {}
    BY <1>0, <2>4, <2>5, <2>6 DEF Places
  <2>8. /\ step_skipped' \in Seq(Requests)
        /\ Elements(step_skipped') = Elements(step_skipped) \cup Elements(a) \cup Elements(b)
        /\ NoRepeats(step_skipped')
    <3> DEFINE c == d \o b
    <3>1. /\ c \in Seq(Requests) /\ Elements(c) = Elements(d) \cup Elements(b) /\ NoRepeats(c)
      BY <2>5, <2>6, <2>7, ConcatElements
    <3> HIDE DEF c
    <3> QED BY <2>10, <2>6, <3>1 DEF c
  <2>9. QueueTypes'
    BY <1>0, <2>1, <2>4, <2>5, <2>8 DEF QueueTypes
  <2> QED BY <1>0, <2>1, <2>3, <2>4, <2>5, <2>8, <2>9 DEF Places
<1>7. CASE ScheduleEnd
  <2>1. /\ skipped_waiting' = Queue(step_skipped \o skipped_waiting)
        /\ step_skipped' = <<>> /\ pc = "phase2" /\ pc' # "raised"
        /\ UNCHANGED <<status, waiting, running, output_tokens>>
    BY <1>7 DEF ScheduleEnd
  <2> DEFINE c == step_skipped \o skipped_waiting
  <2>2. /\ c \in Seq(Requests) /\ NoRepeats(c)
        /\ Elements(c) = Elements(step_skipped) \cup Elements(skipped_waiting)
    BY <1>0, ConcatElements DEF Places
  <2> HIDE DEF c
  <2>3. /\ skipped_waiting' \in Seq(Requests) /\ NoRepeats(skipped_waiting')
        /\ Elements(skipped_waiting') = Elements(step_skipped) \cup Elements(skipped_waiting)
    BY <2>1, <2>2, QueueElements DEF c
  <2>4. Elements(step_skipped') = {} /\ NoRepeats(step_skipped') /\ step_skipped' \in Seq(Requests)
    BY <2>1 DEF Elements, NoRepeats
  <2>5. Waiting' = Waiting /\ Running' = Running
    BY <2>1 DEF Waiting, Running
  <2>6. QueueTypes'
    BY <1>0, <2>1, <2>3, <2>4 DEF QueueTypes
  <2> QED BY <1>0, <2>1, <2>3, <2>4, <2>5, <2>6 DEF Places
<1>8. CASE ProcessAbortsQueue
  BY <1>0, <1>8, Finished DEF ProcessAbortsQueue, scheduleVars
<1>9. CASE Update
  <2> DEFINE new == {r \in DOMAIN sampled \cap running : sampled[r] = "eos"}
             gone == (finished_req_ids \cup new) \cap running
  <2>1. /\ running' = running \ gone
        /\ status' = [r \in Requests |-> IF r \in gone THEN "FINISHED_STOPPED" ELSE status[r]]
        /\ output_tokens' = [r \in Requests |->
             IF r \in gone THEN 0
             ELSE output_tokens[r] + (IF r \in DOMAIN sampled \cap running THEN 1 ELSE 0)]
        /\ pc = "update" /\ pc' = "condense"
        /\ UNCHANGED <<waiting, skipped_waiting, step_skipped>>
    BY <1>9 DEF Update, UpdateFromOutput, scheduleVars
  <2>2. gone \subseteq running
    OBVIOUS
  <2> HIDE DEF gone
  <2>3. Waiting' = Waiting /\ Running' = Running \ gone
    BY <1>0, <2>1, <2>2 DEF Waiting, Running, Places
  <2>4. output_tokens' \in [Requests -> Nat]
    <3>1. \A r \in Requests : output_tokens[r] \in Nat
      BY <1>0 DEF QueueTypes
    <3> QED BY <2>1, <3>1
  <2>5. QueueTypes'
    BY <1>0, <2>1, <2>4 DEF QueueTypes
  <2> QED BY <1>0, <2>1, <2>2, <2>3, <2>5 DEF Places
<1>10. CASE AddBetween
  <2>1. PICK r \in Requests, prompt \in PromptLens, limit \in MaxTokens : AddRequest(r, prompt, limit)
    BY <1>10 DEF AddBetween
  <2>2. /\ status[r] = "NEW" /\ status' = [status EXCEPT ![r] = "WAITING"]
        /\ waiting' = Queue(Append(waiting, r))
        /\ UNCHANGED <<skipped_waiting, running, output_tokens, step_skipped, pc>>
        /\ pc = "ready"
    BY <1>10, <2>1 DEF AddBetween, AddRequest, scheduleVars
  <2>3. r \notin Waiting /\ r \notin Running /\ Waiting' = Waiting \cup {r} /\ Running' = Running
    BY <1>0, <2>2 DEF Waiting, Running, RequestTypes
  <2>4. /\ Append(waiting, r) \in Seq(Requests) /\ NoRepeats(Append(waiting, r))
        /\ Elements(Append(waiting, r)) = Elements(waiting) \cup {r}
    BY <1>0, <2>3, AppendElements DEF Places
  <2>5. /\ waiting' \in Seq(Requests) /\ NoRepeats(waiting')
        /\ Elements(waiting') = Elements(waiting) \cup {r}
    BY <2>2, <2>4, QueueElements
  <2>6. QueueTypes'
    BY <1>0, <2>2, <2>5 DEF QueueTypes
  <2> QED BY <1>0, <2>2, <2>3, <2>5, <2>6 DEF Places
<1>11. ASSUME NEW ids, AbortBetween(ids) PROVE QueueTypes' /\ Places'
  BY <1>0, <1>11, Finished DEF AbortBetween, scheduleVars
<1>12. ASSUME NEW r \in Requests, RejectBetween(r) PROVE QueueTypes' /\ Places'
  <2>1. /\ status[r] = "NEW" /\ status' = [status EXCEPT ![r] = "FINISHED_ABORTED"]
        /\ UNCHANGED <<waiting, skipped_waiting, running, output_tokens, step_skipped, pc>>
    BY <1>12 DEF RejectBetween, queueVars, scheduleVars
  <2>2. Waiting' = Waiting /\ Running' = Running
    BY <1>0, <2>1 DEF Waiting, Running, RequestTypes
  <2> QED BY <1>0, <2>1, <2>2 DEF QueueTypes, Places
<1>13. CASE \/ \E r \in Requests : Phase1Schedule(r)
            \/ \E r \in Requests : Phase1Finish(r)
            \/ \E r \in Requests : Phase1Skip(r)
            \/ Phase1End \/ Execute \/ ExecuteRaises \/ Condense \/ QueueIds
  BY <1>1, <1>13 DEF Phase1Schedule, Phase1Finish, Phase1Skip, Phase1Visit,
     Phase1End, Execute, ExecuteRaises, Condense, QueueIds, requestVars, queueVars,
     scheduleVars, schedulerVars
<1> QED
  BY <1>2, <1>3, <1>4, <1>5, <1>6, <1>7, <1>8, <1>9, <1>10, <1>11, <1>12, <1>13
  DEF Step, Schedule, Drive

-----------------------------------------------------------------------------
\* Where the slots go: a slot is allocated to one request, and given back by the
\* batch_condense of the step in which its request ends, or later.
LEMMA SlotsNext ==
  ASSUME CoreInv, Step \/ Drive PROVE SlotTypes' /\ SlotsHeld'
<1>0. /\ TypeOK /\ Places /\ SlotsHeld /\ SlotTypes
      /\ status \in [Requests -> Statuses] /\ running \subseteq Requests
      /\ req_to_slot \in [Requests -> Slot!Slots \cup {Slot!NoSlot}]
  BY TypeParts DEF CoreInv, RequestTypes, QueueTypes, SlotTypes
<1>1. CASE UNCHANGED <<req_to_slot, running, freed>> /\ Ended' = Ended
           /\ (pc' = pc \/ pc \notin {"update", "condense"})
  BY <1>0, <1>1 DEF SlotTypes, SlotsHeld, Slot!Holders
<1>2. ASSUME NEW r \in Requests, Phase2Admit(r) PROVE SlotTypes' /\ SlotsHeld'
  <2>1. /\ status' = [status EXCEPT ![r] = "RUNNING"] /\ running' = running \cup {r}
        /\ Slot!Allocate(r) /\ UNCHANGED <<pc, freed>> /\ Phase2Pop(r)
    BY <1>2 DEF Phase2Admit, Phase2Pop
  <2>2. r \notin Slot!Holders
    BY <2>1 DEF Slot!Allocate
  <2>3. PICK s \in Slot!Slots \ Slot!Used : req_to_slot' = [req_to_slot EXCEPT ![r] = s]
    BY <2>1 DEF Slot!Allocate
  <2>4. s # Slot!NoSlot
    BY <2>3, SchedulerAssumption DEF Slot!Slots, Slot!NoSlot
  <2>5. /\ Slot!Holders' = Slot!Holders \cup {r}
        /\ \A q \in Requests : req_to_slot'[q] = IF q = r THEN s ELSE req_to_slot[q]
    BY <1>0, <2>3, <2>4 DEF Slot!Holders
  <2>6. \A q \in Slot!Holders : req_to_slot[q] # s /\ q # r
    BY <2>2, <2>3 DEF Slot!Used
  <2>7. r \in Waiting
    BY <1>0, <2>1, Popped
  <2>8. Ended' = Ended /\ r \notin Ended
    BY <1>0, <2>1, <2>7 DEF Ended, Waiting
  <2>9. SlotTypes'
    BY <1>0, <2>1, <2>3 DEF SlotTypes
  <2>10. \A x, q \in Slot!Holders' : req_to_slot'[x] = req_to_slot'[q] => x = q
    <3>1. \A x \in Slot!Holders : x \in Requests
      BY DEF Slot!Holders
    <3> QED BY <1>0, <2>5, <2>6, <3>1 DEF SlotsHeld
  <2> QED BY <1>0, <2>1, <2>5, <2>8, <2>9, <2>10 DEF SlotsHeld
<1>3. ASSUME NEW ids \in SUBSET Requests, FinishRequests(ids), UNCHANGED <<step_skipped, req_to_slot>>,
             \/ pc' = pc /\ freed' = freed
             \/ pc = "aborts" /\ pc' = "update" /\ freed' = ids \cap Slot!Holders
      PROVE  SlotTypes' /\ SlotsHeld'
  <2>1. running' = running \ ids /\ Ended' = Ended \cup (ids \cap Unfinished)
    BY <1>0, <1>3, Finished
  <2>2. Slot!Holders' = Slot!Holders
    BY <1>3 DEF Slot!Holders
  <2>3. Slot!Holders \subseteq running' \cup Ended'
    BY <1>0, <2>1 DEF SlotsHeld, Unfinished
  <2>4. freed' \subseteq Slot!Holders \cap Ended'
    <3>1. ids \cap Slot!Holders \subseteq Ended'
      BY <1>0, <2>1, <2>3
    <3> QED BY <1>0, <1>3, <2>1, <3>1 DEF SlotsHeld
  <2>5. SlotTypes' /\ (freed' # {} => pc' \in {"update", "condense"})
    BY <1>0, <1>3 DEF SlotTypes, SlotsHeld
  <2> QED BY <1>0, <1>3, <2>1, <2>2, <2>3, <2>4, <2>5 DEF SlotsHeld
<1>4. CASE ProcessAbortsQueue
  <2>1. aborts_queue \in SUBSET Requests
    BY <1>0, TypeParts DEF GpuTypes
  <2> QED BY <1>3, <1>4, <2>1 DEF ProcessAbortsQueue, scheduleVars
<1>5. CASE Update
  <2> DEFINE new == {r \in DOMAIN sampled \cap running : sampled[r] = "eos"}
             gone == (finished_req_ids \cup new) \cap running
  <2>1. /\ running' = running \ gone
        /\ status' = [r \in Requests |-> IF r \in gone THEN "FINISHED_STOPPED" ELSE status[r]]
        /\ freed' = freed \cup gone
        /\ pc = "update" /\ pc' = "condense" /\ UNCHANGED req_to_slot
    BY <1>5 DEF Update, UpdateFromOutput
  <2>2. gone \subseteq running
    OBVIOUS
  <2> HIDE DEF gone
  <2>3. Ended' = Ended \cup gone
    BY <1>0, <2>1, <2>2 DEF Ended
  <2>4. Slot!Holders' = Slot!Holders
    BY <2>1 DEF Slot!Holders
  <2>5. SlotTypes'
    BY <1>0, <2>1, <2>2 DEF SlotTypes
  <2> QED BY <1>0, <2>1, <2>2, <2>3, <2>4, <2>5 DEF SlotsHeld
<1>6. CASE Condense
  <2>1. /\ freed' = {} /\ pc' = "ready" /\ UNCHANGED <<running, status>>
        /\ IF freed = {} THEN UNCHANGED req_to_slot ELSE Slot!BatchCondense(freed)
    BY <1>6 DEF Condense, queueVars, requestVars
  <2>2. Ended' = Ended
    BY <2>1 DEF Ended
  <2>3. CASE freed = {}
    BY <1>0, <2>1, <2>2, <2>3 DEF SlotTypes, SlotsHeld, Slot!Holders
  <2>4. CASE freed # {}
    <3> DEFINE rest == Slot!Holders \ freed
    <3>1. PICK new \in [rest -> Slot!Slots] :
            /\ Slot!Condensed(rest, new)
            /\ req_to_slot' = [r \in Requests |-> IF r \in rest THEN new[r] ELSE Slot!NoSlot]
      BY <2>1, <2>4 DEF Slot!BatchCondense
    <3>2. rest \subseteq Requests
      BY DEF Slot!Holders
    <3>3. \A r, q \in rest : r # q => new[r] # new[q]
      BY <3>1 DEF Slot!Condensed
    <3> HIDE DEF rest
    <3>4. \A r \in rest : req_to_slot'[r] = new[r] /\ new[r] \in Slot!Slots
      BY <3>1, <3>2
    <3>5. \A s \in Slot!Slots : s # Slot!NoSlot
      BY SchedulerAssumption DEF Slot!Slots, Slot!NoSlot
    <3>6. Slot!Holders' = rest
      BY <3>1, <3>2, <3>4, <3>5 DEF Slot!Holders
    <3>7. SlotTypes'
      BY <2>1, <3>1, <3>2 DEF SlotTypes
    <3>8. running \subseteq rest
      <4>1. running \cap Ended = {}
        BY <1>0 DEF Places, Running, Ended
      <4> QED BY <1>0, <4>1 DEF SlotsHeld, rest
    <3>9. rest \subseteq running \cup Ended
      BY <1>0 DEF SlotsHeld, rest
    <3> QED BY <2>1, <2>2, <3>3, <3>4, <3>6, <3>7, <3>8, <3>9 DEF SlotsHeld
  <2> QED BY <2>3, <2>4
<1>7. CASE AddBetween
  <2>1. Ended' = Ended
    BY <1>0, <1>7 DEF AddBetween, AddRequest, Ended
  <2> QED BY <1>1, <1>7, <2>1 DEF AddBetween, AddRequest
<1>8. ASSUME NEW ids \in SUBSET Requests, AbortBetween(ids) PROVE SlotTypes' /\ SlotsHeld'
  BY <1>3, <1>8 DEF AbortBetween, scheduleVars
<1>9. ASSUME NEW r \in Requests, RejectBetween(r) PROVE SlotTypes' /\ SlotsHeld'
  <2>1. /\ status' = [status EXCEPT ![r] = "FINISHED_ABORTED"] /\ status[r] = "NEW"
        /\ UNCHANGED <<req_to_slot, running, freed, pc>>
    BY <1>9 DEF RejectBetween, queueVars
  <2>2. Ended' = Ended \cup {r}
    BY <1>0, <2>1 DEF Ended
  <2>3. Slot!Holders' = Slot!Holders
    BY <2>1 DEF Slot!Holders
  <2> QED BY <1>0, <2>1, <2>2, <2>3 DEF SlotTypes, SlotsHeld
<1>10. ASSUME NEW r \in Requests, Phase2Raise(r) PROVE SlotTypes' /\ SlotsHeld'
  <2>1. /\ status' = [status EXCEPT ![r] = "RUNNING"] /\ Phase2Pop(r) /\ pc = "phase2"
        /\ UNCHANGED <<req_to_slot, running, freed>>
    BY <1>10 DEF Phase2Raise, Phase2Pop, Phase2Open
  <2>2. r \in Waiting
    BY <1>0, <2>1, Popped
  <2>3. Ended' = Ended
    BY <1>0, <2>1, <2>2 DEF Ended, Waiting
  <2> QED BY <1>1, <2>1, <2>3
<1>11. CASE \/ ScheduleStart
            \/ \E r \in Requests : Phase1Schedule(r)
            \/ \E r \in Requests : Phase1Finish(r)
            \/ \E r \in Requests : Phase1Skip(r)
            \/ Phase1End
            \/ \E r \in Requests : Phase2HoldBack(r)
            \/ Phase2Blocked \/ ScheduleEnd \/ Execute \/ ExecuteRaises \/ QueueIds
  <2>1. UNCHANGED <<status, req_to_slot, running, freed>>
        /\ (pc' = pc \/ pc \notin {"update", "condense"})
    BY <1>11 DEF ScheduleStart, Phase1Schedule, Phase1Finish, Phase1Skip, Phase1Visit,
       Phase1End, Phase2HoldBack, Phase2Pop, Phase2Open, Phase2Blocked, ScheduleEnd, Execute,
       ExecuteRaises, QueueIds, requestVars, queueVars, schedulerVars
  <2>2. Ended' = Ended
    BY <2>1 DEF Ended
  <2> QED BY <1>1, <2>1, <2>2
<1> QED
  BY <1>2, <1>4, <1>5, <1>6, <1>7, <1>8, <1>9, <1>10, <1>11
  DEF Step, Schedule, Drive

-----------------------------------------------------------------------------
\* There are as many slots as max_num_seqs, so no more requests hold one or run.
LEMMA FewRunning ==
  ASSUME TypeOK, SlotsHeld
  PROVE  /\ IsFiniteSet(Slot!Slots) /\ Cardinality(Slot!Slots) = MaxNumSeqs
         /\ IsFiniteSet(Slot!Holders)
         /\ IsFiniteSet(running) /\ Cardinality(running) <= MaxNumSeqs
         /\ \A S \in SUBSET running : /\ IsFiniteSet(S) /\ Cardinality(S) \in Nat
                                      /\ Cardinality(S) <= MaxNumSeqs
<1>1. MaxNumSeqs \in Nat \ {0}
  BY SchedulerAssumption
<1>2. IsFiniteSet(Slot!Slots) /\ Cardinality(Slot!Slots) = MaxNumSeqs
  BY <1>1, FS_Interval DEF Slot!Slots
<1> DEFINE f == [r \in Slot!Holders |-> req_to_slot[r]]
<1>3. f \in Injection(Slot!Holders, Slot!Slots)
  <2>1. \A r \in Slot!Holders : r \in Requests /\ req_to_slot[r] \in Slot!Slots
    BY TypeParts DEF SlotTypes, Slot!Holders
  <2> QED BY <2>1 DEF SlotsHeld, Injection, IsInjective
<1>4. IsFiniteSet(Slot!Holders) /\ Cardinality(Slot!Holders) <= MaxNumSeqs
  BY <1>2, <1>3, FS_Injection
<1>5. ASSUME NEW S \in SUBSET running
      PROVE  IsFiniteSet(S) /\ Cardinality(S) \in Nat /\ Cardinality(S) <= MaxNumSeqs
  <2>1. S \in SUBSET Slot!Holders
    BY DEF SlotsHeld
  <2>2. IsFiniteSet(S) /\ Cardinality(S) <= Cardinality(Slot!Holders)
    BY <1>4, <2>1, FS_Subset
  <2>3. Cardinality(S) \in Nat /\ Cardinality(Slot!Holders) \in Nat
    BY <1>4, <2>2, FS_CardinalityType
  <2> QED BY <1>1, <1>4, <2>2, <2>3
<1> QED BY <1>2, <1>4, <1>5

\* The slot of a running request.
LEMMA RunningSlot ==
  ASSUME TypeOK, SlotsHeld, NEW r \in running
  PROVE  r \in Requests /\ req_to_slot[r] \in Slot!Slots /\ r \in Slot!Holders
  BY TypeParts DEF SlotTypes, SlotsHeld, Slot!Holders

\* Types: the step's own variables.
LEMMA StepTypesNext ==
  ASSUME CoreInv, Step \/ Drive PROVE StepTypes'
<1>0. /\ TypeOK /\ SlotsHeld /\ Batch /\ StepTypes /\ running \subseteq Requests
      /\ MaxNumBatchedTokens \in Nat
  BY TypeParts, SchedulerAssumption DEF CoreInv, QueueTypes
<1>1. CASE /\ UNCHANGED <<token_budget, partial_prefills>> /\ to_visit' = to_visit
           /\ running \subseteq running' \/ pc # "phase1"
           /\ pc' \in {"ready", "phase1", "phase2", "raised", "execute", "failed", "aborts",
                       "update", "condense"}
  BY <1>0, <1>1 DEF StepTypes, Batch
<1>2. CASE ScheduleStart
  BY <1>0, <1>2 DEF ScheduleStart, StepTypes, queueVars
<1>3. ASSUME NEW r \in Requests, Phase1Schedule(r) PROVE StepTypes'
  <2>1. /\ r \in running /\ NumNew(r) > 0 /\ token_budget' = token_budget - NumNew(r)
        /\ to_visit' = to_visit \ {r} /\ UNCHANGED <<pc, partial_prefills, running>>
    BY <1>0, <1>3 DEF Phase1Schedule, Phase1Visit, StepTypes, queueVars
  <2>2. token_budget' \in 0 .. MaxNumBatchedTokens
    BY <1>0, <2>1, RunningSlot, EntryWritten
  <2> QED BY <1>0, <2>1, <2>2 DEF StepTypes
<1>4. ASSUME NEW r \in Requests, Phase1Finish(r) \/ Phase1Skip(r) PROVE StepTypes'
  BY <1>0, <1>4 DEF Phase1Finish, Phase1Skip, Phase1Visit, StepTypes, queueVars
<1>5. CASE Phase1End
  <2>1. partial_prefills' \in Nat
    BY <1>0, <1>5, FewRunning DEF Phase1End
  <2> QED BY <1>0, <1>5, <2>1 DEF Phase1End, StepTypes, queueVars
<1>6. ASSUME NEW r \in Requests, Phase2Admit(r) PROVE StepTypes'
  <2>1. /\ ~HeldBack(r) /\ token_budget' = token_budget - NumNew(r)
        /\ partial_prefills' \in {partial_prefills, partial_prefills + 1}
        /\ UNCHANGED <<pc, to_visit>> /\ running' = running \cup {r} /\ Slot!Allocate(r)
    BY <1>6 DEF Phase2Admit, Phase2Pop
  <2>2. NumNew(r) > 0
    BY <1>0, <2>1, NumNewLeast DEF HeldBack
  <2>3. PICK s \in Slot!Slots : TRUE
    BY <2>1 DEF Slot!Allocate
  <2>4. token_budget' \in 0 .. MaxNumBatchedTokens
    BY <1>0, <2>1, <2>2, <2>3, EntryWritten
  <2>5. partial_prefills' \in Nat
    BY <1>0, <2>1 DEF StepTypes
  <2> QED BY <1>0, <2>1, <2>4, <2>5 DEF StepTypes
<1>7. CASE \/ \E r \in Requests : Phase2Raise(r)
           \/ \E r \in Requests : Phase2HoldBack(r)
           \/ Phase2Blocked \/ ScheduleEnd
  BY <1>0, <1>1, <1>7 DEF Phase2Raise, Phase2HoldBack, Phase2Pop, Phase2Open, Phase2Blocked,
     ScheduleEnd, StepTypes
<1>8. CASE Execute \/ ExecuteRaises \/ ProcessAbortsQueue \/ Update \/ Condense
  BY <1>0, <1>1, <1>8 DEF Execute, ExecuteRaises, ProcessAbortsQueue, Update,
     UpdateFromOutput, Condense, queueVars, scheduleVars
<1>9. CASE AddBetween \/ QueueIds
  BY <1>0, <1>1, <1>9 DEF AddBetween, AddRequest, QueueIds, schedulerVars, queueVars,
     scheduleVars, StepTypes
<1>10. ASSUME NEW ids, AbortBetween(ids) PROVE StepTypes'
  BY <1>0, <1>1, <1>10 DEF AbortBetween, scheduleVars, StepTypes
<1>11. ASSUME NEW r \in Requests, RejectBetween(r) PROVE StepTypes'
  BY <1>0, <1>1, <1>11 DEF RejectBetween, queueVars, scheduleVars, StepTypes
<1> QED
  BY <1>2, <1>3, <1>4, <1>5, <1>6, <1>7, <1>8, <1>9, <1>10, <1>11 DEF Step, Schedule, Drive

-----------------------------------------------------------------------------
\* Adding an entry for a request that is not in the batch yet.
LEMMA BatchGrows ==
  ASSUME TypeOK, Batch, NEW r \in Requests, r \notin DOMAIN request_data,
         pc \in {"phase1", "phase2"}, UNCHANGED <<pc, num_computed_tokens, prompt_len, sampled>>,
         NumNew(r) > 0, NEW slot \in Slot!Slots,
         request_data' = With(request_data, r, RunData(r, slot)), req_to_slot'[r] = slot,
         \A q \in DOMAIN request_data : req_to_slot'[q] = req_to_slot[q],
         r \notin finished_req_ids', r \notin to_visit', to_visit' \subseteq to_visit,
         finished_req_ids' = finished_req_ids,
         running \cup {r} \subseteq running'
  PROVE  /\ \E S \in SUBSET Requests : request_data' \in [S -> RunDatas]
         /\ DOMAIN request_data' = DOMAIN request_data \cup {r}
         /\ Batch'
<1>1. /\ DOMAIN request_data \subseteq Requests
      /\ request_data \in [DOMAIN request_data -> RunDatas]
  BY BatchType
<1>2. RunData(r, slot) \in RunDatas
  BY EntryWritten
<1>3. /\ request_data' \in [DOMAIN request_data \cup {r} -> RunDatas]
      /\ DOMAIN request_data' = DOMAIN request_data \cup {r}
      /\ request_data'[r] = RunData(r, slot)
      /\ \A q \in DOMAIN request_data \ {r} : request_data'[q] = request_data[q]
  <2> DEFINE S == DOMAIN request_data
             d == RunData(r, slot)
             new == With(request_data, r, d)
  <2>1. request_data \in [S -> RunDatas] /\ d \in RunDatas /\ request_data' = new
    BY <1>1, <1>2
  <2> HIDE DEF S, d
  <2>2. /\ new \in [S \cup {r} -> RunDatas] /\ DOMAIN new = S \cup {r}
        /\ new[r] = d /\ \A q \in S \ {r} : new[q] = request_data[q]
    <3>1. DOMAIN request_data = S
      BY <2>1
    <3> QED BY <2>1, <3>1 DEF With
  <2> HIDE DEF new
  <2> QED BY <2>1, <2>2 DEF S, d
<1>4. Before(r)' = num_computed_tokens[r]
  BY DEF Before
<1>5. EntryIsTrue(r)'
  BY <1>3, <1>4, EntryWritten DEF EntryIsTrue, IsDecode
<1>6. ASSUME NEW q \in DOMAIN request_data PROVE EntryIsTrue(q)'
  <2>1. Before(q)' = Before(q)
    BY DEF Before
  <2>2. EntryIsTrue(q)
    BY DEF Batch
  <2>3. request_data'[q] = request_data[q]
    BY <1>3
  <2> QED BY <2>1, <2>2, <2>3 DEF EntryIsTrue
<1>7. \A q \in DOMAIN request_data' : EntryIsTrue(q)'
  BY <1>3, <1>5, <1>6
<1>8. finished_req_ids' \cup DOMAIN request_data' \subseteq running'
  BY <1>3 DEF Batch
<1> QED BY <1>1, <1>3, <1>7, <1>8 DEF Batch

\* What the batch says of its requests stays true until the step is over.
LEMMA BatchNext ==
  ASSUME CoreInv, Step \/ Drive PROVE BatchTypes' /\ Batch'
<1>0. /\ TypeOK /\ Places /\ SlotsHeld /\ Batch /\ BatchTypes
      /\ running \subseteq Requests /\ to_visit \subseteq running
      /\ DOMAIN request_data \subseteq Requests
  BY TypeParts, BatchType DEF CoreInv, QueueTypes, StepTypes
<1>1. CASE /\ UNCHANGED <<request_data, num_computed_tokens, prompt_len, req_to_slot, pc,
                          finished_req_ids, to_visit, sampled>>
           /\ running' = running \/ pc \in {"ready", "raised", "failed"}
  <2>1. \A r \in DOMAIN request_data : Before(r)' = Before(r)
    BY <1>1 DEF Before
  <2>2. \A r \in DOMAIN request_data : EntryIsTrue(r)'
    BY <1>0, <1>1, <2>1 DEF Batch, EntryIsTrue
  <2> QED BY <1>0, <1>1, <2>2 DEF Batch, BatchTypes
<1>2. CASE ScheduleStart /\ ModelIdle
  BY <1>0, <1>2 DEF ScheduleStart, ModelIdle, Batch, BatchTypes, NoRequests
<1>3. ASSUME NEW r \in Requests, Phase1Schedule(r), ModelIdle PROVE BatchTypes' /\ Batch'
  <2>1. /\ pc = "phase1" /\ r \in to_visit /\ to_visit' = to_visit \ {r} /\ NumNew(r) > 0
        /\ UNCHANGED <<pc, num_computed_tokens, prompt_len, sampled, req_to_slot,
                       finished_req_ids, running>>
        /\ request_data' = With(request_data, r, RunData(r, req_to_slot[r]))
    BY <1>3 DEF Phase1Schedule, Phase1Visit, ModelIdle, requestVars, queueVars
  <2>2. r \notin DOMAIN request_data /\ r \notin finished_req_ids /\ r \in running
    BY <1>0, <2>1 DEF Batch
  <2>3. req_to_slot[r] \in Slot!Slots
    BY <1>0, <2>2, RunningSlot
  <2> QED BY <1>0, <2>1, <2>2, <2>3, BatchGrows DEF BatchTypes
<1>4. ASSUME NEW r \in Requests, Phase1Finish(r) \/ Phase1Skip(r), ModelIdle
      PROVE  BatchTypes' /\ Batch'
  <2>1. /\ pc = "phase1" /\ r \in to_visit /\ to_visit' = to_visit \ {r}
        /\ UNCHANGED <<pc, num_computed_tokens, prompt_len, sampled, req_to_slot,
                       running, request_data>>
        /\ finished_req_ids' \in {finished_req_ids, finished_req_ids \cup {r}}
    BY <1>4 DEF Phase1Finish, Phase1Skip, Phase1Visit, ModelIdle, requestVars, queueVars
  <2>2. r \notin DOMAIN request_data /\ r \notin finished_req_ids /\ r \in running
    BY <1>0, <2>1 DEF Batch
  <2>3. \A q \in DOMAIN request_data : EntryIsTrue(q)'
    BY <1>0, <2>1 DEF Batch, EntryIsTrue, Before
  <2> QED BY <1>0, <2>1, <2>2, <2>3 DEF Batch, BatchTypes
<1>5. CASE Phase1End /\ ModelIdle
  <2>1. \A q \in DOMAIN request_data : EntryIsTrue(q)'
    BY <1>0, <1>5 DEF Phase1End, requestVars, queueVars, outputVars, Batch, EntryIsTrue, Before
  <2> QED BY <1>0, <1>5, <2>1 DEF Phase1End, ModelIdle, requestVars, queueVars, outputVars,
             Batch, BatchTypes
<1>6. ASSUME NEW r \in Requests, Phase2Admit(r), ModelIdle PROVE BatchTypes' /\ Batch'
  <2>1. /\ pc = "phase2" /\ ~HeldBack(r) /\ Phase2Pop(r) /\ Slot!Allocate(r)
        /\ running' = running \cup {r}
        /\ UNCHANGED <<pc, num_computed_tokens, prompt_len, sampled, finished_req_ids, to_visit>>
        /\ request_data' = With(request_data, r, RunData(r, req_to_slot'[r]))
    BY <1>6 DEF Phase2Admit, Phase2Pop, Phase2Open, ModelIdle
  <2>2. NumNew(r) > 0
    BY <1>0, <2>1, NumNewLeast DEF HeldBack
  <2>3. r \in Waiting /\ r \notin running
    BY <1>0, <2>1, Popped DEF Places, Waiting, Running
  <2>4. r \notin DOMAIN request_data /\ r \notin finished_req_ids /\ r \notin to_visit
    BY <1>0, <2>1, <2>3 DEF Batch
  <2>5. PICK s \in Slot!Slots : req_to_slot' = [req_to_slot EXCEPT ![r] = s]
    BY <2>1 DEF Slot!Allocate
  <2>6. req_to_slot'[r] = s /\ \A q \in DOMAIN request_data : req_to_slot'[q] = req_to_slot[q]
    BY <1>0, <2>4, <2>5, TypeParts DEF SlotTypes
  <2> QED BY <1>0, <2>1, <2>2, <2>4, <2>6, BatchGrows DEF BatchTypes
<1>7. ASSUME NEW r \in Requests, Phase2Raise(r), ModelIdle PROVE BatchTypes' /\ Batch'
  <2>1. /\ pc = "phase2" /\ pc' = "raised"
        /\ UNCHANGED <<num_computed_tokens, prompt_len, sampled, req_to_slot, request_data,
                       finished_req_ids, to_visit>>
    BY <1>7 DEF Phase2Raise, Phase2Pop, Phase2Open, ModelIdle
  <2>2. \A q \in DOMAIN request_data : EntryIsTrue(q)'
    BY <1>0, <2>1 DEF Batch, EntryIsTrue, Before
  <2> QED BY <1>0, <2>1, <2>2 DEF Batch, BatchTypes
<1>8. CASE ((\E r \in Requests : Phase2HoldBack(r)) \/ Phase2Blocked) /\ ModelIdle
  BY <1>0, <1>1, <1>8 DEF Phase2HoldBack, Phase2Pop, Phase2Blocked, ModelIdle, requestVars,
     outputVars
<1>9. CASE ScheduleEnd /\ ModelIdle
  <2>1. /\ pc = "phase2" /\ to_visit = {} /\ sampled = NoRequests
        /\ UNCHANGED <<prompt_len, sampled, req_to_slot, request_data, finished_req_ids,
                       to_visit, running>>
        /\ num_computed_tokens' =
             [r \in Requests |-> IF r \in DOMAIN request_data
                                 THEN num_computed_tokens[r] + request_data[r].num_tokens
                                 ELSE num_computed_tokens[r]]
        /\ pc' = IF DOMAIN request_data # {} THEN "execute"
                 ELSE IF finished_req_ids # {} THEN "aborts" ELSE "ready"
    BY <1>0, <1>9 DEF ScheduleEnd, ModelIdle, outputVars, Batch
  <2>2. ASSUME NEW q \in DOMAIN request_data PROVE EntryIsTrue(q)'
    <3>1. q \in Requests /\ EntryIsTrue(q) /\ num_computed_tokens[q] \in Int
          /\ request_data[q].num_tokens \in Int
      <4>1. q \in Requests /\ EntryIsTrue(q)
        BY <1>0, <2>2 DEF Batch
      <4> QED BY <1>0, <2>2, <4>1, Numbers, BatchType
    <3>2. Before(q)' = Before(q)
      BY <2>1, <2>2, <3>1 DEF Before
    <3> QED BY <2>1, <3>1, <3>2 DEF EntryIsTrue
  <2>3. pc' = "ready" => request_data = NoRequests /\ finished_req_ids = {}
    BY <1>0, <2>1, BatchType DEF NoRequests
  <2>4. pc' = "aborts" => DOMAIN sampled = {r \in DOMAIN request_data : IsSampled(request_data[r])}
    BY <2>1 DEF NoRequests
  <2> QED BY <1>0, <2>1, <2>2, <2>3, <2>4 DEF Batch, BatchTypes
<1>10. CASE Execute
  <2>1. /\ pc = "execute" /\ pc' = "aborts"
        /\ UNCHANGED <<num_computed_tokens, prompt_len, req_to_slot, request_data,
                       finished_req_ids, to_visit, running>>
        /\ DOMAIN sampled' = {r \in DOMAIN request_data : IsSampled(request_data[r])}
    BY <1>10 DEF Execute, requestVars, queueVars, scheduleVars, outputVars
  <2>2. \A q \in DOMAIN request_data : EntryIsTrue(q)'
    BY <1>0, <2>1 DEF Batch, EntryIsTrue, Before
  <2> QED BY <1>0, <2>1, <2>2 DEF Batch, BatchTypes
<1>11. CASE ExecuteRaises
  <2>1. /\ pc = "execute" /\ pc' = "failed"
        /\ UNCHANGED <<num_computed_tokens, prompt_len, req_to_slot, request_data,
                       finished_req_ids, to_visit, running, sampled>>
    BY <1>11 DEF ExecuteRaises, requestVars, queueVars, scheduleVars, outputVars
  <2>2. \A q \in DOMAIN request_data : EntryIsTrue(q)'
    BY <1>0, <2>1 DEF Batch, EntryIsTrue, Before
  <2> QED BY <1>0, <2>1, <2>2 DEF Batch, BatchTypes
<1>12. CASE ProcessAbortsQueue
  <2>1. /\ pc = "aborts" /\ pc' = "update"
        /\ UNCHANGED <<num_computed_tokens, prompt_len, req_to_slot, request_data,
                       finished_req_ids, to_visit, sampled>>
    BY <1>12 DEF ProcessAbortsQueue, FinishRequests, scheduleVars, outputVars
  <2>2. \A q \in DOMAIN request_data : EntryIsTrue(q)'
    BY <1>0, <2>1 DEF Batch, EntryIsTrue, Before
  <2> QED BY <1>0, <2>1, <2>2 DEF Batch, BatchTypes
<1>13. CASE Update
  <2>1. /\ pc = "update" /\ pc' = "condense"
        /\ UNCHANGED <<num_computed_tokens, prompt_len, req_to_slot, request_data,
                       finished_req_ids, to_visit, sampled>>
    BY <1>13 DEF Update, UpdateFromOutput, scheduleVars, outputVars
  <2>2. \A q \in DOMAIN request_data : EntryIsTrue(q)'
    BY <1>0, <2>1 DEF Batch, EntryIsTrue, Before
  <2> QED BY <1>0, <2>1, <2>2 DEF Batch, BatchTypes
<1>14. CASE Condense
  BY <1>0, <1>14 DEF Condense, scheduleVars, Batch, BatchTypes, NoRequests
<1>15. CASE AddBetween
  BY <1>0, <1>15 DEF AddBetween, AddRequest, scheduleVars, outputVars, Batch, BatchTypes,
     NoRequests
<1>16. ASSUME NEW ids, AbortBetween(ids) PROVE BatchTypes' /\ Batch'
  BY <1>0, <1>1, <1>16 DEF AbortBetween, FinishRequests, scheduleVars, outputVars
<1>17. CASE (\E r \in Requests : RejectBetween(r)) \/ QueueIds
  BY <1>0, <1>1, <1>17 DEF RejectBetween, QueueIds, queueVars, scheduleVars, outputVars,
     schedulerVars, requestVars
<1> QED
  BY <1>2, <1>3, <1>4, <1>5, <1>6, <1>7, <1>8, <1>9, <1>10, <1>11, <1>12, <1>13, <1>14, <1>15,
     <1>16, <1>17 DEF Step, Schedule, Drive, ModelIdle

-----------------------------------------------------------------------------
Outputs == [tokens : Nat, finishes : Nat, reason : {"none", "length", "eos", "abort"}]

\* update_from_output delivers one token to every running request sampled for, and a
\* final output to those that finish.
LEMMA Delivery ==
  ASSUME TypeOK, Update
  PROVE  LET live == DOMAIN sampled \cap running
             gone == (finished_req_ids \cup {r \in live : sampled[r] = "eos"}) \cap running
             New(r) == IF r \in live THEN 1 ELSE 0
         IN  /\ running' = running \ gone
             /\ status' = [r \in Requests |->
                             IF r \in gone THEN "FINISHED_STOPPED" ELSE status[r]]
             /\ freed' = freed \cup gone
             /\ \A r \in Requests :
                  /\ output_tokens'[r] = IF r \in gone THEN 0 ELSE output_tokens[r] + New(r)
                  /\ delivered'[r].tokens = delivered[r].tokens + New(r)
                  /\ delivered'[r].finishes =
                       IF r \in gone THEN delivered[r].finishes + 1 ELSE delivered[r].finishes
                  /\ delivered'[r].reason =
                       IF r \in gone THEN IF r \in finished_req_ids THEN "length" ELSE "eos"
                       ELSE delivered[r].reason
                  /\ r \notin running => delivered'[r] = delivered[r]
             /\ OutputTypes'
<1> DEFINE live == DOMAIN sampled \cap running
           gone == (finished_req_ids \cup {r \in live : sampled[r] = "eos"}) \cap running
           New(r) == IF r \in live THEN 1 ELSE 0
           Reason(r) == IF r \in finished_req_ids THEN "length" ELSE "eos"
<1>1. /\ running' = running \ gone
      /\ status' = [r \in Requests |-> IF r \in gone THEN "FINISHED_STOPPED" ELSE status[r]]
      /\ output_tokens' = [r \in Requests |->
                             IF r \in gone THEN 0 ELSE output_tokens[r] + New(r)]
      /\ freed' = freed \cup gone
      /\ delivered' = [r \in Requests |->
           IF r \in gone
           THEN [tokens   |-> delivered[r].tokens + New(r),
                 finishes |-> delivered[r].finishes + 1,
                 reason   |-> Reason(r)]
           ELSE [delivered[r] EXCEPT !.tokens = @ + New(r)]]
  BY DEF Update, UpdateFromOutput
<1>2. gone \subseteq running /\ live \subseteq running
  OBVIOUS
<1>3. \A r \in Requests : New(r) \in {0, 1} /\ Reason(r) \in {"length", "eos"}
  OBVIOUS
<1>4. \A r \in Requests : delivered[r] \in Outputs
  BY TypeParts DEF OutputTypes, Outputs
<1> HIDE DEF New, Reason, gone, live
<1>5. ASSUME NEW r \in Requests
      PROVE  /\ delivered'[r] \in Outputs
             /\ delivered'[r].tokens = delivered[r].tokens + New(r)
             /\ delivered'[r].finishes =
                  IF r \in gone THEN delivered[r].finishes + 1 ELSE delivered[r].finishes
             /\ delivered'[r].reason =
                  IF r \in gone THEN Reason(r) ELSE delivered[r].reason
  <2>1. CASE r \in gone
    <3>1. delivered'[r] = [tokens   |-> delivered[r].tokens + New(r),
                           finishes |-> delivered[r].finishes + 1,
                           reason   |-> Reason(r)]
      BY <1>1, <2>1
    <3> QED BY <1>3, <1>4, <2>1, <3>1 DEF Outputs
  <2>2. CASE r \notin gone
    <3>1. delivered'[r] = [delivered[r] EXCEPT !.tokens = @ + New(r)]
      BY <1>1, <2>2
    <3> QED BY <1>3, <1>4, <2>2, <3>1 DEF Outputs
  <2> QED BY <2>1, <2>2
<1>6. ASSUME NEW r \in Requests, r \notin running PROVE delivered'[r] = delivered[r]
  <2>1. r \notin gone /\ New(r) = 0
    BY <1>2, <1>6 DEF New
  <2>2. delivered'[r] = [delivered[r] EXCEPT !.tokens = @ + New(r)]
    BY <1>1, <2>1
  <2> QED BY <1>4, <2>1, <2>2 DEF Outputs
<1>7. OutputTypes'
  <2>1. delivered' \in [Requests -> Outputs]
    <3>1. DOMAIN delivered' = Requests /\ delivered' = [r \in Requests |-> delivered'[r]]
      BY <1>1
    <3> QED BY <1>5, <3>1
  <2> QED BY <2>1 DEF OutputTypes, Outputs
<1>8. \A r \in Requests : output_tokens'[r] = IF r \in gone THEN 0 ELSE output_tokens[r] + New(r)
  BY <1>1
<1> QED BY <1>1, <1>5, <1>6, <1>7, <1>8 DEF New, Reason, gone, live

\* The final output of a request that is aborted.
LEMMA AbortedOutput ==
  ASSUME NEW d \in Outputs, NEW e, e = [d EXCEPT !.finishes = @ + 1, !.reason = "abort"]
  PROVE  /\ e \in Outputs
         /\ e.tokens = d.tokens /\ e.finishes = d.finishes + 1 /\ e.reason = "abort"
<1>1. e = [tokens |-> d.tokens, finishes |-> d.finishes + 1, reason |-> "abort"]
  BY DEF Outputs
<1>2. d.tokens \in Nat /\ d.finishes \in Nat
  BY DEF Outputs
<1> QED BY <1>1, <1>2 DEF Outputs

\* An abort between two steps sends one final output to each request it finds.
LEMMA AbortOutput ==
  ASSUME TypeOK, NEW ids, AbortBetween(ids)
  PROVE  /\ OutputTypes'
         /\ \A r \in Requests :
              /\ delivered'[r].tokens = delivered[r].tokens
              /\ r \notin ids \cap Unfinished => delivered'[r] = delivered[r]
              /\ r \in ids \cap Unfinished =>
                   /\ delivered'[r].finishes = delivered[r].finishes + 1
                   /\ delivered'[r].reason = "abort"
<1>1. delivered' = [r \in Requests |->
         IF r \in ids \cap Unfinished
         THEN [delivered[r] EXCEPT !.finishes = @ + 1, !.reason = "abort"]
         ELSE delivered[r]]
  BY DEF AbortBetween
<1>2. \A r \in Requests : delivered[r] \in Outputs
  BY TypeParts DEF OutputTypes, Outputs
<1>3. ASSUME NEW r \in Requests
      PROVE  /\ delivered'[r] \in Outputs
             /\ delivered'[r].tokens = delivered[r].tokens
             /\ r \notin ids \cap Unfinished => delivered'[r] = delivered[r]
             /\ r \in ids \cap Unfinished =>
                  /\ delivered'[r].finishes = delivered[r].finishes + 1
                  /\ delivered'[r].reason = "abort"
  <2>1. CASE r \in ids \cap Unfinished
    <3>1. delivered'[r] = [delivered[r] EXCEPT !.finishes = @ + 1, !.reason = "abort"]
      BY <1>1, <2>1
    <3> QED BY <1>2, <2>1, <3>1, AbortedOutput
  <2>2. CASE r \notin ids \cap Unfinished
    BY <1>1, <1>2, <2>2
  <2> QED BY <2>1, <2>2
<1>4. DOMAIN delivered' = Requests /\ delivered' = [r \in Requests |-> delivered'[r]]
  BY <1>1
<1> QED BY <1>3, <1>4 DEF OutputTypes, Outputs

\* A rejected request gets one final output.
LEMMA RejectOutput ==
  ASSUME TypeOK, NEW r \in Requests, RejectBetween(r)
  PROVE  /\ OutputTypes'
         /\ \A q \in Requests :
              /\ delivered'[q].tokens = delivered[q].tokens
              /\ q # r => delivered'[q] = delivered[q]
         /\ delivered'[r].finishes = delivered[r].finishes + 1
         /\ delivered'[r].reason = "abort"
<1>1. delivered' = [delivered EXCEPT ![r].finishes = @ + 1, ![r].reason = "abort"]
  BY DEF RejectBetween
<1>2. delivered \in [Requests -> Outputs]
  BY TypeParts DEF OutputTypes, Outputs
<1>3. /\ \A q \in Requests \ {r} : delivered'[q] = delivered[q]
      /\ delivered'[r] = [delivered[r] EXCEPT !.finishes = @ + 1, !.reason = "abort"]
      /\ DOMAIN delivered' = Requests /\ delivered' = [q \in Requests |-> delivered'[q]]
  BY <1>1, <1>2
<1>4. delivered[r] \in Outputs
  BY <1>2
<1>5. /\ delivered'[r] \in Outputs /\ delivered'[r].tokens = delivered[r].tokens
      /\ delivered'[r].finishes = delivered[r].finishes + 1 /\ delivered'[r].reason = "abort"
  BY <1>3, <1>4, AbortedOutput
<1>6. delivered' \in [Requests -> Outputs]
  BY <1>2, <1>3, <1>5
<1> QED BY <1>3, <1>5, <1>6 DEF OutputTypes, Outputs

\* Types: the outputs and the GPU side.
LEMMA OutputTypesNext ==
  ASSUME CoreInv, Step \/ Drive PROVE OutputTypes' /\ GpuTypes'
<1>0. /\ TypeOK /\ OutputTypes /\ GpuTypes /\ DOMAIN request_data \subseteq Requests
  BY TypeParts, BatchType DEF CoreInv
<1>1. CASE UNCHANGED <<delivered, aborts_queue, sampled, gpuVars>>
  BY <1>0, <1>1 DEF OutputTypes, GpuTypes, gpuVars
<1>2. CASE Execute
  <2>1. /\ UNCHANGED <<aborts_queue, relocated, delivered>>
        /\ min_prev_negative' =
             IF IsUniformDecode
             THEN \E r \in DOMAIN request_data : last_token[request_data[r].slot_index] = Nobody
             ELSE min_prev_negative
        /\ sampled' \in [{r \in DOMAIN request_data : IsSampled(request_data[r])}
                          -> {"token", "eos"}]
    BY <1>2 DEF Execute
  <2>2. PICK bound \in Slot!Slots \cup {MaxNumSeqs} :
         /\ state_of' = [s \in Slot!Slots |->
              IF s \in PadSlots(bound) THEN Mixed
              ELSE IF BatchedAt(s) = {} THEN state_of[s]
              ELSE IF \E r \in BatchedAt(s) : BatchedAt(s) = {r} /\ ReadsOwnState(r)
                   THEN CHOOSE r \in BatchedAt(s) : TRUE ELSE Mixed]
         /\ last_token' = [s \in Slot!Slots |->
              IF \E r \in BatchedAt(s) : IsSampled(request_data[r])
              THEN CHOOSE r \in BatchedAt(s) : IsSampled(request_data[r])
              ELSE last_token[s]]
    BY <1>2 DEF Execute
  <2>3. \A s \in Slot!Slots : BatchedAt(s) \subseteq Requests
    BY <1>0 DEF BatchedAt
  <2>4. state_of' \in [Slot!Slots -> Requests \cup {Nobody, Mixed}]
    BY <1>0, <2>2, <2>3 DEF GpuTypes
  <2>5. last_token' \in [Slot!Slots -> Requests \cup {Nobody, Mixed}]
    BY <1>0, <2>2, <2>3 DEF GpuTypes
  <2>6. min_prev_negative' \in BOOLEAN
    BY <1>0, <2>1 DEF GpuTypes
  <2>7. \E S \in SUBSET Requests : sampled' \in [S -> {"token", "eos"}]
    BY <1>0, <2>1
  <2> QED BY <1>0, <2>1, <2>4, <2>5, <2>6, <2>7 DEF OutputTypes, GpuTypes
<1>3. CASE ProcessAbortsQueue
  BY <1>0, <1>3 DEF ProcessAbortsQueue, gpuVars, OutputTypes, GpuTypes
<1>4. CASE Update
  <2>1. UNCHANGED <<aborts_queue, sampled, gpuVars>>
    BY <1>4 DEF Update
  <2>2. OutputTypes'
    BY <1>0, <1>4, Delivery
  <2> QED BY <1>0, <2>1, <2>2 DEF GpuTypes, gpuVars
<1>5. CASE Condense
  <2>1. sampled' \in [{} -> {"token", "eos"}]
    BY <1>5 DEF Condense, NoRequests
  <2> QED BY <1>0, <1>5, <2>1 DEF Condense, OutputTypes, GpuTypes
<1>6. ASSUME NEW ids, AbortBetween(ids) PROVE OutputTypes' /\ GpuTypes'
  BY <1>0, <1>6, AbortOutput DEF AbortBetween, GpuTypes, gpuVars
<1>7. ASSUME NEW r \in Requests, RejectBetween(r) PROVE OutputTypes' /\ GpuTypes'
  BY <1>0, <1>7, RejectOutput DEF RejectBetween, GpuTypes, gpuVars
<1>8. CASE QueueIds
  BY <1>0, <1>8 DEF QueueIds, schedulerVars, OutputTypes, GpuTypes, gpuVars
<1>9. CASE AddBetween \/ ExecuteRaises
  BY <1>1, <1>9 DEF AddBetween, ExecuteRaises
<1>10. CASE Schedule /\ ModelIdle
  <2>1. UNCHANGED delivered
    BY <1>10 DEF Schedule, ScheduleStart, Phase1Schedule, Phase1Finish, Phase1Skip, Phase1Visit,
       Phase1End, Phase2Admit, Phase2Raise, Phase2HoldBack, Phase2Pop, Phase2Blocked, ScheduleEnd
  <2> QED BY <1>1, <1>10, <2>1 DEF ModelIdle
<1> QED
  BY <1>2, <1>3, <1>4, <1>5, <1>6, <1>7, <1>8, <1>9, <1>10 DEF Step, Drive, ModelIdle

\* Every value stays in its type.
LEMMA TypeNext ==
  ASSUME CoreInv, Step \/ Drive PROVE TypeOK'
<1>1. TypeOK' <=> /\ RequestTypes' /\ QueueTypes' /\ SlotTypes' /\ StepTypes'
                  /\ BatchTypes' /\ OutputTypes' /\ GpuTypes'
  BY TypeParts, PTL
<1> QED
  BY <1>1, RequestTypesNext, PlacesNext, SlotsNext, StepTypesNext, BatchNext, OutputTypesNext

-----------------------------------------------------------------------------
\* The update of a running request: it gets a token when it was sampled for, and is as
\* far as it then has to be.
LEMMA UpdateOnTrack ==
  ASSUME CoreInv, Update, NEW r \in running
  PROVE  /\ r \in running' => OnTrack(r)'
         /\ delivered'[r].tokens <= max_tokens'[r]
         /\ prompt_len'[r] + delivered'[r].tokens <= MaxModelLen
<1> DEFINE live == DOMAIN sampled \cap running
           gone == (finished_req_ids \cup {q \in live : sampled[q] = "eos"}) \cap running
           out == output_tokens[r]
           n == request_data[r].num_tokens
<1>0. /\ TypeOK /\ Batch /\ r \in Requests /\ r \in Running /\ OnTrack(r)
      /\ delivered[r].tokens <= max_tokens[r]
      /\ prompt_len[r] + delivered[r].tokens <= MaxModelLen
      /\ prompt_len[r] \in PromptLens /\ max_tokens[r] \in MaxTokens
  BY DEF CoreInv, Progress, Places, Running
<1>1. /\ pc = "update" /\ pc' = "condense"
      /\ UNCHANGED <<prompt_len, max_tokens, num_computed_tokens>>
  BY DEF Update, UpdateFromOutput
<1>2. /\ output_tokens'[r] = IF r \in gone THEN 0 ELSE out + (IF r \in live THEN 1 ELSE 0)
      /\ delivered'[r].tokens = delivered[r].tokens + (IF r \in live THEN 1 ELSE 0)
      /\ running' = running \ gone
  BY <1>0, Delivery
<1>3. /\ prompt_len[r] \in 1 .. MaxModelLen /\ max_tokens[r] \in Nat \ {0}
      /\ num_computed_tokens[r] \in Nat /\ out \in Nat /\ MaxModelLen \in Nat
      /\ delivered[r].tokens \in Nat
  <2>1. (\A k \in PromptLens : k \in 1 .. MaxModelLen) /\ \A k \in MaxTokens : k \in Nat \ {0}
    BY SchedulerAssumption
  <2>2. /\ num_computed_tokens[r] \in 0 .. MaxModelLen - 1 /\ out \in Nat /\ MaxModelLen \in Nat
        /\ delivered[r].tokens \in Nat
    BY <1>0, Numbers
  <2>3. prompt_len[r] \in 1 .. MaxModelLen /\ max_tokens[r] \in Nat \ {0}
    BY <1>0, <2>1
  <2>4. num_computed_tokens[r] \in Nat
    BY <2>2
  <2> QED BY <2>2, <2>3, <2>4
<1>4. Settled(r)' = num_computed_tokens[r]
  BY <1>1 DEF Settled
<1>5. CASE r \notin DOMAIN request_data
  <2>1. r \notin live
    BY <1>0, <1>1, <1>5 DEF Batch
  <2>2. Settled(r) = num_computed_tokens[r]
    BY <1>1, <1>5 DEF Settled, Before
  <2>3. r \in running' => output_tokens'[r] = out /\ delivered'[r].tokens = delivered[r].tokens
    BY <1>2, <1>3, <2>1
  <2>4. r \in running' => OnTrack(r)'
    BY <1>0, <1>1, <1>4, <2>2, <2>3 DEF OnTrack
  <2> QED BY <1>0, <1>1, <1>2, <1>3, <2>1, <2>4
<1>6. CASE r \in DOMAIN request_data
  <2>1. /\ EntryIsTrue(r) /\ n \in Nat /\ request_data[r].is_decode \in BOOLEAN
        /\ request_data[r].is_last_prefill \in BOOLEAN
    <3>1. n \in 1 .. MaxNumBatchedTokens /\ MaxNumBatchedTokens \in Nat
      BY <1>0, <1>6, BatchType, Numbers
    <3> QED BY <1>0, <1>6, <3>1, BatchType DEF Batch
  <2>2. Settled(r) = num_computed_tokens[r] - n /\ Before(r) = num_computed_tokens[r] - n
    BY <1>1, <1>6 DEF Settled, Before
  <2>3. r \in live <=> IsSampled(request_data[r])
    BY <1>0, <1>1, <1>6 DEF Batch
  <2>4. CASE request_data[r].is_decode
    <3>1. out > 0 /\ out < max_tokens[r] /\ num_computed_tokens[r] = prompt_len[r] + out
          /\ num_computed_tokens[r] < MaxModelLen /\ delivered[r].tokens = out
      BY <1>0, <1>1, <1>3, <1>6, <2>1, <2>2, <2>4 DEF OnTrack, EntryIsTrue
    <3>2. r \in live
      BY <2>3, <2>4 DEF IsSampled
    <3> QED BY <1>1, <1>2, <1>3, <1>4, <3>1, <3>2 DEF OnTrack
  <2>5. CASE ~request_data[r].is_decode /\ request_data[r].is_last_prefill
    <3>1. out = 0 /\ num_computed_tokens[r] = prompt_len[r]
          /\ num_computed_tokens[r] < MaxModelLen /\ delivered[r].tokens = 0
      BY <1>0, <1>1, <1>3, <1>6, <2>1, <2>2, <2>5 DEF OnTrack, EntryIsTrue
    <3>2. r \in live
      BY <2>3, <2>5 DEF IsSampled
    <3> QED BY <1>1, <1>2, <1>3, <1>4, <3>1, <3>2 DEF OnTrack
  <2>6. CASE ~request_data[r].is_decode /\ ~request_data[r].is_last_prefill
    <3>1. out = 0 /\ num_computed_tokens[r] < prompt_len[r] /\ delivered[r].tokens = 0
      BY <1>0, <1>1, <1>3, <1>6, <2>1, <2>2, <2>6 DEF OnTrack, EntryIsTrue
    <3>2. r \notin live
      BY <2>3, <2>6 DEF IsSampled
    <3> QED BY <1>0, <1>1, <1>2, <1>3, <1>4, <3>1, <3>2 DEF OnTrack
  <2> QED BY <2>1, <2>4, <2>5, <2>6
<1> QED BY <1>5, <1>6

\* Requests progress as their outputs do.
LEMMA ProgressNext ==
  ASSUME CoreInv, Step \/ Drive, Batch' PROVE Progress'
<1>0. /\ TypeOK /\ Places /\ Batch /\ Progress /\ SlotsHeld
      /\ running \subseteq Requests /\ status \in [Requests -> Statuses]
      /\ prompt_len \in [Requests -> PromptLens \cup {0}]
      /\ max_tokens \in [Requests -> MaxTokens \cup {0}]
      /\ DOMAIN request_data \subseteq Requests
  BY TypeParts, BatchType DEF CoreInv, QueueTypes, RequestTypes
<1>1. CASE /\ UNCHANGED <<status, prompt_len, max_tokens, num_computed_tokens, delivered,
                          running, output_tokens>>
           /\ \A r \in running : OnTrack(r) => OnTrack(r)'
  BY <1>0, <1>1 DEF Progress, Waiting, Running
<1>2. CASE ScheduleStart /\ ModelIdle
  <2>1. \A r \in running : OnTrack(r) => OnTrack(r)'
    BY <1>0, <1>2 DEF ScheduleStart, requestVars, queueVars, OnTrack, Settled, Before, NoRequests
  <2> QED BY <1>1, <1>2, <2>1 DEF ScheduleStart, requestVars, queueVars
<1>3. ASSUME NEW r \in Requests, Phase1Schedule(r), ModelIdle PROVE Progress'
  <2>1. /\ pc = "phase1" /\ NumNew(r) > 0 /\ ~ShouldFinish(r)
        /\ request_data' = With(request_data, r, RunData(r, req_to_slot[r]))
        /\ UNCHANGED <<pc, requestVars, queueVars, delivered>>
    BY <1>3 DEF Phase1Schedule, Phase1Visit
  <2>2. ASSUME NEW q \in running, OnTrack(q) PROVE OnTrack(q)'
    <3>1. Settled(q)' = Settled(q)
      BY <2>1 DEF Settled, Before, requestVars
    <3>2. q \in DOMAIN request_data' /\ request_data'[q].is_decode => output_tokens[q] < max_tokens[q]
      <4>1. CASE q = r
        <5>1. output_tokens[r] \in Nat /\ max_tokens[r] \in Nat
          BY <1>0, Numbers
        <5>2. request_data'[r].is_decode = IsDecode(r)
          BY <2>1 DEF With, RunData
        <5> QED BY <2>1, <4>1, <5>1, <5>2 DEF ShouldFinish
      <4>2. CASE q # r
        BY <2>1, <2>2, <4>2 DEF With, OnTrack
      <4> QED BY <4>1, <4>2
    <3> QED BY <2>1, <2>2, <3>1, <3>2 DEF OnTrack, requestVars, queueVars
  <2> QED BY <1>0, <1>1, <2>1, <2>2 DEF requestVars, queueVars
<1>4. CASE (\E r \in Requests : Phase1Finish(r) \/ Phase1Skip(r)) \/ Phase1End
  <2>1. UNCHANGED <<requestVars, queueVars, request_data, delivered>>
        /\ pc = "phase1" /\ pc' \in {"phase1", "phase2"}
    BY <1>4 DEF Phase1Finish, Phase1Skip, Phase1Visit, Phase1End, outputVars
  <2>2. \A r \in running : OnTrack(r) => OnTrack(r)'
    BY <2>1 DEF requestVars, queueVars, OnTrack, Settled, Before
  <2> QED BY <1>1, <2>1, <2>2 DEF requestVars, queueVars
<1>5. ASSUME NEW r \in Requests, Phase2Admit(r) PROVE Progress'
  <2>1. /\ pc = "phase2" /\ Phase2Pop(r) /\ running' = running \cup {r}
        /\ status' = [status EXCEPT ![r] = "RUNNING"]
        /\ output_tokens' = [output_tokens EXCEPT ![r] = 0]
        /\ request_data' = With(request_data, r, RunData(r, req_to_slot'[r]))
        /\ UNCHANGED <<pc, prompt_len, max_tokens, num_computed_tokens, delivered>>
    BY <1>5 DEF Phase2Admit, Phase2Pop, Phase2Open
  <2>2. r \in Waiting /\ r \notin running
    BY <1>0, <2>1, Popped DEF Places, Waiting, Running
  <2>3. num_computed_tokens[r] = 0 /\ delivered[r].tokens = 0 /\ prompt_len[r] \in PromptLens
    BY <1>0, <2>2 DEF Progress, Waiting
  <2>4. prompt_len[r] > 0
    <3>1. \A k \in PromptLens : k > 0
      BY SchedulerAssumption
    <3> QED BY <2>3, <3>1
  <2>5. output_tokens \in [Requests -> Nat]
    BY <1>0, TypeParts DEF QueueTypes
  <2>6. OnTrack(r)'
    <3>1. request_data'[r].is_decode = IsDecode(r)
      BY <2>1 DEF With, RunData
    <3>4. ~IsDecode(r)
      BY <1>0, <2>3, <2>4, Numbers
    <3>2. Settled(r)' = 0
      BY <2>1, <2>3 DEF Settled, Before
    <3>3. output_tokens'[r] = 0
      BY <2>1, <2>5
    <3> QED BY <2>1, <2>3, <2>4, <3>1, <3>2, <3>4, <3>3 DEF OnTrack
  <2>7. ASSUME NEW q \in running PROVE OnTrack(q)'
    <3>1. q # r /\ OnTrack(q) /\ output_tokens'[q] = output_tokens[q]
      BY <1>0, <2>1, <2>2, <2>5 DEF Progress
    <3>2. Settled(q)' = Settled(q)
      BY <2>1 DEF Settled, Before
    <3>3. /\ q \in DOMAIN request_data' => q \in DOMAIN request_data
          /\ q \in DOMAIN request_data => request_data'[q] = request_data[q]
      BY <2>1, <3>1 DEF With
    <3> QED BY <2>1, <3>1, <3>2, <3>3 DEF OnTrack
  <2>8. Waiting' \cup Running' = Waiting \cup Running
    BY <1>0, <2>1, <2>2 DEF Waiting, Running
  <2>9. /\ \A q \in Requests : status'[q] \in {"NEW", "WAITING"} => status[q] \in {"NEW", "WAITING"}
        /\ \A q \in Requests : status'[q] \in {"NEW", "WAITING", "RUNNING"}
                                 => status[q] \in {"NEW", "WAITING", "RUNNING"}
    BY <1>0, <2>1, <2>2 DEF Waiting
  <2> QED BY <1>0, <2>1, <2>6, <2>7, <2>8, <2>9 DEF Progress
<1>6. ASSUME NEW r \in Requests, Phase2Raise(r) PROVE Progress'
  <2>1. /\ pc = "phase2" /\ pc' = "raised" /\ Phase2Pop(r)
        /\ status' = [status EXCEPT ![r] = "RUNNING"]
        /\ UNCHANGED <<prompt_len, max_tokens, num_computed_tokens, delivered, running,
                       output_tokens, request_data>>
    BY <1>6 DEF Phase2Raise, Phase2Pop, Phase2Open
  <2>2. r \in Waiting
    BY <1>0, <2>1, Popped
  <2>3. \A q \in running : OnTrack(q) => OnTrack(q)'
    BY <2>1 DEF OnTrack, Settled, Before
  <2>4. Waiting' \cup Running' = Waiting \cup Running
    BY <1>0, <2>1, <2>2 DEF Waiting, Running
  <2>5. /\ \A q \in Requests : status'[q] \in {"NEW", "WAITING"} => status[q] \in {"NEW", "WAITING"}
        /\ \A q \in Requests : status'[q] \in {"NEW", "WAITING", "RUNNING"}
                                 => status[q] \in {"NEW", "WAITING", "RUNNING"}
    BY <1>0, <2>1, <2>2 DEF Waiting
  <2> QED BY <1>0, <2>1, <2>3, <2>4, <2>5 DEF Progress
<1>7. CASE (\E r \in Requests : Phase2HoldBack(r)) \/ Phase2Blocked
  <2>1. UNCHANGED <<requestVars, running, output_tokens, request_data, delivered, pc>>
    BY <1>7 DEF Phase2HoldBack, Phase2Pop, Phase2Blocked, outputVars, requestVars
  <2>2. \A r \in running : OnTrack(r) => OnTrack(r)'
    BY <2>1 DEF requestVars, OnTrack, Settled, Before
  <2> QED BY <1>1, <2>1, <2>2 DEF requestVars
<1>8. CASE ScheduleEnd
  <2>1. /\ pc = "phase2" /\ pc' \in {"execute", "aborts", "ready"}
        /\ (DOMAIN request_data # {} => pc' = "execute")
        /\ UNCHANGED <<status, prompt_len, max_tokens, delivered, running, output_tokens,
                       request_data>>
        /\ num_computed_tokens' =
             [r \in Requests |-> IF r \in DOMAIN request_data
                                 THEN num_computed_tokens[r] + request_data[r].num_tokens
                                 ELSE num_computed_tokens[r]]
    BY <1>8 DEF ScheduleEnd, outputVars
  <2>2. ASSUME NEW r \in Requests PROVE Settled(r)' = Settled(r)
    <3>1. CASE r \in DOMAIN request_data
      <4>1. num_computed_tokens[r] \in Int /\ request_data[r].num_tokens \in Int
        BY <1>0, <3>1, Numbers, BatchType
      <4> QED BY <2>1, <3>1, <4>1 DEF Settled, Before
    <3>2. CASE r \notin DOMAIN request_data
      BY <2>1, <3>2 DEF Settled, Before
    <3> QED BY <3>1, <3>2
  <2>3. \A r \in running : OnTrack(r) => OnTrack(r)'
    BY <1>0, <2>1, <2>2 DEF OnTrack
  <2>4. \A r \in Requests : status[r] \in {"NEW", "WAITING"} =>
          num_computed_tokens'[r] = num_computed_tokens[r]
    <3>1. \A r \in DOMAIN request_data : status[r] = "RUNNING"
      BY <1>0, <2>1 DEF Batch, Places, Running
    <3> QED BY <1>0, <2>1, <3>1
  <2> QED BY <1>0, <2>1, <2>3, <2>4 DEF Progress, Waiting, Running
<1>9. CASE Execute \/ ExecuteRaises
  <2>1. UNCHANGED <<requestVars, queueVars, request_data, delivered>>
        /\ pc = "execute" /\ pc' \in {"aborts", "failed"}
    BY <1>9 DEF Execute, ExecuteRaises, outputVars
  <2>2. \A r \in running : OnTrack(r) => OnTrack(r)'
    BY <2>1 DEF requestVars, queueVars, OnTrack, Settled, Before
  <2> QED BY <1>1, <2>1, <2>2 DEF requestVars, queueVars
<1>10. ASSUME NEW ids, FinishRequests(ids), UNCHANGED <<step_skipped, request_data>>,
              pc' = pc \/ (pc = "aborts" /\ pc' = "update"),
              \A r \in Requests : /\ delivered'[r].tokens = delivered[r].tokens
                                  /\ r \notin ids \cap Unfinished => delivered'[r] = delivered[r]
       PROVE  Progress'
  <2>1. /\ running' = running \ ids /\ Waiting' = Waiting \ (ids \cap Unfinished)
        /\ Running' = Running \ (ids \cap Unfinished)
    BY <1>0, <1>10, Finished
  <2>2. /\ UNCHANGED <<prompt_len, max_tokens, num_computed_tokens>>
        /\ output_tokens' = [r \in Requests |->
                               IF r \in ids \cap running THEN 0 ELSE output_tokens[r]]
        /\ status' = [r \in Requests |->
                        IF r \in ids \cap Unfinished THEN "FINISHED_ABORTED" ELSE status[r]]
    BY <1>10 DEF FinishRequests
  <2>3. ASSUME NEW r \in running' PROVE OnTrack(r)'
    <3>1. r \in running /\ output_tokens'[r] = output_tokens[r] /\ OnTrack(r) /\ r \in Requests
      BY <1>0, <2>1, <2>2 DEF Progress
    <3>2. Settled(r)' = Settled(r)
      BY <1>10, <2>2 DEF Settled, Before
    <3> QED BY <1>10, <2>2, <3>1, <3>2 DEF OnTrack
  <2>4. /\ \A r \in Requests : status'[r] \in {"NEW", "WAITING"} => status[r] \in {"NEW", "WAITING"}
        /\ \A r \in Requests : status'[r] \in {"NEW", "WAITING", "RUNNING"}
             => status[r] \in {"NEW", "WAITING", "RUNNING"} /\ delivered'[r] = delivered[r]
    BY <1>10, <2>2
  <2> QED BY <1>0, <1>10, <2>1, <2>2, <2>3, <2>4 DEF Progress
<1>11. CASE ProcessAbortsQueue
  BY <1>10, <1>11 DEF ProcessAbortsQueue, scheduleVars, outputVars
<1>12. CASE Update
  <2> DEFINE live == DOMAIN sampled \cap running
             gone == (finished_req_ids \cup {q \in live : sampled[q] = "eos"}) \cap running
  <2>1. /\ running' = running \ gone
        /\ status' = [r \in Requests |-> IF r \in gone THEN "FINISHED_STOPPED" ELSE status[r]]
        /\ \A r \in Requests :
              /\ r \notin gone => /\ delivered'[r].finishes = delivered[r].finishes
                                  /\ delivered'[r].reason = delivered[r].reason
              /\ r \notin running => delivered'[r] = delivered[r]
        /\ UNCHANGED <<prompt_len, max_tokens, num_computed_tokens>>
    <3>1. UNCHANGED <<prompt_len, max_tokens, num_computed_tokens>>
      BY <1>12 DEF Update, UpdateFromOutput
    <3> QED BY <1>0, <1>12, <3>1, Delivery
  <2>2. \A r \in running' : OnTrack(r)'
    BY <1>12, <2>1, UpdateOnTrack
  <2>3. \A r \in Requests : delivered'[r].tokens <= max_tokens'[r]
                            /\ prompt_len'[r] + delivered'[r].tokens <= MaxModelLen
    BY <1>0, <1>12, <2>1, UpdateOnTrack DEF Progress
  <2>4. /\ \A r \in Requests : status'[r] \in {"NEW", "WAITING"} =>
             status[r] \in {"NEW", "WAITING"} /\ r \notin running
        /\ \A r \in Requests : status'[r] \in {"NEW", "WAITING", "RUNNING"} =>
             status[r] \in {"NEW", "WAITING", "RUNNING"} /\ r \notin gone
    <3> HIDE DEF gone
    <3> QED BY <1>0, <2>1 DEF Places, Running
  <2>5. Waiting' \subseteq Waiting /\ Running' \subseteq Running
    <3> HIDE DEF gone
    <3> QED BY <2>1 DEF Waiting, Running
  <2> HIDE DEF gone
  <2> QED BY <1>0, <2>1, <2>2, <2>3, <2>4, <2>5 DEF Progress
<1>13. CASE Condense
  <2>1. UNCHANGED <<requestVars, queueVars, delivered>> /\ pc = "condense" /\ pc' = "ready"
        /\ request_data' = NoRequests
    BY <1>13 DEF Condense
  <2>2. \A r \in running : OnTrack(r) => OnTrack(r)'
    BY <2>1 DEF requestVars, queueVars, OnTrack, Settled, Before, NoRequests
  <2> QED BY <1>1, <2>1, <2>2 DEF requestVars, queueVars
<1>14. CASE AddBetween
  <2>1. PICK r \in Requests, prompt \in PromptLens, limit \in MaxTokens : AddRequest(r, prompt, limit)
    BY <1>14 DEF AddBetween
  <2>2. /\ status[r] = "NEW" /\ status' = [status EXCEPT ![r] = "WAITING"]
        /\ prompt_len' = [prompt_len EXCEPT ![r] = prompt]
        /\ max_tokens' = [max_tokens EXCEPT ![r] = limit]
        /\ UNCHANGED <<num_computed_tokens, running, output_tokens, delivered, pc, request_data>>
    BY <1>14, <2>1 DEF AddBetween, AddRequest, outputVars
  <2>3. r \notin running
    BY <1>0, <2>2 DEF Places, Running
  <2>4. ASSUME NEW q \in running PROVE OnTrack(q)'
    <3>1. OnTrack(q) /\ prompt_len'[q] = prompt_len[q] /\ max_tokens'[q] = max_tokens[q]
      BY <1>0, <2>2, <2>3 DEF Progress
    <3>2. Settled(q)' = Settled(q)
      BY <2>2 DEF Settled, Before
    <3> QED BY <2>2, <3>1, <3>2 DEF OnTrack
  <2>5. prompt \in 1 .. MaxModelLen /\ limit \in Nat /\ delivered[r].tokens = 0 /\ MaxModelLen \in Nat
    BY <1>0, <2>2, SchedulerAssumption DEF Progress
  <2>6. Waiting' \cup Running' = Waiting \cup Running \cup {r}
    BY <1>0, <2>2 DEF Waiting, Running
  <2>7. \A q \in Waiting' \cup Running' : prompt_len'[q] \in PromptLens /\ max_tokens'[q] \in MaxTokens
    BY <1>0, <2>2, <2>6 DEF Progress
  <2>8. \A q \in Requests : delivered'[q].tokens <= max_tokens'[q]
                            /\ prompt_len'[q] + delivered'[q].tokens <= MaxModelLen
    BY <1>0, <2>2, <2>5 DEF Progress
  <2>9. \A q \in Requests : status'[q] = status[q] \/ (q = r /\ status[r] = "NEW")
    BY <1>0, <2>2
  <2> QED BY <1>0, <2>2, <2>4, <2>7, <2>8, <2>9 DEF Progress
<1>15. ASSUME NEW ids, AbortBetween(ids) PROVE Progress'
  <2>1. \A r \in Requests : /\ delivered'[r].tokens = delivered[r].tokens
                            /\ r \notin ids \cap Unfinished => delivered'[r] = delivered[r]
    BY <1>0, <1>15, AbortOutput
  <2> QED BY <1>10, <1>15, <2>1 DEF AbortBetween, scheduleVars, outputVars
<1>16. ASSUME NEW r \in Requests, RejectBetween(r) PROVE Progress'
  <2>1. /\ status[r] = "NEW" /\ status' = [status EXCEPT ![r] = "FINISHED_ABORTED"]
        /\ UNCHANGED <<prompt_len, max_tokens, num_computed_tokens, running, output_tokens,
                       request_data, pc>>
    BY <1>16 DEF RejectBetween, queueVars, outputVars
  <2>2. \A q \in Requests : /\ delivered'[q].tokens = delivered[q].tokens
                            /\ q # r => delivered'[q] = delivered[q]
    BY <1>0, <1>16, RejectOutput
  <2>3. \A q \in Requests : status'[q] = IF q = r THEN "FINISHED_ABORTED" ELSE status[q]
    BY <1>0, <2>1
  <2>4. r \notin running
    BY <1>0, <2>1 DEF Places, Running
  <2>5. ASSUME NEW q \in running PROVE OnTrack(q)'
    <3>1. OnTrack(q) /\ q \in Requests
      BY <1>0 DEF Progress
    <3> QED BY <2>1, <2>2, <3>1 DEF OnTrack, Settled, Before
  <2>6. Waiting' \subseteq Waiting /\ Running' \subseteq Running
    BY <2>3 DEF Waiting, Running
  <2> QED BY <1>0, <2>1, <2>2, <2>3, <2>5, <2>6 DEF Progress
<1>17. CASE QueueIds
  <2>1. UNCHANGED <<requestVars, queueVars, pc, delivered, request_data>>
    BY <1>17 DEF QueueIds, schedulerVars, outputVars
  <2>2. \A r \in running : OnTrack(r) => OnTrack(r)'
    BY <2>1 DEF requestVars, queueVars, OnTrack, Settled, Before
  <2> QED BY <1>1, <2>1, <2>2 DEF requestVars, queueVars
<1> QED
  BY <1>2, <1>3, <1>4, <1>5, <1>6, <1>7, <1>8, <1>9, <1>11, <1>12, <1>13, <1>14, <1>15,
     <1>16, <1>17 DEF Step, Schedule, Drive, ModelIdle

-----------------------------------------------------------------------------
(***************************************************************************)
(* CoreInv is an invariant of both specifications.                         *)
(***************************************************************************)
LEMMA CoreNext == CoreInv /\ (Step \/ Drive) => CoreInv'
<1> SUFFICES ASSUME CoreInv, Step \/ Drive PROVE CoreInv'
  OBVIOUS
<1>1. /\ TypeOK' /\ Places' /\ SlotsHeld' /\ Batch'
  BY TypeNext, PlacesNext, SlotsNext, BatchNext
<1>2. Progress'
  BY <1>1, ProgressNext
<1> QED BY <1>1, <1>2 DEF CoreInv

\* An in-process abort is an abort between two steps.
LEMMA AbortNowIsBetween ==
  ASSUME TypeOK, NEW r \in Requests, AbortNow(r) PROVE AbortBetween({r})
<1>1. /\ delivered' = [delivered EXCEPT ![r].finishes = @ + 1, ![r].reason = "abort"]
      /\ r \in Unfinished
  BY DEF AbortNow
<1>2. delivered \in [Requests -> Outputs]
  BY TypeParts DEF OutputTypes, Outputs
<1>3. /\ \A q \in Requests \ {r} : delivered'[q] = delivered[q]
      /\ delivered'[r] = [delivered[r] EXCEPT !.finishes = @ + 1, !.reason = "abort"]
      /\ DOMAIN delivered' = Requests /\ delivered' = [q \in Requests |-> delivered'[q]]
  BY <1>1, <1>2
<1>4. delivered' = [q \in Requests |->
        IF q \in {r} \cap Unfinished
        THEN [delivered[q] EXCEPT !.finishes = @ + 1, !.reason = "abort"]
        ELSE delivered[q]]
  <2> DEFINE new == [q \in Requests |->
        IF q \in {r} \cap Unfinished
        THEN [delivered[q] EXCEPT !.finishes = @ + 1, !.reason = "abort"]
        ELSE delivered[q]]
  <2>1. \A q \in Requests : new[q] = delivered'[q]
    BY <1>1, <1>3
  <2> QED BY <1>3, <2>1
<1> QED BY <1>4 DEF AbortNow, AbortBetween

\* Whoever drives the engine, a step of it is one that CoreInv is inductive for.
LEMMA EveryMove ==
  ASSUME TypeOK, [Next]_vars \/ [InprocNext]_vars PROVE Step \/ Drive
<1>1. CASE UNCHANGED vars
  <2>1. QueueIds
    BY <1>1, TypeParts DEF vars, QueueIds, GpuTypes
  <2> QED BY <2>1 DEF Drive
<1>2. CASE Add
  BY <1>2 DEF Add, AddBetween, Drive
<1>3. ASSUME NEW r \in Requests, AbortLater(r) PROVE Drive
  <2>1. QueueIds
    BY <1>3, TypeParts DEF AbortLater, QueueIds, GpuTypes
  <2> QED BY <2>1 DEF Drive
<1>4. ASSUME NEW r \in Requests, AbortNow(r) PROVE Drive
  <2>1. AbortBetween({r}) /\ {r} \in SUBSET Requests
    BY <1>4, AbortNowIsBetween
  <2> QED BY <2>1 DEF Drive
<1> QED BY <1>1, <1>2, <1>3, <1>4 DEF Next, InprocNext

LEMMA DrivenInvariant == DrivenSpec => []CoreInv
<1>1. CoreInv /\ UNCHANGED vars => CoreInv'
  BY CoreNext, EveryMove DEF CoreInv
<1> QED BY InitCore, CoreNext, <1>1, PTL DEF DrivenSpec

LEMMA CoreInvariant == (Spec => []CoreInv) /\ (InprocSpec => []CoreInv)
<1>1. CoreInv /\ [Next]_vars => CoreInv'
  BY CoreNext, EveryMove DEF CoreInv
<1>2. CoreInv /\ [InprocNext]_vars => CoreInv'
  BY CoreNext, EveryMove DEF CoreInv
<1> QED BY InitCore, <1>1, <1>2, PTL DEF Spec, InprocSpec

LEMMA EveryDriver == (Spec => DrivenSpec) /\ (InprocSpec => DrivenSpec)
<1>1. CoreInv /\ [Next]_vars => [Step \/ Drive]_vars
  BY EveryMove DEF CoreInv
<1>2. CoreInv /\ [InprocNext]_vars => [Step \/ Drive]_vars
  BY EveryMove DEF CoreInv
<1> QED BY <1>1, <1>2, CoreInvariant, PTL DEF Spec, InprocSpec, DrivenSpec

\* Type correctness of the engine: every value stays in its type, in particular the
\* token budget never goes below zero and no slot index leaves the slots there are.
THEOREM TypeCorrect == (Spec => []TypeOK) /\ (InprocSpec => []TypeOK) /\ (DrivenSpec => []TypeOK)
<1>1. CoreInv => TypeOK
  BY DEF CoreInv
<1> QED BY <1>1, CoreInvariant, DrivenInvariant, PTL

-----------------------------------------------------------------------------
(***************************************************************************)
(* The properties that the runs check, from CoreInv and, for most of them, *)
(* one more invariant that is inductive together with it.                  *)
(***************************************************************************)
\* Who holds a slot: allocate adds one request, batch_condense takes away those freed.
LEMMA HoldersNext ==
  ASSUME CoreInv, Step \/ Drive
  PROVE  /\ \A r \in Requests : Phase2Admit(r) => Slot!Holders' = Slot!Holders \cup {r}
         /\ Condense => Slot!Holders' = Slot!Holders \ freed
         /\ \/ \E r \in Requests : Phase2Admit(r)
            \/ Condense
            \/ UNCHANGED req_to_slot /\ Slot!Holders' = Slot!Holders
<1>0. /\ req_to_slot \in [Requests -> Slot!Slots \cup {Slot!NoSlot}]
      /\ \A s \in Slot!Slots : s # Slot!NoSlot
  BY TypeParts, SchedulerAssumption DEF CoreInv, SlotTypes, Slot!Slots, Slot!NoSlot
<1>1. ASSUME NEW r \in Requests, Phase2Admit(r) PROVE Slot!Holders' = Slot!Holders \cup {r}
  <2>1. PICK s \in Slot!Slots : req_to_slot' = [req_to_slot EXCEPT ![r] = s]
    BY <1>1 DEF Phase2Admit, Slot!Allocate
  <2> QED BY <1>0, <2>1 DEF Slot!Holders
<1>2. ASSUME Condense PROVE Slot!Holders' = Slot!Holders \ freed
  <2>1. CASE freed = {}
    BY <1>2, <2>1 DEF Condense, Slot!Holders
  <2>2. CASE freed # {}
    <3> DEFINE rest == Slot!Holders \ freed
    <3>1. PICK new \in [rest -> Slot!Slots] :
            req_to_slot' = [r \in Requests |-> IF r \in rest THEN new[r] ELSE Slot!NoSlot]
      BY <1>2, <2>2 DEF Condense, Slot!BatchCondense
    <3>2. rest \subseteq Requests
      BY DEF Slot!Holders
    <3> HIDE DEF rest
    <3>3. \A r \in rest : req_to_slot'[r] = new[r] /\ new[r] \in Slot!Slots
      BY <3>1, <3>2
    <3>4. Slot!Holders' = rest
      BY <1>0, <3>1, <3>2, <3>3 DEF Slot!Holders
    <3> QED BY <3>4 DEF rest
  <2> QED BY <2>1, <2>2
<1>3. UNCHANGED req_to_slot => Slot!Holders' = Slot!Holders
  BY DEF Slot!Holders
<1>4. \/ \E r \in Requests : Phase2Admit(r)
      \/ Condense
      \/ UNCHANGED req_to_slot
  BY DEF Step, Schedule, Drive, ScheduleStart, Phase1Schedule, Phase1Finish, Phase1Skip,
     Phase1Visit, Phase1End, Phase2Raise, Phase2HoldBack, Phase2Blocked, ScheduleEnd, Execute,
     ExecuteRaises, ProcessAbortsQueue, Update, UpdateFromOutput, AddBetween, AbortBetween,
     RejectBetween, QueueIds, schedulerVars
<1> QED BY <1>1, <1>2, <1>3, <1>4

\* There is a slot for everyone phase 2 admits, unless someone who has ended holds one.
LEMMA RaiseNeedsLeak ==
  ASSUME CoreInv, NEW r \in Requests, Phase2Raise(r) PROVE Slot!Holders \cap Ended # {}
<1> SUFFICES ASSUME Slot!Holders \cap Ended = {} PROVE FALSE
  OBVIOUS
<1>1. TypeOK /\ SlotsHeld
  BY DEF CoreInv
<1>2. Slot!Used = Slot!Slots /\ Cardinality(running) < MaxNumSeqs
  BY DEF Phase2Raise, Phase2Pop, Phase2Open
<1>3. Slot!Holders = running
  BY <1>1 DEF SlotsHeld
<1> DEFINE f == [q \in Slot!Holders |-> req_to_slot[q]]
<1>4. f \in Surjection(Slot!Holders, Slot!Slots)
  <2>1. \A q \in Slot!Holders : req_to_slot[q] \in Slot!Slots
    BY <1>2 DEF Slot!Used
  <2>2. f \in [Slot!Holders -> Slot!Slots]
    BY <2>1
  <2>3. \A s \in Slot!Slots : \E q \in Slot!Holders : f[q] = s
    BY <1>2 DEF Slot!Used
  <2> QED BY <2>2, <2>3 DEF Surjection
<1>5. Cardinality(Slot!Slots) <= Cardinality(Slot!Holders)
  BY <1>1, <1>4, FewRunning, FS_Surjection
<1>6. Cardinality(running) \in Nat /\ Cardinality(Slot!Slots) = MaxNumSeqs /\ MaxNumSeqs \in Nat
  BY <1>1, FewRunning, SchedulerAssumption
<1> QED BY <1>2, <1>3, <1>5, <1>6

-----------------------------------------------------------------------------
(***************************************************************************)
(* Aborts through aborts_queue: every slot comes back.                     *)
(***************************************************************************)
LEMMA QueuedAbortsNext ==
  ASSUME CoreInv, QueuedAbortsOnly, [Next]_vars PROVE QueuedAbortsOnly'
<1>0. /\ TypeOK /\ Places /\ SlotsHeld /\ Batch /\ Progress
      /\ Slot!Holders = running \cup freed /\ pc # "raised"
      /\ running \subseteq Requests /\ status \in [Requests -> Statuses]
      /\ aborts_queue \subseteq Requests
      /\ \A r \in Requests : delivered[r].finishes = IF status[r] = "FINISHED_STOPPED" THEN 1 ELSE 0
  BY TypeParts DEF CoreInv, QueuedAbortsOnly, QueueTypes, RequestTypes, GpuTypes
<1>1. Step \/ Drive
  BY <1>0, EveryMove
<1>2. CASE /\ UNCHANGED <<req_to_slot, running, freed, status, delivered>> /\ pc' # "raised"
  BY <1>0, <1>2 DEF QueuedAbortsOnly, Slot!Holders
<1>3. CASE UNCHANGED vars \/ \E r \in Requests : AbortLater(r)
  BY <1>0, <1>2, <1>3 DEF vars, AbortLater, schedulerVars, requestVars, queueVars
<1>4. CASE Add
  <2>1. PICK r \in Requests : status[r] = "NEW" /\ status' = [status EXCEPT ![r] = "WAITING"]
    BY <1>4 DEF Add, AddRequest
  <2>2. UNCHANGED <<req_to_slot, running, freed, delivered, pc>>
    BY <1>4 DEF Add, AddRequest
  <2> QED BY <1>0, <2>1, <2>2 DEF QueuedAbortsOnly, Slot!Holders
<1>5. ASSUME NEW r \in Requests, Phase2Admit(r) PROVE QueuedAbortsOnly'
  <2>1. /\ Slot!Holders' = Slot!Holders \cup {r} /\ running' = running \cup {r}
        /\ status' = [status EXCEPT ![r] = "RUNNING"] /\ Phase2Pop(r)
        /\ UNCHANGED <<pc, freed, delivered>>
    BY <1>1, <1>5, HoldersNext DEF Phase2Admit, Phase2Pop
  <2>2. r \in Waiting
    BY <1>0, <2>1, Popped
  <2> QED BY <1>0, <2>1, <2>2 DEF QueuedAbortsOnly, Waiting
<1>6. ASSUME NEW r \in Requests, Phase2Raise(r) PROVE FALSE
  <2>1. pc = "phase2"
    BY <1>6 DEF Phase2Raise, Phase2Pop, Phase2Open
  <2>2. freed = {} /\ running \cap Ended = {}
    BY <1>0, <2>1 DEF SlotsHeld, Places, Running, Ended
  <2> QED BY <1>0, <1>6, <2>2, RaiseNeedsLeak
<1>7. CASE ProcessAbortsQueue
  <2>1. /\ FinishRequests(aborts_queue) /\ pc = "aborts" /\ pc' = "update"
        /\ freed' = aborts_queue \cap Slot!Holders
        /\ UNCHANGED <<req_to_slot, step_skipped, delivered>>
    BY <1>7 DEF ProcessAbortsQueue, scheduleVars
  <2>2. /\ running' = running \ aborts_queue
        /\ status' = [r \in Requests |-> IF r \in aborts_queue \cap Unfinished
                                         THEN "FINISHED_ABORTED" ELSE status[r]]
    BY <2>1 DEF FinishRequests
  <2>3. freed = {} /\ Slot!Holders' = Slot!Holders
    BY <1>0, <2>1 DEF SlotsHeld, Slot!Holders
  <2>4. \A r \in Unfinished : status[r] # "FINISHED_STOPPED"
    BY <1>0 DEF Unfinished, Places, Waiting, Running
  <2> QED BY <1>0, <2>1, <2>2, <2>3, <2>4 DEF QueuedAbortsOnly
<1>8. CASE Update
  <2> DEFINE live == DOMAIN sampled \cap running
             gone == (finished_req_ids \cup {q \in live : sampled[q] = "eos"}) \cap running
  <2>1. /\ running' = running \ gone /\ freed' = freed \cup gone
        /\ status' = [r \in Requests |-> IF r \in gone THEN "FINISHED_STOPPED" ELSE status[r]]
        /\ \A r \in Requests : delivered'[r].finishes =
              IF r \in gone THEN delivered[r].finishes + 1 ELSE delivered[r].finishes
    BY <1>0, <1>8, Delivery
  <2>2. pc' = "condense" /\ UNCHANGED req_to_slot
    BY <1>8 DEF Update, UpdateFromOutput
  <2>3. gone \subseteq running
    OBVIOUS
  <2> HIDE DEF gone
  <2>4. \A r \in gone : status[r] = "RUNNING"
    BY <1>0, <2>3 DEF Places, Running
  <2>5. Slot!Holders' = running' \cup freed'
    BY <1>0, <2>1, <2>2, <2>3 DEF Slot!Holders
  <2>6. \A r \in Requests : delivered'[r].finishes = IF status'[r] = "FINISHED_STOPPED" THEN 1 ELSE 0
    BY <1>0, <2>1, <2>4
  <2> QED BY <2>2, <2>5, <2>6 DEF QueuedAbortsOnly
<1>9. CASE Condense
  <2>1. Slot!Holders' = Slot!Holders \ freed
    BY <1>1, <1>9, HoldersNext
  <2>2. /\ freed' = {} /\ pc' = "ready" /\ UNCHANGED <<running, status, delivered>>
    BY <1>9 DEF Condense, queueVars, requestVars
  <2>3. running \cap freed = {}
    BY <1>0 DEF SlotsHeld, Places, Running, Ended
  <2> QED BY <1>0, <2>1, <2>2, <2>3 DEF QueuedAbortsOnly
<1>10. CASE \/ ScheduleStart
            \/ \E r \in Requests : Phase1Schedule(r)
            \/ \E r \in Requests : Phase1Finish(r)
            \/ \E r \in Requests : Phase1Skip(r)
            \/ Phase1End
            \/ \E r \in Requests : Phase2HoldBack(r)
            \/ Phase2Blocked \/ ScheduleEnd \/ Execute \/ ExecuteRaises
  BY <1>0, <1>2, <1>10 DEF ScheduleStart, Phase1Schedule, Phase1Finish, Phase1Skip, Phase1Visit,
     Phase1End, Phase2HoldBack, Phase2Pop, Phase2Open, Phase2Blocked, ScheduleEnd, Execute,
     ExecuteRaises, requestVars, queueVars
<1> QED
  BY <1>3, <1>4, <1>5, <1>6, <1>7, <1>8, <1>9, <1>10 DEF Next, Step, Schedule

LEMMA QueuedAbortsInit == Init => QueuedAbortsOnly
<1> SUFFICES ASSUME Init PROVE QueuedAbortsOnly
  OBVIOUS
<1>1. Slot!Holders = {} /\ running = {} /\ freed = {} /\ pc = "ready"
  BY DEF Init, SchedulerInit, Slot!Init, Slot!Holders
<1>2. \A r \in Requests : status[r] = "NEW" /\ delivered[r].finishes = 0
  BY DEF Init, SchedulerInit
<1> QED BY <1>1, <1>2 DEF QueuedAbortsOnly

LEMMA QueuedAborts == Spec => [](CoreInv /\ QueuedAbortsOnly)
<1>1. CoreInv /\ QueuedAbortsOnly /\ [Next]_vars => QueuedAbortsOnly'
  BY QueuedAbortsNext
<1> QED BY CoreInvariant, QueuedAbortsInit, <1>1, PTL DEF Spec

\* As long as aborts go through aborts_queue, the slots in use are those of the running
\* requests and of the requests this step is about to free, so counting running requests
\* against max_num_seqs is enough for allocate never to raise.
THEOREM SlotsFollowRunningAlways == Spec => []SlotsFollowRunning
<1>1. CoreInv /\ QueuedAbortsOnly => SlotsFollowRunning
  <2> SUFFICES ASSUME CoreInv, QueuedAbortsOnly PROVE SlotsFollowRunning
    OBVIOUS
  <2>1. running \cap freed = {}
    BY DEF CoreInv, SlotsHeld, Places, Running, Ended
  <2>2. pc = "ready" => freed = {}
    BY DEF CoreInv, SlotsHeld
  <2> QED BY <2>1, <2>2 DEF QueuedAbortsOnly, SlotsFollowRunning
<1> QED BY <1>1, QueuedAborts, PTL

\* A waiting request is in one of three queues, once, and the running list has exactly
\* the requests whose status says so: schedule(), update_from_output and
\* finish_requests lose no request and duplicate none.
THEOREM OnePlaceAlways ==
  (Spec => []OnePlace) /\ (InprocSpec => [](pc # "raised" => OnePlace))
<1>1. CoreInv /\ pc # "raised" => OnePlace
  <2> SUFFICES ASSUME CoreInv, pc # "raised", NEW r \in Requests
               PROVE  /\ Occurrences(r, skipped_waiting) + Occurrences(r, waiting)
                           + Occurrences(r, step_skipped)
                           = IF status[r] = "WAITING" THEN 1 ELSE 0
                      /\ r \in running <=> status[r] = "RUNNING"
    BY DEF OnePlace
  <2>1. /\ waiting \in Seq(Requests) /\ skipped_waiting \in Seq(Requests)
        /\ step_skipped \in Seq(Requests)
    BY TypeParts DEF CoreInv, QueueTypes
  <2>2. Places
    BY DEF CoreInv
  <2>3. /\ Occurrences(r, waiting) = IF r \in Elements(waiting) THEN 1 ELSE 0
        /\ Occurrences(r, skipped_waiting) = IF r \in Elements(skipped_waiting) THEN 1 ELSE 0
        /\ Occurrences(r, step_skipped) = IF r \in Elements(step_skipped) THEN 1 ELSE 0
    BY <2>1, <2>2, OccursOnce DEF Places, Occurrences
  <2>4. r \in Waiting <=> r \in Elements(waiting) \/ r \in Elements(skipped_waiting)
                          \/ r \in Elements(step_skipped)
    BY <2>2 DEF Places
  <2>5. r \in running <=> status[r] = "RUNNING"
    BY <2>2 DEF Places, Running
  <2>6. Occurrences(r, skipped_waiting) + Occurrences(r, waiting) + Occurrences(r, step_skipped)
          = IF status[r] = "WAITING" THEN 1 ELSE 0
    BY <2>2, <2>3, <2>4 DEF Places, Waiting
  <2> QED BY <2>5, <2>6
<1>2. QueuedAbortsOnly => pc # "raised"
  BY DEF QueuedAbortsOnly
<1> QED BY <1>1, <1>2, CoreInvariant, QueuedAborts, PTL

-----------------------------------------------------------------------------
(***************************************************************************)
(* What holds whoever aborts: InprocSpec as well as Spec.                  *)
(***************************************************************************)
\* A running request that has output has absorbed its prompt and its output but the last
\* token, and everything sampled was delivered, between any two steps.
THEOREM ProgressMatchesOutputAlways ==
  /\ Spec => []ProgressMatchesOutput
  /\ InprocSpec => []ProgressMatchesOutput
  /\ DrivenSpec => []ProgressMatchesOutput
<1>1. CoreInv => ProgressMatchesOutput
  <2> SUFFICES ASSUME CoreInv, pc = "ready", NEW r \in running
               PROVE  /\ IF output_tokens[r] > 0
                         THEN num_computed_tokens[r] = prompt_len[r] + output_tokens[r] - 1
                         ELSE num_computed_tokens[r] < prompt_len[r]
                      /\ delivered[r].tokens = output_tokens[r]
    BY DEF ProgressMatchesOutput
  <2>1. OnTrack(r)
    BY DEF CoreInv, Progress
  <2>2. Settled(r) = num_computed_tokens[r]
    BY DEF Settled, Before
  <2> QED BY <2>1, <2>2 DEF OnTrack
<1> QED BY <1>1, CoreInvariant, DrivenInvariant, PTL

\* No step and nobody who drives the engine touches a request that has ended: the update
\* of a batch that still contains it skips it, and an abort does not find it.
LEMMA EndedStays ==
  ASSUME CoreInv, Step \/ Drive, NEW r \in Ended
  PROVE  delivered'[r] = delivered[r] /\ status'[r] = status[r]
<1>0. /\ TypeOK /\ Places /\ r \in Requests /\ status \in [Requests -> Statuses]
      /\ r \notin running /\ status[r] \in {"FINISHED_STOPPED", "FINISHED_ABORTED"}
  BY TypeParts DEF CoreInv, RequestTypes, Ended, Places, Running
<1>1. CASE UNCHANGED <<status, delivered>>
  BY <1>1
<1>2. ASSUME NEW q \in Requests, Phase2Admit(q) \/ Phase2Raise(q)
      PROVE  delivered'[r] = delivered[r] /\ status'[r] = status[r]
  <2>1. /\ Phase2Pop(q) /\ status' = [status EXCEPT ![q] = "RUNNING"] /\ UNCHANGED delivered
    BY <1>2 DEF Phase2Admit, Phase2Raise, Phase2Pop
  <2>2. q # r
    BY <1>0, <2>1, Popped DEF Waiting
  <2> QED BY <1>0, <2>1, <2>2
<1>3. r \notin Unfinished
  BY <1>0 DEF Unfinished, Places, Waiting, Running
<1>4. CASE ProcessAbortsQueue
  BY <1>0, <1>3, <1>4 DEF ProcessAbortsQueue, FinishRequests
<1>5. CASE Update
  BY <1>0, <1>5, Delivery
<1>6. ASSUME NEW ids, AbortBetween(ids)
      PROVE  delivered'[r] = delivered[r] /\ status'[r] = status[r]
  BY <1>0, <1>3, <1>6 DEF AbortBetween, FinishRequests
<1>7. ASSUME NEW q \in Requests, RejectBetween(q)
      PROVE  delivered'[r] = delivered[r] /\ status'[r] = status[r]
  BY <1>0, <1>7, RejectOutput DEF RejectBetween
<1>8. CASE AddBetween
  BY <1>0, <1>8 DEF AddBetween, AddRequest
<1>9. CASE \/ ScheduleStart
           \/ \E q \in Requests : Phase1Schedule(q)
           \/ \E q \in Requests : Phase1Finish(q)
           \/ \E q \in Requests : Phase1Skip(q)
           \/ Phase1End
           \/ \E q \in Requests : Phase2HoldBack(q)
           \/ Phase2Blocked \/ ScheduleEnd \/ Execute \/ ExecuteRaises \/ Condense \/ QueueIds
  BY <1>1, <1>9 DEF ScheduleStart, Phase1Schedule, Phase1Finish, Phase1Skip, Phase1Visit,
     Phase1End, Phase2HoldBack, Phase2Pop, Phase2Blocked, ScheduleEnd, Execute,
     ExecuteRaises, Condense, QueueIds, requestVars, schedulerVars
<1> QED
  BY <1>2, <1>4, <1>5, <1>6, <1>7, <1>8, <1>9 DEF Step, Schedule, Drive

\* Once a request has ended, no later step changes what its client has seen.
THEOREM NothingAfterTheEndEver ==
  /\ Spec => NothingAfterTheEnd
  /\ InprocSpec => NothingAfterTheEnd
  /\ DrivenSpec => NothingAfterTheEnd
<1> DEFINE Same == \A r \in Ended : delivered'[r] = delivered[r] /\ status'[r] = status[r]
<1>1. CoreInv /\ [Step \/ Drive]_vars => [Same]_vars
  BY EndedStays
<1>2. NothingAfterTheEnd <=> [][Same]_vars
  BY DEF NothingAfterTheEnd
<1> QED BY <1>1, <1>2, DrivenInvariant, EveryDriver, PTL DEF DrivenSpec

LEMMA SlotsLeakNext == CoreInv /\ SlotsLeak /\ (Step \/ Drive) => SlotsLeak'
<1> SUFFICES ASSUME CoreInv, SlotsLeak, Step \/ Drive, pc' = "raised"
             PROVE  Slot!Holders' \cap Ended' # {}
  BY DEF SlotsLeak
<1>0. TypeOK /\ Places
  BY DEF CoreInv
<1>1. ASSUME NEW r \in Requests, Phase2Raise(r) PROVE Slot!Holders' \cap Ended' # {}
  <2>1. /\ Phase2Pop(r) /\ status' = [status EXCEPT ![r] = "RUNNING"] /\ UNCHANGED req_to_slot
    BY <1>1 DEF Phase2Raise
  <2>2. r \in Waiting /\ status \in [Requests -> Statuses]
    BY <1>0, <2>1, Popped, TypeParts DEF RequestTypes
  <2>3. Ended' = Ended /\ Slot!Holders' = Slot!Holders
    BY <2>1, <2>2 DEF Ended, Waiting, Slot!Holders
  <2> QED BY <1>1, <2>3, RaiseNeedsLeak
<1>2. ASSUME NEW ids, AbortBetween(ids) PROVE Slot!Holders' \cap Ended' # {}
  <2>1. pc = "raised" /\ FinishRequests(ids) /\ UNCHANGED <<req_to_slot, step_skipped, pc>>
    BY <1>2 DEF AbortBetween, scheduleVars
  <2>2. Ended' = Ended \cup (ids \cap Unfinished) /\ Slot!Holders' = Slot!Holders
    BY <1>0, <2>1, Finished DEF Slot!Holders
  <2> QED BY <2>1, <2>2 DEF SlotsLeak
<1>3. CASE QueueIds
  BY <1>3 DEF QueueIds, schedulerVars, requestVars, SlotsLeak, Slot!Holders, Ended
<1> QED
  BY <1>1, <1>2, <1>3 DEF Step, Schedule, Drive, ScheduleStart, Phase1Schedule, Phase1Finish,
     Phase1Skip, Phase1Visit, Phase1End, Phase2Admit, Phase2HoldBack, Phase2Pop, Phase2Open,
     Phase2Blocked, ScheduleEnd, Execute, ExecuteRaises, ProcessAbortsQueue, Update,
     UpdateFromOutput, Condense, AddBetween, RejectBetween

\* With aborts between two steps allocate can raise, but only when a request that has
\* ended still holds a slot, and the request it was called for is the only one lost.
THEOREM RaiseMeansLeakAlways ==
  (InprocSpec => []RaiseMeansLeak) /\ (DrivenSpec => []RaiseMeansLeak)
<1>1. Init => SlotsLeak
  BY DEF Init, SchedulerInit, SlotsLeak
<1>2. CoreInv /\ SlotsLeak /\ [Step \/ Drive]_vars => SlotsLeak'
  <2>1. CoreInv /\ SlotsLeak /\ UNCHANGED vars => SlotsLeak'
    BY SlotsLeakNext, EveryMove DEF CoreInv
  <2> QED BY <2>1, SlotsLeakNext
<1>3. CoreInv /\ SlotsLeak => RaiseMeansLeak
  <2> SUFFICES ASSUME CoreInv, SlotsLeak, pc = "raised" PROVE RaiseMeansLeak
    BY DEF RaiseMeansLeak
  <2>1. PICK r \in Requests : Running \ running = {r}
    BY DEF CoreInv, Places
  <2>2. {q \in Requests : status[q] = "RUNNING" /\ q \notin running} = {r}
    BY <2>1 DEF Running
  <2> QED BY <2>2, FS_Singleton DEF SlotsLeak, RaiseMeansLeak
<1> QED BY <1>1, <1>2, <1>3, DrivenInvariant, EveryDriver, PTL DEF DrivenSpec

-----------------------------------------------------------------------------
(***************************************************************************)
(* What a final output says.                                               *)
(***************************************************************************)
LEMMA ProductOrder ==
  ASSUME NEW c \in Nat, NEW m \in Nat, NEW n \in Nat, m <= n
  PROVE  c * m <= c * n /\ c * (m + 1) = c * m + c
<1>1. c * (n - m) >= 0 /\ c * n = c * m + c * (n - m)
  OBVIOUS
<1> QED BY <1>1

\* The batch of a step whose phases are still going on is part of the running list.
LEMMA BatchSize ==
  ASSUME CoreInv, pc \in {"phase1", "phase2"}
  PROVE  /\ IsFiniteSet(DOMAIN request_data) /\ Cardinality(DOMAIN request_data) \in Nat
         /\ \A r \in running \ DOMAIN request_data : Cardinality(DOMAIN request_data) < MaxNumSeqs
         /\ \A r : r \notin DOMAIN request_data =>
              Cardinality(DOMAIN request_data \cup {r}) = Cardinality(DOMAIN request_data) + 1
<1> DEFINE D == DOMAIN request_data
<1>1. TypeOK /\ SlotsHeld /\ D \subseteq running
  BY DEF CoreInv, Batch
<1> HIDE DEF D
<1>2. IsFiniteSet(D) /\ Cardinality(D) \in Nat
  BY <1>1, FewRunning
<1>3. ASSUME NEW r, r \notin D PROVE Cardinality(D \cup {r}) = Cardinality(D) + 1
  BY <1>2, <1>3, FS_AddElement
<1>4. ASSUME NEW r \in running \ D PROVE Cardinality(D) < MaxNumSeqs
  <2>1. Cardinality(D \cup {r}) <= MaxNumSeqs
    BY <1>1, <1>4, FewRunning
  <2> QED BY <1>2, <1>3, <1>4, <2>1, SchedulerAssumption
<1> QED BY <1>2, <1>3, <1>4 DEF D

\* A request that phase 1 finishes is at a limit: one that decodes finds some budget.
LEMMA FinishAtLimit ==
  ASSUME AmpleBudget, CoreInv, FinishedAtLimit, NEW r \in Requests, Phase1Finish(r)
  PROVE  AtLimit(r)
<1>0. /\ TypeOK /\ pc = "phase1" /\ r \in running /\ r \notin DOMAIN request_data
      /\ delivered[r].tokens <= max_tokens[r] /\ OnTrack(r)
  <2>1. TypeOK /\ Batch /\ Progress /\ pc = "phase1" /\ r \in to_visit
    BY DEF CoreInv, Phase1Finish, Phase1Visit
  <2>2. to_visit \subseteq running
    BY <2>1, TypeParts DEF StepTypes
  <2> QED BY <2>1, <2>2 DEF Batch, Progress
<1>1. Settled(r) = num_computed_tokens[r]
  BY <1>0 DEF Settled, Before
<1>2. CASE PromptFillsModel(r)
  BY <1>2 DEF PromptFillsModel, AtLimit
<1>3. CASE ShouldFinish(r)
  <2>1. output_tokens[r] \in Nat /\ max_tokens[r] \in Nat
    BY <1>0, Numbers
  <2> QED BY <1>0, <1>3, <2>1 DEF ShouldFinish, OnTrack, AtLimit
<1>4. CASE NumNew(r) <= 0 /\ IsDecode(r)
  <2>1. token_budget > 0
    <3> DEFINE k == Cardinality(DOMAIN request_data)
    <3>1. k \in Nat /\ k < MaxNumSeqs
      BY <1>0, BatchSize
    <3>2. token_budget + ChunkedPrefillThreshold * k >= MaxNumBatchedTokens
      BY <1>0 DEF FinishedAtLimit, BudgetLeft
    <3> HIDE DEF k
    <3>3. /\ ChunkedPrefillThreshold \in Nat /\ MaxNumSeqs \in Nat /\ MaxNumSeqs - 1 \in Nat
          /\ token_budget \in Nat /\ MaxNumBatchedTokens \in Nat
      BY <1>0, Numbers, SchedulerAssumption
    <3>4. ChunkedPrefillThreshold * k <= ChunkedPrefillThreshold * (MaxNumSeqs - 1)
      <4>1. k <= MaxNumSeqs - 1
        BY <3>1, <3>3
      <4> DEFINE c == ChunkedPrefillThreshold
                 n == MaxNumSeqs - 1
      <4>2. c \in Nat /\ n \in Nat /\ k \in Nat /\ k <= n
        BY <3>1, <3>3, <4>1
      <4> HIDE DEF c, n
      <4>3. c * k <= c * n
        BY <4>2, ProductOrder
      <4> QED BY <4>3 DEF c, n
    <3> QED BY <3>1, <3>2, <3>3, <3>4 DEF AmpleBudget
  <2>2. MaxModelLen - 1 - num_computed_tokens[r] <= 0
    BY <1>0, <1>4, <2>1, NumNewLeast, Numbers
  <2>3. num_computed_tokens[r] = MaxModelLen - 1 /\ prompt_len[r] \in Nat /\ output_tokens[r] \in Nat
    BY <1>0, <2>2, Numbers
  <2>4. num_computed_tokens[r] = prompt_len[r] + output_tokens[r] - 1
    <3>1. num_computed_tokens[r] >= prompt_len[r] /\ num_computed_tokens[r] \in Nat
      BY <1>0, <1>4, Numbers
    <3> QED BY <1>0, <1>1, <2>3, <3>1 DEF OnTrack
  <2> QED BY <2>3, <2>4, SchedulerAssumption DEF AtLimit
<1> QED BY <1>2, <1>3, <1>4 DEF Phase1Finish

LEMMA BudgetLeftNext ==
  ASSUME CoreInv, BudgetLeft, Step \/ Drive PROVE BudgetLeft'
<1> DEFINE k == Cardinality(DOMAIN request_data)
           c == ChunkedPrefillThreshold
<1>0. /\ TypeOK /\ c \in Nat /\ token_budget \in Nat /\ MaxNumBatchedTokens \in Nat
      /\ pc \in {"phase1", "phase2"} => k \in Nat
  BY SchedulerAssumption, TypeParts, BatchSize DEF CoreInv, StepTypes
<1>1. ASSUME NEW r \in Requests, r \notin DOMAIN request_data, pc \in {"phase1", "phase2"},
             NumNew(r) > 0, token_budget' = token_budget - NumNew(r), NEW d,
             request_data' = With(request_data, r, d)
      PROVE  BudgetLeft'
  <2>1. DOMAIN request_data' = DOMAIN request_data \cup {r}
    BY <1>1 DEF With
  <2>2. Cardinality(DOMAIN request_data') = k + 1
    BY <1>1, <2>1, BatchSize
  <2>3. NumNew(r) \in Int /\ NumNew(r) <= c
    BY <1>0, <1>1, NumNewLeast
  <2>4. token_budget + c * k >= MaxNumBatchedTokens /\ k \in Nat
    BY <1>0, <1>1 DEF BudgetLeft
  <2> HIDE DEF k, c
  <2>5. c * (k + 1) = c * k + c /\ c * k \in Nat
    BY <1>0, <2>4
  <2>6. token_budget' + c * (k + 1) >= MaxNumBatchedTokens
    BY <1>0, <1>1, <2>3, <2>4, <2>5
  <2> QED BY <2>2, <2>6 DEF BudgetLeft, c
<1>2. CASE ScheduleStart
  <2>1. DOMAIN request_data' = {} /\ token_budget' = MaxNumBatchedTokens
    BY <1>2 DEF ScheduleStart, NoRequests
  <2>2. Cardinality(DOMAIN request_data') = 0
    BY <2>1, FS_EmptySet
  <2>3. token_budget' + ChunkedPrefillThreshold * 0 >= MaxNumBatchedTokens
    BY <1>0, <2>1
  <2> QED BY <2>2, <2>3 DEF BudgetLeft
<1>3. ASSUME NEW r \in Requests, Phase1Schedule(r) PROVE BudgetLeft'
  <2>1. r \notin DOMAIN request_data
    BY <1>3 DEF CoreInv, Batch, Phase1Schedule, Phase1Visit
  <2> QED BY <1>1, <1>3, <2>1 DEF Phase1Schedule, Phase1Visit
<1>4. ASSUME NEW r \in Requests, Phase2Admit(r) PROVE BudgetLeft'
  <2>1. Phase2Pop(r) /\ pc = "phase2" /\ ~HeldBack(r)
    BY <1>4 DEF Phase2Admit, Phase2Pop, Phase2Open
  <2>2. r \in Waiting
    BY <2>1, Popped DEF CoreInv
  <2>3. r \notin DOMAIN request_data
    BY <2>1, <2>2 DEF CoreInv, Batch, Places, Waiting, Running
  <2>4. NumNew(r) > 0
    BY <1>0, <2>1, NumNewLeast DEF HeldBack
  <2> QED BY <1>1, <1>4, <2>1, <2>3, <2>4 DEF Phase2Admit
<1>5. CASE /\ UNCHANGED <<request_data, token_budget>>
           /\ pc' \in {"phase1", "phase2"} => pc \in {"phase1", "phase2"}
  BY <1>5 DEF BudgetLeft
<1>6. CASE \/ \E r \in Requests : Phase1Finish(r)
           \/ \E r \in Requests : Phase1Skip(r)
           \/ Phase1End
           \/ \E r \in Requests : Phase2Raise(r)
           \/ \E r \in Requests : Phase2HoldBack(r)
           \/ Phase2Blocked \/ AddBetween \/ QueueIds
           \/ \E ids \in SUBSET Requests : AbortBetween(ids)
           \/ \E r \in Requests : RejectBetween(r)
  BY <1>5, <1>6 DEF Phase1Finish, Phase1Skip, Phase1Visit, Phase1End, Phase2Raise,
     Phase2HoldBack, Phase2Pop, Phase2Open, Phase2Blocked, AddBetween, QueueIds, AbortBetween,
     RejectBetween, outputVars, scheduleVars, schedulerVars
<1>7. CASE ScheduleEnd \/ Execute \/ ExecuteRaises \/ ProcessAbortsQueue \/ Update \/ Condense
  BY <1>7 DEF ScheduleEnd, Execute, ExecuteRaises, ProcessAbortsQueue, Update,
     UpdateFromOutput, Condense, BudgetLeft
<1> QED BY <1>2, <1>3, <1>4, <1>6, <1>7 DEF Step, Schedule, Drive

LEMMA FinishedAtLimitNext ==
  ASSUME AmpleBudget, CoreInv, FinishedAtLimit, Step \/ Drive PROVE FinishedAtLimit'
<1>0. /\ TypeOK /\ Places /\ Batch /\ Progress /\ running \subseteq Requests
      /\ \A r \in running : delivered[r].reason = "none"
  BY TypeParts DEF CoreInv, QueueTypes, Places, Running, Progress
<1>1. BudgetLeft'
  BY BudgetLeftNext DEF FinishedAtLimit
<1>2. pc' # "condense" => \A r \in finished_req_ids' \cap running' : AtLimit(r)'
  <2> SUFFICES ASSUME pc' # "condense", NEW r \in finished_req_ids' \cap running'
               PROVE  AtLimit(r)'
    OBVIOUS
  <2>1. CASE /\ r \in finished_req_ids \cap running /\ pc # "condense"
             /\ output_tokens'[r] = output_tokens[r] /\ max_tokens'[r] = max_tokens[r]
             /\ prompt_len'[r] = prompt_len[r]
    BY <2>1 DEF FinishedAtLimit, AtLimit
  <2>2. ASSUME NEW q \in Requests, Phase1Finish(q) PROVE AtLimit(r)'
    <3>1. /\ finished_req_ids' = finished_req_ids \cup {q} /\ pc = "phase1"
          /\ UNCHANGED <<requestVars, queueVars>>
      BY <2>2 DEF Phase1Finish, Phase1Visit
    <3>2. AtLimit(q)
      BY <2>2, FinishAtLimit
    <3> QED BY <2>1, <3>1, <3>2 DEF AtLimit, requestVars, queueVars
  <2>3. ASSUME NEW q \in Requests, Phase2Admit(q) PROVE AtLimit(r)'
    <3>1. /\ Phase2Pop(q) /\ running' = running \cup {q} /\ pc = "phase2"
          /\ output_tokens' = [output_tokens EXCEPT ![q] = 0]
          /\ UNCHANGED <<finished_req_ids, max_tokens, prompt_len>>
      BY <2>3 DEF Phase2Admit, Phase2Pop, Phase2Open
    <3>2. q \in Waiting
      BY <1>0, <3>1, Popped
    <3>3. q \notin finished_req_ids
      BY <1>0, <3>1, <3>2 DEF Batch, Places, Waiting, Running
    <3>4. r # q /\ r \in running /\ r \in finished_req_ids
      BY <3>1, <3>3
    <3>5. output_tokens'[r] = output_tokens[r]
      BY <1>0, <3>1, <3>4, TypeParts DEF QueueTypes
    <3> QED BY <2>1, <3>1, <3>4, <3>5
  <2>4. ASSUME NEW ids, FinishRequests(ids), UNCHANGED finished_req_ids, pc # "condense"
        PROVE  AtLimit(r)'
    <3>1. /\ running' = running \ ids
          /\ output_tokens' = [q \in Requests |-> IF q \in ids \cap running THEN 0 ELSE output_tokens[q]]
          /\ UNCHANGED <<max_tokens, prompt_len>>
      BY <2>4 DEF FinishRequests
    <3> QED BY <1>0, <2>1, <2>4, <3>1
  <2>5. CASE AddBetween
    <3>1. PICK q \in Requests, prompt \in PromptLens, limit \in MaxTokens :
            AddRequest(q, prompt, limit)
      BY <2>5 DEF AddBetween
    <3>2. /\ status[q] = "NEW" /\ prompt_len' = [prompt_len EXCEPT ![q] = prompt]
          /\ max_tokens' = [max_tokens EXCEPT ![q] = limit]
          /\ UNCHANGED <<running, output_tokens, finished_req_ids, pc>>
      BY <2>5, <3>1 DEF AddBetween, AddRequest, outputVars
    <3>3. r # q
      BY <1>0, <3>2 DEF Places, Running
    <3> QED BY <1>0, <2>1, <3>2, <3>3
  <2>6. CASE ScheduleStart \/ Condense \/ Update
    BY <2>6 DEF ScheduleStart, Condense, Update, UpdateFromOutput
  <2>7. CASE ProcessAbortsQueue \/ \E ids \in SUBSET Requests : AbortBetween(ids)
    BY <2>4, <2>7 DEF ProcessAbortsQueue, AbortBetween, outputVars
  <2>8. CASE \/ \E q \in Requests : Phase1Schedule(q)
             \/ \E q \in Requests : Phase1Skip(q)
             \/ Phase1End
             \/ \E q \in Requests : Phase2Raise(q)
             \/ \E q \in Requests : Phase2HoldBack(q)
             \/ Phase2Blocked \/ ScheduleEnd \/ Execute \/ ExecuteRaises \/ QueueIds
             \/ \E q \in Requests : RejectBetween(q)
    <3>1. /\ UNCHANGED <<finished_req_ids, running, output_tokens, max_tokens, prompt_len>>
          /\ pc' = pc \/ pc # "condense"
      BY <2>8 DEF Phase1Schedule, Phase1Skip, Phase1Visit, Phase1End, Phase2Raise,
         Phase2HoldBack, Phase2Pop, Phase2Open, Phase2Blocked, ScheduleEnd, Execute, ExecuteRaises,
         QueueIds, RejectBetween, requestVars, queueVars, outputVars, schedulerVars
    <3> QED BY <2>1, <3>1
  <2> QED BY <2>2, <2>3, <2>5, <2>6, <2>7, <2>8 DEF Step, Schedule, Drive
<1> DEFINE Limited(r) == delivered[r].reason = "length" =>
       \/ delivered[r].tokens = max_tokens[r]
       \/ prompt_len[r] + delivered[r].tokens = MaxModelLen
       \/ prompt_len[r] + 1 >= MaxModelLen
<1>3. \A r \in Requests : Limited(r)'
  <2> SUFFICES ASSUME NEW r \in Requests PROVE Limited(r)'
    OBVIOUS
  <2>0. Limited(r)
    BY DEF FinishedAtLimit
  <2>1. CASE UNCHANGED <<delivered, max_tokens, prompt_len>>
    BY <2>0, <2>1
  <2>2. CASE AddBetween
    <3>1. PICK q \in Requests, prompt \in PromptLens, limit \in MaxTokens :
            AddRequest(q, prompt, limit)
      BY <2>2 DEF AddBetween
    <3>2. /\ status[q] = "NEW" /\ prompt_len' = [prompt_len EXCEPT ![q] = prompt]
          /\ max_tokens' = [max_tokens EXCEPT ![q] = limit] /\ UNCHANGED delivered
      BY <2>2, <3>1 DEF AddBetween, AddRequest
    <3>3. delivered[q].reason = "none"
      BY <1>0, <3>2 DEF Progress
    <3> QED BY <2>0, <3>2, <3>3
  <2>3. CASE Update
    <3>1. UNCHANGED <<max_tokens, prompt_len>> /\ pc = "update"
      BY <2>3 DEF Update, UpdateFromOutput
    <3>2. CASE r \notin running
      <4>1. delivered'[r] = delivered[r]
        BY <1>0, <2>3, <3>2, Delivery
      <4> QED BY <2>0, <3>1, <4>1
    <3>3. CASE r \in running /\ r \notin finished_req_ids
      <4>1. delivered'[r].reason # "length"
        BY <1>0, <2>3, <3>3, Delivery
      <4> QED BY <4>1
    <3>4. CASE r \in running /\ r \in finished_req_ids
      <4>1. r \notin DOMAIN sampled
        BY <1>0, <3>1, <3>4 DEF Batch
      <4>2. delivered'[r].tokens = delivered[r].tokens + 0
        BY <1>0, <2>3, <4>1, Delivery
      <4>3. delivered[r].tokens \in Nat /\ delivered[r].tokens = output_tokens[r]
        BY <1>0, <3>4, Numbers DEF Progress, OnTrack
      <4>4. AtLimit(r)
        BY <3>1, <3>4 DEF FinishedAtLimit
      <4> QED BY <3>1, <4>2, <4>3, <4>4 DEF AtLimit
    <3> QED BY <3>2, <3>3, <3>4
  <2>4. ASSUME NEW ids, AbortBetween(ids) PROVE Limited(r)'
    <3>1. UNCHANGED <<max_tokens, prompt_len>>
      BY <2>4 DEF AbortBetween, FinishRequests
    <3>2. delivered'[r] = delivered[r] \/ delivered'[r].reason = "abort"
      BY <1>0, <2>4, AbortOutput
    <3> QED BY <2>0, <3>1, <3>2
  <2>5. ASSUME NEW q \in Requests, RejectBetween(q) PROVE Limited(r)'
    <3>1. UNCHANGED <<max_tokens, prompt_len>>
      BY <2>5 DEF RejectBetween
    <3>2. delivered'[r] = delivered[r] \/ delivered'[r].reason = "abort"
      BY <1>0, <2>5, RejectOutput
    <3> QED BY <2>0, <3>1, <3>2
  <2>6. CASE ScheduleStart \/ Condense \/ ProcessAbortsQueue \/ Phase1End \/ Phase2Blocked
             \/ ScheduleEnd \/ Execute \/ ExecuteRaises \/ QueueIds
             \/ \E q \in Requests : \/ Phase1Schedule(q) \/ Phase1Finish(q) \/ Phase1Skip(q)
                                    \/ Phase2Admit(q) \/ Phase2Raise(q) \/ Phase2HoldBack(q)
    BY <2>1, <2>6 DEF ScheduleStart, Condense, ProcessAbortsQueue, FinishRequests, Phase1End,
       Phase2Blocked, ScheduleEnd, Execute, ExecuteRaises, QueueIds, Phase1Schedule,
       Phase1Finish, Phase1Skip, Phase1Visit, Phase2Admit, Phase2Raise, Phase2HoldBack,
       Phase2Pop, requestVars, schedulerVars
  <2> QED BY <2>2, <2>3, <2>4, <2>5, <2>6 DEF Step, Schedule, Drive
<1> QED BY <1>1, <1>2, <1>3 DEF FinishedAtLimit

\* With no assumption on the budget: one final output, none for a request whose abort was
\* processed, no token beyond max_tokens and none beyond the model's context.
THEOREM OutputBounds ==
  Spec => [](\A r \in Requests :
               /\ delivered[r].finishes = IF status[r] = "FINISHED_STOPPED" THEN 1 ELSE 0
               /\ delivered[r].tokens <= max_tokens[r]
               /\ prompt_len[r] + delivered[r].tokens <= MaxModelLen)
<1>1. CoreInv /\ QueuedAbortsOnly =>
        \A r \in Requests :
           /\ delivered[r].finishes = IF status[r] = "FINISHED_STOPPED" THEN 1 ELSE 0
           /\ delivered[r].tokens <= max_tokens[r]
           /\ prompt_len[r] + delivered[r].tokens <= MaxModelLen
  BY DEF CoreInv, Progress, QueuedAbortsOnly
<1> QED BY <1>1, QueuedAborts, PTL

\* When the budget of a step is enough for a chunk of every other running request, the
\* reason is "length" only at a limit.
THEOREM OutputEndsAlways == ASSUME AmpleBudget PROVE Spec => []OutputEnds
<1>1. Init => FinishedAtLimit
  BY DEF Init, SchedulerInit, FinishedAtLimit, BudgetLeft
<1>2. CoreInv /\ FinishedAtLimit /\ [Next]_vars => FinishedAtLimit'
  BY FinishedAtLimitNext, EveryMove DEF CoreInv
<1>3. CoreInv /\ QueuedAbortsOnly /\ FinishedAtLimit => OutputEnds
  BY DEF CoreInv, Progress, QueuedAbortsOnly, FinishedAtLimit, OutputEnds
<1> QED BY <1>1, <1>2, <1>3, QueuedAborts, PTL DEF Spec

-----------------------------------------------------------------------------
(***************************************************************************)
(* The limits of a step.                                                   *)
(***************************************************************************)
\* TotalTokens is a sum over the batch.
LEMMA TotalTokensSum ==
  ASSUME NEW S, IsFiniteSet(S)
  PROVE  \E g : TokenSum(g, request_data, S) /\ TotalTokens(S) = g[S]
<1> DEFINE g == CHOOSE g : TokenSum(g, request_data, S)
<1>1. TokenSum(g, request_data, S)
  BY TokenSumExists
<1>2. TotalTokens(S) = g[S]
  BY DEF TotalTokens, TokenSum, First
<1> HIDE DEF g
<1> QED BY <1>1, <1>2

\* What one more entry adds to the tokens of a batch.
LEMMA TotalTokensGrow ==
  ASSUME NEW S, IsFiniteSet(S), NEW r, r \notin S,
         \A q \in S : request_data[q].num_tokens \in Int,
         \A q \in S : request_data'[q] = request_data[q],
         request_data'[r].num_tokens \in Int
  PROVE  /\ TotalTokens(S) \in Int
         /\ TotalTokens(S \cup {r})' = request_data'[r].num_tokens + TotalTokens(S)
<1>1. PICK g : TokenSum(g, request_data, S) /\ TotalTokens(S) = g[S]
  BY TotalTokensSum
<1>2. IsFiniteSet(S \cup {r})
  BY FS_AddElement
<1> DEFINE A == S \cup {r}
           h == CHOOSE h : TokenSum(h, request_data', A)
<1>3. TokenSum(h, request_data', A)
  BY <1>2, TokenSumExists
<1>4. TotalTokens(S \cup {r})' = h[A]
  BY DEF TotalTokens, TokenSum, First
<1> HIDE DEF h
<1>5. h[A] = request_data'[r].num_tokens + h[A \ {r}]
  <2>1. A \in SUBSET A /\ IsFiniteSet(A) /\ r \in A
        /\ \A q \in A : request_data'[q].num_tokens \in Int
    BY <1>2
  <2> HIDE DEF A
  <2> QED BY <1>3, <2>1, TokenSumAny
<1>6. A \ {r} = S
  OBVIOUS
<1>7. h[S] = g[S]
  <2>1. S \subseteq A \cap S /\ \A q \in S : request_data'[q].num_tokens = request_data[q].num_tokens
    OBVIOUS
  <2> HIDE DEF A
  <2> QED BY <1>1, <1>3, <2>1, TokenSumUnique
<1>8. g[S] \in Int
  BY <1>1, TokenSumInt
<1> QED BY <1>1, <1>4, <1>5, <1>6, <1>7, <1>8

LEMMA TotalTokensSame ==
  ASSUME UNCHANGED request_data, NEW S PROVE TotalTokens(S)' = TotalTokens(S)
  BY DEF TotalTokens

LEMMA TotalTokensNone == TotalTokens({}) = 0
<1>1. PICK g : TokenSum(g, request_data, {}) /\ TotalTokens({}) = g[{}]
  BY TotalTokensSum, FS_EmptySet
<1> QED BY <1>1, TokenSumAt

\* Whatever schedule() adds to the batch it takes off the budget.
LEMMA BudgetNext ==
  ASSUME CoreInv, Budget, Step \/ Drive PROVE Budget'
<1> DEFINE D == DOMAIN request_data
<1>0. /\ TypeOK /\ token_budget \in Nat /\ MaxNumBatchedTokens \in Nat
      /\ \A q \in D : request_data[q].num_tokens \in Int
  <2>1. TypeOK
    BY DEF CoreInv
  <2>2. token_budget \in Nat /\ MaxNumBatchedTokens \in Nat
    BY <2>1, SchedulerAssumption, TypeParts DEF StepTypes
  <2>3. \A q \in D : request_data[q].num_tokens \in 1 .. MaxNumBatchedTokens
    BY <2>1, BatchType
  <2> QED BY <2>1, <2>2, <2>3
<1>1. pc \in {"phase1", "phase2"} => IsFiniteSet(D) /\ TotalTokens(D) \in Int
  <2> SUFFICES ASSUME pc \in {"phase1", "phase2"} PROVE IsFiniteSet(D) /\ TotalTokens(D) \in Int
    OBVIOUS
  <2>1. IsFiniteSet(D)
    BY BatchSize
  <2>2. PICK g : TokenSum(g, request_data, D) /\ TotalTokens(D) = g[D]
    BY <2>1, TotalTokensSum
  <2> HIDE DEF D
  <2>3. g[D] \in Int
    BY <1>0, <2>1, <2>2, TokenSumInt
  <2> QED BY <2>1, <2>2, <2>3
<1>2. ASSUME NEW r \in Requests, r \notin D, pc \in {"phase1", "phase2"}, UNCHANGED pc,
             NumNew(r) > 0, token_budget' = token_budget - NumNew(r), NEW slot,
             request_data' = With(request_data, r, RunData(r, slot))
      PROVE  Budget'
  <2>1. /\ DOMAIN request_data' = D \cup {r}
        /\ request_data'[r].num_tokens = NumNew(r)
        /\ \A q \in D : request_data'[q] = request_data[q]
    BY <1>2 DEF With, RunData
  <2>2. NumNew(r) \in Int
    BY <1>0, NumNewLeast
  <2>3. PICK S : S = D
    OBVIOUS
  <2>4. TotalTokens(S \cup {r})' = NumNew(r) + TotalTokens(S)
    <3>1. /\ IsFiniteSet(S) /\ r \notin S /\ request_data'[r].num_tokens \in Int
          /\ \A q \in S : request_data[q].num_tokens \in Int
          /\ \A q \in S : request_data'[q] = request_data[q]
      BY <1>0, <1>1, <1>2, <2>1, <2>2, <2>3
    <3>2. TotalTokens(S \cup {r})' = request_data'[r].num_tokens + TotalTokens(S)
      <4> HIDE DEF D
      <4> QED BY <3>1, TotalTokensGrow
    <3> QED BY <2>1, <3>2
  <2>5. TotalTokens(D) + token_budget <= MaxNumBatchedTokens
    BY <1>2 DEF Budget
  <2>6. (TotalTokens(DOMAIN request_data))' = NumNew(r) + TotalTokens(S)
    BY <2>1, <2>3, <2>4 DEF TotalTokens
  <2>7. TotalTokens(S) = TotalTokens(D)
    BY <2>3
  <2> HIDE DEF D
  <2> QED BY <1>0, <1>1, <1>2, <2>2, <2>5, <2>6, <2>7 DEF Budget
<1>3. ASSUME NEW r \in Requests, Phase1Schedule(r) PROVE Budget'
  <2>1. r \notin D
    BY <1>3 DEF CoreInv, Batch, Phase1Schedule, Phase1Visit
  <2> QED BY <1>2, <1>3, <2>1 DEF Phase1Schedule, Phase1Visit
<1>4. ASSUME NEW r \in Requests, Phase2Admit(r) PROVE Budget'
  <2>1. Phase2Pop(r) /\ pc = "phase2" /\ ~HeldBack(r)
    BY <1>4 DEF Phase2Admit, Phase2Pop, Phase2Open
  <2>2. r \in Waiting
    BY <2>1, Popped DEF CoreInv
  <2>3. r \notin D
    BY <2>1, <2>2 DEF CoreInv, Batch, Places, Waiting, Running
  <2>4. NumNew(r) > 0
    BY <1>0, <2>1, NumNewLeast DEF HeldBack
  <2> QED BY <1>2, <1>4, <2>1, <2>3, <2>4 DEF Phase2Admit
<1>5. CASE request_data' = NoRequests /\ (pc' \in {"phase1", "phase2"} => token_budget' = MaxNumBatchedTokens)
  <2>1. DOMAIN request_data' = {}
    BY <1>5 DEF NoRequests
  <2>2. (TotalTokens({}) = 0)'
    BY TotalTokensNone, PTL
  <2>3. (TotalTokens(DOMAIN request_data))' = 0
    BY <2>1, <2>2 DEF TotalTokens
  <2> QED BY <1>0, <1>5, <2>3 DEF Budget
<1>6. CASE /\ UNCHANGED <<request_data, token_budget>>
           /\ pc' \in {"phase1", "phase2"} => pc \in {"phase1", "phase2"}
  <2>1. (TotalTokens(DOMAIN request_data))' = TotalTokens(D)
    BY <1>6, TotalTokensSame DEF TotalTokens
  <2>2. CASE pc \in {"phase1", "phase2"}
    BY <1>0, <1>1, <1>6, <2>1, <2>2 DEF Budget
  <2>3. CASE pc \notin {"phase1", "phase2"}
    BY <1>6, <2>1, <2>3 DEF Budget
  <2> QED BY <2>2, <2>3
<1>7. CASE ScheduleStart \/ Condense
  BY <1>5, <1>7 DEF ScheduleStart, Condense
<1>8. CASE \/ \E r \in Requests : Phase1Finish(r)
           \/ \E r \in Requests : Phase1Skip(r)
           \/ Phase1End
           \/ \E r \in Requests : Phase2Raise(r)
           \/ \E r \in Requests : Phase2HoldBack(r)
           \/ Phase2Blocked \/ ScheduleEnd
  BY <1>6, <1>8 DEF Phase1Finish, Phase1Skip, Phase1Visit, Phase1End, Phase2Raise,
     Phase2HoldBack, Phase2Pop, Phase2Open, Phase2Blocked, ScheduleEnd, outputVars
<1>9. CASE Execute \/ ExecuteRaises \/ ProcessAbortsQueue \/ Update
  BY <1>6, <1>9 DEF Execute, ExecuteRaises, ProcessAbortsQueue, Update, UpdateFromOutput,
     outputVars, scheduleVars
<1>10. CASE \/ AddBetween \/ QueueIds
            \/ \E ids \in SUBSET Requests : AbortBetween(ids)
            \/ \E r \in Requests : RejectBetween(r)
  BY <1>6, <1>10 DEF AddBetween, QueueIds, AbortBetween, RejectBetween, outputVars,
     scheduleVars, schedulerVars
<1> QED BY <1>3, <1>4, <1>7, <1>8, <1>9, <1>10 DEF Step, Schedule, Drive

\* partial_prefills counts every long prompt that runs, so admitting below its limit is
\* enough; afterwards prompts only get shorter and the running list smaller.
LEMMA LongPrefillsNext ==
  ASSUME CoreInv, LongPrefills, Step \/ Drive PROVE LongPrefills'
<1> SUFFICES ASSUME MaxLongPartialPrefills > 0
             PROVE  /\ Cardinality(Long)' <= MaxLongPartialPrefills
                    /\ pc' = "phase2" => Cardinality(Long)' <= partial_prefills'
  BY DEF LongPrefills
<1>0. /\ TypeOK /\ SlotsHeld /\ Places /\ Batch /\ running \subseteq Requests
      /\ IsFiniteSet(Long) /\ Cardinality(Long) \in Nat
      /\ partial_prefills \in Nat /\ MaxLongPartialPrefills \in Nat
      /\ Cardinality(Long) <= MaxLongPartialPrefills
      /\ pc = "phase2" => Cardinality(Long) <= partial_prefills
  <2>1. TypeOK /\ SlotsHeld /\ Places /\ Batch
    BY DEF CoreInv
  <2>2. IsFiniteSet(Long) /\ Cardinality(Long) \in Nat
    BY <2>1, FewRunning DEF Long
  <2>3. running \subseteq Requests /\ partial_prefills \in Nat /\ MaxLongPartialPrefills \in Nat
    BY <2>1, TypeParts, SchedulerAssumption DEF QueueTypes, StepTypes
  <2> QED BY <2>1, <2>2, <2>3 DEF LongPrefills
<1> DEFINE Goal == /\ Cardinality(Long)' <= MaxLongPartialPrefills
                   /\ pc' = "phase2" => Cardinality(Long)' <= partial_prefills'
<1>1. ASSUME Long' \subseteq Long,
             pc' = "phase2" => pc = "phase2" /\ partial_prefills <= partial_prefills'
                               /\ partial_prefills' \in Nat
      PROVE  Goal
  <2>1. IsFiniteSet(Long') /\ Cardinality(Long') <= Cardinality(Long)
    BY <1>0, <1>1, FS_Subset
  <2>2. Cardinality(Long') \in Nat
    BY <2>1, FS_CardinalityType
  <2> QED BY <1>0, <1>1, <2>1, <2>2
<1>2. ASSUME NEW r \in Requests, Phase2Admit(r) PROVE Goal
  <2>1. /\ Phase2Pop(r) /\ ~HeldBack(r) /\ pc = "phase2" /\ running' = running \cup {r}
        /\ UNCHANGED <<num_computed_tokens, prompt_len, pc>>
        /\ partial_prefills' = IF IsDecode(r) \/ IsLastPrefill(r, NumNew(r))
                               THEN partial_prefills ELSE partial_prefills + 1
    BY <1>2 DEF Phase2Admit, Phase2Pop, Phase2Open
  <2>2. /\ r \in Waiting /\ num_computed_tokens[r] \in Nat /\ prompt_len[r] \in Nat
        /\ Remaining(r) \in Int /\ ChunkedPrefillThreshold \in Nat
        /\ Remaining(r) = prompt_len[r] - num_computed_tokens[r]
    BY <1>0, <2>1, Popped, Numbers
  <2>3. CASE Remaining(r) > ChunkedPrefillThreshold
    <3>1. Long' \subseteq Long \cup {r}
      BY <2>1 DEF Long, Remaining
    <3>2. NumNew(r) \in Int /\ NumNew(r) <= ChunkedPrefillThreshold
      BY <1>0, NumNewLeast
    <3>3. ~IsDecode(r)
      BY <1>0, <2>2, <2>3, Numbers
    <3>4. ~IsLastPrefill(r, NumNew(r))
      BY <2>2, <2>3, <3>2 DEF IsLastPrefill
    <3>5. ~LimitReached(r)
      BY <2>1, <3>3, <3>4 DEF HeldBack
    <3>6. partial_prefills < MaxLongPartialPrefills
      BY <1>0, <2>3, <3>5 DEF LimitReached
    <3>7. r \notin Long
      BY <1>0, <2>2 DEF Long, Places, Waiting, Running
    <3>8. IsFiniteSet(Long \cup {r}) /\ Cardinality(Long \cup {r}) = Cardinality(Long) + 1
      BY <1>0, <3>7, FS_AddElement
    <3>9. IsFiniteSet(Long') /\ Cardinality(Long') <= Cardinality(Long) + 1
      BY <3>1, <3>8, FS_Subset
    <3>10. Cardinality(Long') \in Nat
      BY <3>9, FS_CardinalityType
    <3> QED BY <1>0, <2>1, <3>3, <3>4, <3>6, <3>9, <3>10
  <2>4. CASE ~(Remaining(r) > ChunkedPrefillThreshold)
    <3>1. Long' \subseteq Long
      BY <2>1, <2>4 DEF Long, Remaining
    <3>2. partial_prefills <= partial_prefills' /\ partial_prefills' \in Nat
      BY <1>0, <2>1
    <3> QED BY <1>1, <2>1, <3>1, <3>2
  <2> QED BY <2>3, <2>4
<1>3. CASE Phase1End
  <2>1. /\ partial_prefills' = Cardinality(Long)
        /\ UNCHANGED <<requestVars, queueVars>>
    BY <1>3 DEF Phase1End, Long
  <2>2. Long' = Long
    BY <2>1 DEF Long, Remaining, requestVars, queueVars
  <2> QED BY <1>0, <2>1, <2>2
<1>4. CASE ScheduleEnd
  <2>1. /\ UNCHANGED <<running, prompt_len>> /\ pc' # "phase2"
        /\ num_computed_tokens' =
             [r \in Requests |-> IF r \in DOMAIN request_data
                                 THEN num_computed_tokens[r] + request_data[r].num_tokens
                                 ELSE num_computed_tokens[r]]
    BY <1>4 DEF ScheduleEnd
  <2>2. ASSUME NEW r \in running PROVE Remaining(r)' <= Remaining(r) /\ Remaining(r)' \in Int
                                       /\ Remaining(r) \in Int
    <3>1. r \in Requests /\ prompt_len[r] \in Nat /\ num_computed_tokens[r] \in Nat
      BY <1>0, Numbers
    <3>2. CASE r \in DOMAIN request_data
      <4>1. request_data[r].num_tokens \in 1 .. MaxNumBatchedTokens
        BY <1>0, <3>2, BatchType
      <4>2. request_data[r].num_tokens \in Nat
        BY <4>1, SchedulerAssumption
      <4> QED BY <2>1, <3>1, <3>2, <4>2 DEF Remaining
    <3>3. CASE r \notin DOMAIN request_data
      BY <2>1, <3>1, <3>3 DEF Remaining
    <3> QED BY <3>2, <3>3
  <2>3. Long' \subseteq Long
    <3>1. ChunkedPrefillThreshold \in Int
      BY SchedulerAssumption
    <3>2. \A r \in running : Remaining(r)' > ChunkedPrefillThreshold => Remaining(r) > ChunkedPrefillThreshold
      BY <2>2, <3>1
    <3> QED BY <2>1, <3>2 DEF Long
  <2> QED BY <1>1, <2>1, <2>3
<1>5. CASE AddBetween
  <2>1. PICK r \in Requests, prompt \in PromptLens, limit \in MaxTokens : AddRequest(r, prompt, limit)
    BY <1>5 DEF AddBetween
  <2>2. /\ status[r] = "NEW" /\ prompt_len' = [prompt_len EXCEPT ![r] = prompt]
        /\ UNCHANGED <<num_computed_tokens, running, pc>> /\ pc = "ready"
    BY <1>5, <2>1 DEF AddBetween, AddRequest
  <2>3. r \notin running
    BY <1>0, <2>2 DEF Places, Running
  <2>4. Long' = Long
    BY <1>0, <2>2, <2>3 DEF Long, Remaining
  <2> QED BY <1>1, <2>2, <2>4
<1>6. CASE /\ running' \subseteq running /\ UNCHANGED <<prompt_len, num_computed_tokens>>
           /\ pc' = "phase2" => pc = "phase2" /\ partial_prefills' = partial_prefills
  <2>1. Long' \subseteq Long
    BY <1>6 DEF Long, Remaining
  <2> QED BY <1>0, <1>1, <1>6, <2>1
<1>7. CASE \/ ScheduleStart
           \/ \E r \in Requests : Phase1Schedule(r)
           \/ \E r \in Requests : Phase1Finish(r)
           \/ \E r \in Requests : Phase1Skip(r)
           \/ \E r \in Requests : Phase2Raise(r)
           \/ \E r \in Requests : Phase2HoldBack(r)
           \/ Phase2Blocked
  BY <1>6, <1>7 DEF ScheduleStart, Phase1Schedule, Phase1Finish, Phase1Skip, Phase1Visit,
     Phase2Raise, Phase2HoldBack, Phase2Pop, Phase2Blocked, requestVars, queueVars
<1>8. CASE Execute \/ ExecuteRaises \/ ProcessAbortsQueue \/ Update \/ Condense
  BY <1>6, <1>8 DEF Execute, ExecuteRaises, ProcessAbortsQueue, FinishRequests, Update,
     UpdateFromOutput, Condense, requestVars, queueVars
<1>9. CASE \/ QueueIds
           \/ \E ids \in SUBSET Requests : AbortBetween(ids)
           \/ \E r \in Requests : RejectBetween(r)
  BY <1>6, <1>9 DEF QueueIds, AbortBetween, FinishRequests, RejectBetween, requestVars,
     queueVars, scheduleVars, schedulerVars
<1> QED
  BY <1>2, <1>3, <1>4, <1>5, <1>7, <1>8, <1>9 DEF Step, Schedule, Drive

\* No step exceeds the runner's static buffers or the limit on long prompts, whichever
\* of the three queues it takes requests from and whoever aborts.
THEOREM StepLimitsAlways ==
  (Spec => []StepLimits) /\ (InprocSpec => []StepLimits) /\ (DrivenSpec => []StepLimits)
<1>1. Init => Budget /\ LongPrefills
  <2> SUFFICES ASSUME Init PROVE Budget /\ LongPrefills
    OBVIOUS
  <2>1. DOMAIN request_data = {} /\ running = {} /\ pc = "ready"
    BY DEF Init, SchedulerInit, NoRequests
  <2>2. Long = {} /\ Cardinality(Long) = 0
    BY <2>1, FS_EmptySet DEF Long
  <2>3. Budget
    BY <2>1, TotalTokensNone, SchedulerAssumption DEF Budget
  <2> QED BY <2>1, <2>2, <2>3, SchedulerAssumption DEF LongPrefills
<1>2. CoreInv /\ Budget /\ LongPrefills /\ [Step \/ Drive]_vars => Budget' /\ LongPrefills'
  <2>1. CoreInv /\ [Step \/ Drive]_vars => Step \/ Drive
    BY EveryMove DEF CoreInv
  <2> QED BY <2>1, BudgetNext, LongPrefillsNext
<1>3. CoreInv /\ Budget /\ LongPrefills => StepLimits
  <2> SUFFICES ASSUME CoreInv, Budget, LongPrefills PROVE StepLimits
    OBVIOUS
  <2> DEFINE batch == DOMAIN request_data
  <2>1. TypeOK /\ SlotsHeld /\ Batch
    BY DEF CoreInv
  <2>2. \A r \in batch : request_data[r].slot_index = req_to_slot[r]
    BY <2>1 DEF Batch, EntryIsTrue
  <2>3. \A r \in batch : r \in Slot!Holders
    <3>1. \A r \in batch : r \in Requests /\ req_to_slot[r] \in Slot!Slots
      BY <2>1, <2>2, BatchType
    <3> QED BY <3>1, SchedulerAssumption DEF Slot!Holders, Slot!Slots, Slot!NoSlot
  <2>4. \A r, q \in batch : r # q => request_data[r].slot_index # request_data[q].slot_index
    <3> HIDE DEF batch
    <3> QED BY <2>1, <2>2, <2>3 DEF SlotsHeld
  <2>5. TotalTokens(batch) + (IF pc \in {"phase1", "phase2"} THEN token_budget ELSE 0)
          <= MaxNumBatchedTokens
    BY DEF Budget
  <2>6. MaxLongPartialPrefills > 0 =>
          Cardinality({r \in running : Remaining(r) > ChunkedPrefillThreshold})
            <= MaxLongPartialPrefills
    BY DEF LongPrefills, Long
  <2> QED BY <2>2, <2>4, <2>5, <2>6 DEF StepLimits
<1> QED BY <1>1, <1>2, <1>3, DrivenInvariant, EveryDriver, PTL DEF DrivenSpec

-----------------------------------------------------------------------------
(***************************************************************************)
(* The GPU side: whose state a slot holds.                                 *)
(***************************************************************************)
\* What OwnState says of one request: that it ran this far on its slot alone.
OwnStateOf(r) ==
  LET slot == req_to_slot[r]
      ran  == pc \in {"aborts", "update"} /\ r \in DOMAIN sampled
  IN  /\ (IF pc \in {"aborts", "update"} THEN num_computed_tokens[r] ELSE Settled(r)) > 0
           => state_of[slot] = r
      /\ output_tokens[r] > 0 \/ ran => last_token[slot] = r

LEMMA OwnStateParts == OwnState <=> \A r \in running \ relocated : OwnStateOf(r)
  BY DEF OwnState, OwnStateOf

\* A scheduled request that was not relocated reads its own state.
LEMMA ReadsOwn ==
  ASSUME CoreInv, OwnState, pc = "execute", NEW r \in DOMAIN request_data \ relocated
  PROVE  ReadsOwnState(r)
<1> DEFINE d == request_data[r]
<1>1. /\ TypeOK /\ r \in running /\ r \in Requests /\ EntryIsTrue(r) /\ OnTrack(r)
      /\ prompt_len[r] \in PromptLens
  <2>1. TypeOK /\ Batch /\ Progress /\ Places
    BY DEF CoreInv
  <2>2. r \in running /\ r \in Running
    BY <2>1 DEF Batch, Places
  <2> QED BY <2>1, <2>2 DEF Batch, Progress, Running
<1>2. Settled(r) = Before(r)
  BY DEF Settled
<1>3. /\ d.num_computed_tokens = Before(r) /\ (d.is_decode <=> Before(r) >= prompt_len[r])
      /\ d.slot_index = req_to_slot[r] /\ d.num_computed_tokens \in Nat /\ d.is_decode \in BOOLEAN
  <2>1. d.num_computed_tokens \in 0 .. MaxModelLen /\ d.is_decode \in BOOLEAN
    BY <1>1, BatchType
  <2>2. d.num_computed_tokens \in Nat
    BY <2>1
  <2> QED BY <1>1, <2>1, <2>2 DEF EntryIsTrue
<1>4. Settled(r) > 0 => state_of[d.slot_index] = r
  BY <1>1, <1>3 DEF OwnState
<1>5. output_tokens[r] > 0 => last_token[d.slot_index] = r
  BY <1>1, <1>3 DEF OwnState
<1>6. prompt_len[r] \in Nat /\ prompt_len[r] > 0
  <2>1. \A n \in PromptLens : n \in Nat /\ n > 0
    BY SchedulerAssumption
  <2> QED BY <1>1, <2>1
<1>7. CASE d.is_decode
  <2>1. Before(r) \in Nat /\ Before(r) >= prompt_len[r]
    BY <1>3, <1>7
  <2>2. output_tokens[r] > 0
    BY <1>1, <1>2, <1>6, <2>1 DEF OnTrack
  <2> QED BY <1>2, <1>4, <1>5, <1>6, <2>1, <2>2 DEF ReadsOwnState
<1>8. CASE ~d.is_decode /\ d.num_computed_tokens = 0
  BY <1>8 DEF ReadsOwnState, FirstChunk
<1>9. CASE ~d.is_decode /\ d.num_computed_tokens # 0
  <2>1. Settled(r) > 0
    BY <1>2, <1>3, <1>9
  <2> QED BY <1>4, <1>9, <2>1 DEF ReadsOwnState
<1> QED BY <1>3, <1>7, <1>8, <1>9

\* The forward pass leaves every slot with what its own request has absorbed.
LEMMA ExecuteOwn ==
  ASSUME CoreInv, OwnState, Execute, NEW r \in running, r \notin relocated
  PROVE  OwnStateOf(r)'
<1>0. /\ TypeOK /\ SlotsHeld /\ Batch /\ pc = "execute" /\ pc' = "aborts"
      /\ UNCHANGED <<num_computed_tokens, output_tokens, req_to_slot, request_data>>
      /\ DOMAIN sampled' = {q \in DOMAIN request_data : IsSampled(request_data[q])}
      /\ DOMAIN request_data \subseteq running
  BY DEF CoreInv, Execute, requestVars, queueVars, outputVars, Batch
<1> DEFINE slot == req_to_slot[r]
<1>1. slot \in Slot!Slots /\ r \in Slot!Holders /\ r \in Requests
  BY <1>0, RunningSlot
<1>2. PICK bound \in Slot!Slots \cup {MaxNumSeqs} :
       /\ state_of' = [s \in Slot!Slots |->
            IF s \in PadSlots(bound) THEN Mixed
            ELSE IF BatchedAt(s) = {} THEN state_of[s]
            ELSE IF \E q \in BatchedAt(s) : BatchedAt(s) = {q} /\ ReadsOwnState(q)
                 THEN CHOOSE q \in BatchedAt(s) : TRUE ELSE Mixed]
       /\ last_token' = [s \in Slot!Slots |->
            IF \E q \in BatchedAt(s) : IsSampled(request_data[q])
            THEN CHOOSE q \in BatchedAt(s) : IsSampled(request_data[q])
            ELSE last_token[s]]
  BY DEF Execute
<1>3. slot \notin PadSlots(bound)
  BY <1>1 DEF PadSlots, Slot!Used
<1>4. BatchedAt(slot) \subseteq {r}
  <2> SUFFICES ASSUME NEW q \in DOMAIN request_data, request_data[q].slot_index = slot PROVE q = r
    BY DEF BatchedAt
  <2>1. q \in Slot!Holders /\ req_to_slot[q] = slot
    BY <1>0 DEF Batch, EntryIsTrue, SlotsHeld
  <2> QED BY <1>0, <1>1, <2>1 DEF SlotsHeld
<1>5. /\ state_of'[slot] = IF BatchedAt(slot) = {} THEN state_of[slot]
             ELSE IF \E q \in BatchedAt(slot) : BatchedAt(slot) = {q} /\ ReadsOwnState(q)
                  THEN CHOOSE q \in BatchedAt(slot) : TRUE ELSE Mixed
      /\ last_token'[slot] = IF \E q \in BatchedAt(slot) : IsSampled(request_data[q])
            THEN CHOOSE q \in BatchedAt(slot) : IsSampled(request_data[q])
            ELSE last_token[slot]
  BY <1>1, <1>2, <1>3
<1>6. CASE r \in DOMAIN request_data
  <2>1. request_data[r].slot_index = slot /\ BatchedAt(slot) = {r}
    BY <1>0, <1>4, <1>6 DEF Batch, EntryIsTrue, BatchedAt
  <2>2. ReadsOwnState(r)
    BY <1>0, <1>6, ReadsOwn
  <2>3. state_of'[slot] = r
    BY <1>5, <2>1, <2>2
  <2>4. IF IsSampled(request_data[r]) THEN last_token'[slot] = r
                                      ELSE last_token'[slot] = last_token[slot]
    BY <1>5, <2>1
  <2>5. output_tokens[r] > 0 => last_token[slot] = r
    BY <1>0 DEF OwnState
  <2> QED BY <1>0, <2>3, <2>4, <2>5 DEF OwnStateOf
<1>7. CASE r \notin DOMAIN request_data
  <2>1. BatchedAt(slot) = {}
    BY <1>4, <1>7 DEF BatchedAt
  <2>2. state_of'[slot] = state_of[slot] /\ last_token'[slot] = last_token[slot]
    BY <1>5, <2>1
  <2>3. /\ num_computed_tokens[r] > 0 => state_of[slot] = r
        /\ output_tokens[r] > 0 => last_token[slot] = r
    BY <1>0, <1>7 DEF OwnState, Settled, Before
  <2> QED BY <1>0, <1>7, <2>2, <2>3 DEF OwnStateOf
<1> QED BY <1>6, <1>7

\* No step but batch_condense puts a running request on a slot it has not filled itself.
LEMMA OwnStateNext ==
  ASSUME CoreInv, OwnState, Step \/ Drive PROVE OwnState'
<1> SUFFICES ASSUME NEW r \in running', r \notin relocated' PROVE OwnStateOf(r)'
  BY DEF OwnState, OwnStateOf
<1>0. /\ TypeOK /\ SlotsHeld /\ Places /\ Batch /\ Progress /\ running \subseteq Requests
      /\ r \in running /\ r \notin relocated => OwnStateOf(r)
  BY TypeParts, OwnStateParts DEF CoreInv, QueueTypes
<1>1. ASSUME r \in running, r \notin relocated, UNCHANGED <<state_of, last_token>>,
             req_to_slot'[r] = req_to_slot[r], output_tokens'[r] = output_tokens[r],
             pc \notin {"aborts", "update"}, pc' \notin {"aborts", "update"},
             Settled(r)' = Settled(r)
      PROVE  OwnStateOf(r)'
  BY <1>0, <1>1 DEF OwnStateOf
<1>2. ASSUME r \in running, r \notin relocated,
             UNCHANGED <<state_of, last_token, num_computed_tokens, request_data, sampled>>,
             req_to_slot'[r] = req_to_slot[r], output_tokens'[r] = output_tokens[r],
             pc' = pc \/ (pc = "aborts" /\ pc' = "update")
      PROVE  OwnStateOf(r)'
  <2>1. Settled(r)' = Settled(r)
    BY <1>2 DEF Settled, Before
  <2> QED BY <1>0, <1>2, <2>1 DEF OwnStateOf
<1>3. CASE Execute
  <2>1. r \in running /\ r \notin relocated
    BY <1>3 DEF Execute, queueVars
  <2> QED BY <1>3, <2>1, ExecuteOwn
<1>4. CASE \/ ScheduleStart /\ ModelIdle
           \/ \E q \in Requests : Phase1Schedule(q) /\ ModelIdle
           \/ \E q \in Requests : Phase1Finish(q) /\ ModelIdle
           \/ \E q \in Requests : Phase1Skip(q) /\ ModelIdle
           \/ Phase1End /\ ModelIdle
           \/ \E q \in Requests : Phase2Raise(q) /\ ModelIdle
           \/ \E q \in Requests : Phase2HoldBack(q) /\ ModelIdle
           \/ Phase2Blocked /\ ModelIdle
  <2>1. /\ UNCHANGED <<running, output_tokens, req_to_slot, num_computed_tokens, gpuVars>>
        /\ pc \in {"ready", "phase1", "phase2"} /\ pc' \in {"phase1", "phase2", "raised"}
    BY <1>4 DEF ScheduleStart, Phase1Schedule, Phase1Finish, Phase1Skip, Phase1Visit,
       Phase1End, Phase2Raise, Phase2HoldBack, Phase2Pop, Phase2Open, Phase2Blocked,
       requestVars, queueVars, ModelIdle
  <2>2. Settled(r)' = Settled(r)
    BY <2>1 DEF Settled, Before
  <2> QED BY <1>1, <2>1, <2>2 DEF gpuVars
<1>5. ASSUME NEW q \in Requests, Phase2Admit(q), ModelIdle PROVE OwnStateOf(r)'
  <2>1. /\ Phase2Pop(q) /\ pc = "phase2" /\ running' = running \cup {q}
        /\ output_tokens' = [output_tokens EXCEPT ![q] = 0] /\ Slot!Allocate(q)
        /\ UNCHANGED <<pc, num_computed_tokens, gpuVars>>
    BY <1>5 DEF Phase2Admit, Phase2Pop, Phase2Open, ModelIdle
  <2>2. q \in Waiting
    BY <1>0, <2>1, Popped
  <2>3. Settled(r)' = num_computed_tokens[r] /\ Settled(r) = num_computed_tokens[r]
    BY <2>1 DEF Settled, Before
  <2>4. output_tokens \in [Requests -> Nat] /\ r \in Requests
        /\ req_to_slot \in [Requests -> Slot!Slots \cup {Slot!NoSlot}]
    BY <1>0, <2>1, TypeParts DEF QueueTypes, SlotTypes
  <2>5. CASE r = q
    <3>1. num_computed_tokens[r] = 0 /\ output_tokens'[r] = 0
      BY <1>0, <2>1, <2>2, <2>4, <2>5 DEF Progress, Waiting
    <3> QED BY <2>1, <2>3, <3>1 DEF OwnStateOf
  <2>6. CASE r # q
    <3>1. r \in running /\ output_tokens'[r] = output_tokens[r]
      BY <2>1, <2>4, <2>6
    <3>2. req_to_slot'[r] = req_to_slot[r]
      BY <2>1, <2>4, <2>6 DEF Slot!Allocate
    <3> QED BY <1>1, <2>1, <2>3, <3>1, <3>2 DEF gpuVars
  <2> QED BY <2>5, <2>6
<1>6. CASE ScheduleEnd /\ ModelIdle
  <2>1. /\ pc = "phase2" /\ r \in running /\ r \in Requests /\ r \notin relocated
        /\ pc' = IF DOMAIN request_data # {} THEN "execute"
                 ELSE IF finished_req_ids # {} THEN "aborts" ELSE "ready"
        /\ num_computed_tokens' =
             [q \in Requests |-> IF q \in DOMAIN request_data
                                 THEN num_computed_tokens[q] + request_data[q].num_tokens
                                 ELSE num_computed_tokens[q]]
        /\ UNCHANGED <<running, output_tokens, req_to_slot, request_data, sampled, gpuVars>>
    BY <1>0, <1>6 DEF ScheduleEnd, ModelIdle, outputVars, gpuVars
  <2>2. CASE r \in DOMAIN request_data
    <3>1. num_computed_tokens[r] \in Int /\ request_data[r].num_tokens \in Int
      BY <1>0, <2>1, <2>2, Numbers, BatchType
    <3>2. Settled(r)' = Settled(r) /\ pc' = "execute"
      BY <2>1, <2>2, <3>1 DEF Settled, Before
    <3> QED BY <1>1, <2>1, <3>2 DEF gpuVars
  <2>3. CASE r \notin DOMAIN request_data
    <3>1. Settled(r)' = Settled(r) /\ num_computed_tokens'[r] = Settled(r)
      BY <2>1, <2>3 DEF Settled, Before
    <3>2. DOMAIN sampled' = {}
      BY <1>0, <2>1 DEF Batch, NoRequests
    <3> QED BY <1>0, <2>1, <3>1, <3>2 DEF OwnStateOf, gpuVars
  <2> QED BY <2>2, <2>3
<1>7. CASE ExecuteRaises
  <2>1. /\ UNCHANGED <<running, output_tokens, req_to_slot, num_computed_tokens, request_data, gpuVars>>
        /\ pc = "execute" /\ pc' = "failed"
    BY <1>7 DEF ExecuteRaises, requestVars, queueVars, outputVars
  <2>2. Settled(r)' = Settled(r)
    BY <2>1 DEF Settled, Before
  <2> QED BY <1>1, <2>1, <2>2 DEF gpuVars
<1>8. ASSUME NEW ids, FinishRequests(ids), UNCHANGED <<req_to_slot, request_data, sampled, gpuVars>>,
             pc' = pc \/ (pc = "aborts" /\ pc' = "update")
      PROVE  OwnStateOf(r)'
  <2>1. /\ running' = running \ ids /\ UNCHANGED num_computed_tokens
        /\ output_tokens' = [q \in Requests |-> IF q \in ids \cap running THEN 0 ELSE output_tokens[q]]
    BY <1>8 DEF FinishRequests
  <2>2. r \in running /\ output_tokens'[r] = output_tokens[r]
    BY <1>0, <2>1
  <2> QED BY <1>2, <1>8, <2>1, <2>2 DEF gpuVars
<1>9. CASE ProcessAbortsQueue \/ \E ids \in SUBSET Requests : AbortBetween(ids)
  BY <1>8, <1>9 DEF ProcessAbortsQueue, AbortBetween, outputVars
<1>10. CASE Update
  <2> DEFINE live == DOMAIN sampled \cap running
             gone == (finished_req_ids \cup {q \in live : sampled[q] = "eos"}) \cap running
  <2>1. /\ running' = running \ gone
        /\ \A q \in Requests : output_tokens'[q] =
             IF q \in gone THEN 0 ELSE output_tokens[q] + (IF q \in live THEN 1 ELSE 0)
    BY <1>0, <1>10, Delivery
  <2>2. pc = "update" /\ pc' = "condense" /\ UNCHANGED <<num_computed_tokens, req_to_slot, gpuVars>>
    BY <1>10 DEF Update, UpdateFromOutput
  <2>3. r \in running /\ r \in Requests /\ r \notin gone
    BY <1>0, <2>1
  <2>4. output_tokens[r] \in Nat
    BY <1>0, <2>3, Numbers
  <2>5. Settled(r)' = num_computed_tokens[r]
    BY <2>2 DEF Settled
  <2>6. output_tokens'[r] > 0 => output_tokens[r] > 0 \/ r \in DOMAIN sampled
    BY <2>1, <2>3, <2>4
  <2> QED BY <1>0, <2>2, <2>3, <2>5, <2>6 DEF OwnStateOf, gpuVars
<1>11. CASE Condense
  <2>1. /\ pc = "condense" /\ pc' = "ready" /\ r \in running /\ r \in Requests
        /\ UNCHANGED <<running, output_tokens, num_computed_tokens, state_of, last_token>>
        /\ relocated' = {q \in Requests : \/ q \in relocated
                                          \/ q \in Slot!Holders \ freed
                                             /\ req_to_slot'[q] # req_to_slot[q]}
    BY <1>0, <1>11 DEF Condense, requestVars, queueVars
  <2>2. r \in Slot!Holders /\ r \notin freed
    BY <1>0, <2>1 DEF SlotsHeld, Places, Running, Ended
  <2>3. r \notin relocated /\ req_to_slot'[r] = req_to_slot[r]
    BY <2>1, <2>2
  <2>4. Settled(r)' = num_computed_tokens[r] /\ Settled(r) = num_computed_tokens[r]
    BY <2>1 DEF Settled, Before
  <2> QED BY <1>1, <2>1, <2>3, <2>4
<1>12. CASE AddBetween \/ QueueIds \/ \E q \in Requests : RejectBetween(q)
  BY <1>2, <1>12 DEF AddBetween, AddRequest, QueueIds, RejectBetween, requestVars, queueVars,
     outputVars, gpuVars, schedulerVars
<1> QED
  BY <1>3, <1>4, <1>5, <1>6, <1>7, <1>9, <1>10, <1>11, <1>12
  DEF Step, Schedule, Drive, ModelIdle

\* Whoever used a slot before and whoever was aborted, a request computes on its own
\* state and its own last token until batch_condense gives it another slot.
THEOREM OwnStateUntilRelocatedAlways ==
  /\ Spec => []OwnStateUntilRelocated
  /\ InprocSpec => []OwnStateUntilRelocated
  /\ DrivenSpec => []OwnStateUntilRelocated
<1>1. Init => OwnState
  BY DEF Init, SchedulerInit, OwnState
<1>2. CoreInv /\ OwnState /\ [Step \/ Drive]_vars => OwnState'
  <2>1. CoreInv /\ [Step \/ Drive]_vars => Step \/ Drive
    BY EveryMove DEF CoreInv
  <2> QED BY <2>1, OwnStateNext
<1>3. CoreInv /\ OwnState => OwnStateUntilRelocated
  BY ReadsOwn DEF OwnStateUntilRelocated
<1> QED BY <1>1, <1>2, <1>3, DrivenInvariant, EveryDriver, PTL DEF DrivenSpec

-----------------------------------------------------------------------------
(***************************************************************************)
(* The engine process.                                                     *)
(***************************************************************************)
\* run_busy_loop leaves a step only when it is over, and ends between two steps or
\* because the step raised.
BetweenSteps ==
  /\ loop \notin {"step", "exited"} => pc = "ready"
  /\ loop = "exited" => pc \in {"ready", "raised", "failed"}

\* Where the ADD of r is.
InMail(m) == \E i \in DOMAIN input_queue : input_queue[i] = m

Mail ==
  /\ \A r \in Requests : r \notin sent => status[r] = "NEW"
  /\ \A r \in Requests, i \in DOMAIN input_queue :
       input_queue[i] = AddOf(r) => r \in sent /\ status[r] = "NEW"
  /\ \A r \in Requests, i, j \in DOMAIN input_queue :
       input_queue[i] = AddOf(r) /\ input_queue[j] = AddOf(r) => i = j
  /\ \A r \in sent : status[r] = "NEW" => InMail(AddOf(r))
  /\ \A r \in Requests, j \in DOMAIN input_queue :
       input_queue[j] = AbortOf(r) =>
         \/ status[r] # "NEW"
         \/ \E i \in DOMAIN input_queue : i < j /\ input_queue[i] = AddOf(r)
  /\ in_hand \subseteq abort_sent /\ \A r, q \in in_hand : r = q
  /\ aborts_queue \subseteq abort_sent

\* The callback thread has not run while the engine serves, and what it leaves behind
\* keeps the engine from sleeping.
Awake ==
  /\ shutdown_state = "RUNNING" <=> callback = "armed"
  /\ loop \in {"clear", "get"} /\ callback = "done" => input_queue # <<>>

\* The types of what the process adds to the engine.
ProcTypes ==
  /\ loop \in {"top", "input", "clear", "get", "drain", "step", "exited"}
  /\ input_queue \in Seq(Messages)
  /\ in_hand \in SUBSET Requests
  /\ sent \in SUBSET Requests /\ abort_sent \in SUBSET sent
  /\ shutdown_state \in {"RUNNING", "REQUESTED", "SHUTTING_DOWN"}
  /\ callback \in {"armed", "triggered", "done"}
  /\ shutdown_timeout \in ShutdownTimeouts

ProcInv ==
  /\ CoreInv
  /\ ProcTypes
  /\ BetweenSteps
  /\ Mail
  /\ Awake
  /\ AnsweredOnce
  /\ AbortNotLost
  /\ ExitEndsRequests

-----------------------------------------------------------------------------
(***************************************************************************)
(* What any step or drive of the engine does to requests                   *)
(***************************************************************************)

\* A step answers a request by ending it, once; it ends a request without an answer only
\* when its id was on aborts_queue.
LEMMA FinishesNext ==
  ASSUME CoreInv, Step \/ Drive, NEW r \in Requests
  PROVE  \/ /\ delivered'[r].finishes = delivered[r].finishes
            /\ r \in Ended' => r \in Ended \cup aborts_queue
         \/ /\ r \notin Ended /\ r \in Ended'
            /\ delivered'[r].finishes = delivered[r].finishes + 1
<1>0. /\ TypeOK /\ Places /\ status \in [Requests -> Statuses]
      /\ running \subseteq Running
  BY TypeParts DEF CoreInv, RequestTypes, Places
<1>1. CASE UNCHANGED <<status, delivered>>
  BY <1>1 DEF Ended
<1>2. ASSUME NEW q \in Requests, Phase2Admit(q) \/ Phase2Raise(q)
      PROVE  UNCHANGED delivered /\ (r \in Ended' => r \in Ended)
  <2>1. status' = [status EXCEPT ![q] = "RUNNING"] /\ UNCHANGED delivered
    BY <1>2 DEF Phase2Admit, Phase2Raise, Phase2Pop
  <2> QED BY <1>0, <2>1 DEF Ended
<1>3. CASE ProcessAbortsQueue
  BY <1>0, <1>3 DEF ProcessAbortsQueue, FinishRequests, Ended
<1>4. CASE Update
  <2> DEFINE gone == (finished_req_ids \cup {q \in DOMAIN sampled \cap running : sampled[q] = "eos"})
                       \cap running
  <2>1. /\ status' = [q \in Requests |-> IF q \in gone THEN "FINISHED_STOPPED" ELSE status[q]]
        /\ delivered'[r].finishes =
             IF r \in gone THEN delivered[r].finishes + 1 ELSE delivered[r].finishes
    BY <1>0, <1>4, Delivery
  <2>2. r \in gone => status[r] = "RUNNING"
    BY <1>0 DEF Running
  <2> HIDE DEF gone
  <2> QED BY <2>1, <2>2 DEF Ended
<1>5. ASSUME NEW ids, AbortBetween(ids)
      PROVE  IF r \in ids \cap Unfinished
             THEN /\ r \notin Ended /\ r \in Ended'
                  /\ delivered'[r].finishes = delivered[r].finishes + 1
             ELSE delivered'[r] = delivered[r] /\ (r \in Ended' => r \in Ended)
  <2>1. /\ delivered'[r].finishes =
             IF r \in ids \cap Unfinished THEN delivered[r].finishes + 1
                                          ELSE delivered[r].finishes
        /\ r \notin ids \cap Unfinished => delivered'[r] = delivered[r]
    BY <1>0, <1>5, AbortOutput
  <2>2. Ended' = Ended \cup (ids \cap Unfinished)
    BY <1>0, <1>5, Finished DEF AbortBetween, scheduleVars
  <2>3. r \in Unfinished => r \notin Ended
    BY <1>0 DEF Unfinished, Places, Waiting, Running, Ended
  <2> QED BY <2>1, <2>2, <2>3
<1>6. ASSUME NEW q \in Requests, RejectBetween(q)
      PROVE  IF r = q
             THEN /\ r \notin Ended /\ r \in Ended'
                  /\ delivered'[r].finishes = delivered[r].finishes + 1
             ELSE delivered'[r] = delivered[r] /\ (r \in Ended' => r \in Ended)
  <2>1. /\ status[q] = "NEW" /\ status' = [status EXCEPT ![q] = "FINISHED_ABORTED"]
    BY <1>6 DEF RejectBetween
  <2> QED BY <1>0, <1>6, <2>1, RejectOutput DEF Ended
<1>7. CASE AddBetween
  <2>1. PICK q \in Requests : status' = [status EXCEPT ![q] = "WAITING"]
    BY <1>7 DEF AddBetween, AddRequest
  <2>2. UNCHANGED delivered
    BY <1>7 DEF AddBetween
  <2> QED BY <1>0, <2>1, <2>2 DEF Ended
<1>8. CASE \/ ScheduleStart
           \/ \E q \in Requests : Phase1Schedule(q)
           \/ \E q \in Requests : Phase1Finish(q)
           \/ \E q \in Requests : Phase1Skip(q)
           \/ Phase1End
           \/ \E q \in Requests : Phase2HoldBack(q)
           \/ Phase2Blocked \/ ScheduleEnd \/ Execute \/ ExecuteRaises \/ Condense \/ QueueIds
  BY <1>1, <1>8 DEF ScheduleStart, Phase1Schedule, Phase1Finish, Phase1Skip, Phase1Visit,
     Phase1End, Phase2HoldBack, Phase2Pop, Phase2Blocked, ScheduleEnd, Execute,
     ExecuteRaises, Condense, QueueIds, requestVars, schedulerVars
<1> QED
  BY <1>2, <1>3, <1>4, <1>5, <1>6, <1>7, <1>8 DEF Step, Schedule, Drive

\* Only an ADD makes a request known to the engine.
LEMMA NewNext ==
  ASSUME CoreInv, Step \/ (\E ids \in SUBSET Requests : AbortBetween(ids)) \/ QueueIds,
         NEW r \in Requests
  PROVE  status'[r] = "NEW" <=> status[r] = "NEW"
<1>0. /\ TypeOK /\ Places /\ status \in [Requests -> Statuses]
      /\ running \subseteq Running
  BY TypeParts DEF CoreInv, RequestTypes, Places
<1>1. CASE UNCHANGED status
  BY <1>1
<1>2. ASSUME NEW q \in Requests, Phase2Admit(q) \/ Phase2Raise(q)
      PROVE  status'[r] = "NEW" <=> status[r] = "NEW"
  <2>1. status' = [status EXCEPT ![q] = "RUNNING"] /\ Phase2Pop(q)
    BY <1>2 DEF Phase2Admit, Phase2Raise
  <2>2. status[q] = "WAITING"
    BY <1>0, <2>1, Popped DEF Waiting
  <2> QED BY <1>0, <2>1, <2>2
<1>3. ASSUME NEW ids, FinishRequests(ids)
      PROVE  status'[r] = "NEW" <=> status[r] = "NEW"
  <2>1. status' = [q \in Requests |->
                     IF q \in ids \cap Unfinished THEN "FINISHED_ABORTED" ELSE status[q]]
    BY <1>3 DEF FinishRequests
  <2>2. r \in Unfinished => status[r] # "NEW"
    BY <1>0 DEF Unfinished, Places, Waiting, Running
  <2> QED BY <2>1, <2>2
<1>4. CASE Update
  <2> DEFINE gone == (finished_req_ids \cup {q \in DOMAIN sampled \cap running : sampled[q] = "eos"})
                       \cap running
  <2>1. status' = [q \in Requests |-> IF q \in gone THEN "FINISHED_STOPPED" ELSE status[q]]
    BY <1>0, <1>4, Delivery
  <2>2. r \in gone => status[r] = "RUNNING"
    BY <1>0 DEF Running
  <2> HIDE DEF gone
  <2> QED BY <2>1, <2>2
<1>5. CASE \/ ScheduleStart
           \/ \E q \in Requests : Phase1Schedule(q)
           \/ \E q \in Requests : Phase1Finish(q)
           \/ \E q \in Requests : Phase1Skip(q)
           \/ Phase1End
           \/ \E q \in Requests : Phase2HoldBack(q)
           \/ Phase2Blocked \/ ScheduleEnd \/ Execute \/ ExecuteRaises \/ Condense \/ QueueIds
  BY <1>1, <1>5 DEF ScheduleStart, Phase1Schedule, Phase1Finish, Phase1Skip, Phase1Visit,
     Phase1End, Phase2HoldBack, Phase2Pop, Phase2Blocked, ScheduleEnd, Execute,
     ExecuteRaises, Condense, QueueIds, requestVars, schedulerVars
<1>6. CASE ProcessAbortsQueue
  BY <1>3, <1>6 DEF ProcessAbortsQueue
<1>7. CASE \E ids \in SUBSET Requests : AbortBetween(ids)
  BY <1>3, <1>7 DEF AbortBetween
<1> QED
  BY <1>2, <1>4, <1>5, <1>6, <1>7 DEF Step, Schedule

\* The engine takes ids off aborts_queue; it never puts one there.
LEMMA StepDrains == Step => aborts_queue' \in {aborts_queue, {}}
  BY DEF Step, Execute, ExecuteRaises, ProcessAbortsQueue, Update, Condense

-----------------------------------------------------------------------------
(***************************************************************************)
(* The busy loop's moves, as moves of the engine                           *)
(***************************************************************************)

\* Nothing arrives or leaves: the loop runs, the engine steps, a signal is raised.
NoMail ==
  \/ HandleShutdown \/ InputQueue \/ ClearAborts \/ DrainEnd \/ EngineStep
  \/ NothingToStep \/ StepFailed \/ Signal \/ UNCHANGED allVars

LEMMA AbortAndReplyIsBetween ==
  ASSUME NEW ids, AbortAndReply(ids), UNCHANGED <<pc, stepVars>>,
         pc \in {"ready", "raised", "failed"}
  PROVE  AbortBetween(ids)
  BY DEF AbortAndReply, AbortBetween, stepVars

LEMMA Idles ==
  ASSUME TypeOK, aborts_queue' \in {aborts_queue, {}},
         UNCHANGED <<schedulerVars, sampled, gpuVars>>
  PROVE  QueueIds
  BY TypeParts DEF QueueIds, GpuTypes

LEMMA NoMailMoves ==
  ASSUME ProcInv, NoMail
  PROVE  /\ Step \/ (\E ids \in SUBSET Requests : AbortBetween(ids)) \/ QueueIds
         /\ UNCHANGED <<input_queue, sent, in_hand, abort_sent>>
         /\ aborts_queue' \in {aborts_queue, {}}
<1>0. /\ TypeOK /\ BetweenSteps /\ Unfinished \in SUBSET Requests
      /\ loop \in {"top", "input", "clear", "get", "drain", "step", "exited"}
  <2>1. /\ TypeOK /\ BetweenSteps /\ Places
        /\ loop \in {"top", "input", "clear", "get", "drain", "step", "exited"}
    BY DEF ProcInv, CoreInv, ProcTypes
  <2>2. Unfinished \subseteq Waiting \cup Running
    BY <2>1 DEF Unfinished, Places
  <2> QED BY <2>1, <2>2 DEF Waiting, Running
<1>1. CASE HandleShutdown
  <2>1. /\ UNCHANGED <<pc, stepVars, input_queue, sent, in_hand, abort_sent>>
        /\ AbortAndReply(Unfinished) \/ UNCHANGED <<requestVars, queueVars, delivered>>
        /\ pc = "ready"
    BY <1>0, <1>1 DEF HandleShutdown, BetweenSteps
  <2>2. aborts_queue' = aborts_queue
    BY <2>1 DEF stepVars
  <2>3. CASE AbortAndReply(Unfinished)
    <3>1. AbortBetween(Unfinished)
      BY <2>1, <2>3, AbortAndReplyIsBetween
    <3> QED BY <1>0, <2>1, <2>2, <3>1
  <2>4. CASE UNCHANGED <<requestVars, queueVars, delivered>>
    <3>1. UNCHANGED <<schedulerVars, sampled, gpuVars>>
      BY <2>1, <2>4 DEF stepVars, schedulerVars
    <3> QED BY <1>0, <2>1, <2>2, <3>1, Idles
  <2> QED BY <2>1, <2>3, <2>4
<1>2. CASE StepFailed
  <2>1. /\ UNCHANGED <<pc, stepVars, input_queue, sent, in_hand, abort_sent>>
        /\ AbortAndReply(Unfinished) /\ pc \in {"raised", "failed"}
    BY <1>2 DEF StepFailed
  <2>2. AbortBetween(Unfinished)
    BY <2>1, AbortAndReplyIsBetween
  <2> QED BY <1>0, <2>1, <2>2 DEF stepVars
<1>3. CASE EngineStep
  BY <1>3, StepDrains DEF EngineStep
<1>4. CASE ClearAborts
  BY <1>0, <1>4, Idles DEF ClearAborts
<1>5. CASE InputQueue \/ DrainEnd \/ NothingToStep \/ Signal \/ UNCHANGED allVars
  <2>1. UNCHANGED <<vars, input_queue, sent, in_hand, abort_sent>>
    BY <1>5 DEF InputQueue, DrainEnd, NothingToStep, Signal, allVars, procVars
  <2>2. UNCHANGED <<schedulerVars, aborts_queue, sampled, gpuVars>>
    BY <2>1 DEF vars
  <2> QED BY <1>0, <2>1, <2>2, Idles
<1> QED BY <1>1, <1>2, <1>3, <1>4, <1>5 DEF NoMail

\* The kinds of messages.
LEMMA MessageKinds ==
  /\ \A m \in Messages : m.type = "ADD" => \E r \in Requests : m = AddOf(r) /\ m.req = r
  /\ \A m \in Messages : m.type = "ABORT" => \E r \in Requests : m = AbortOf(r) /\ m.req = r
  /\ \A m \in Messages : m.type = "WAKEUP" => m = Wakeup
  /\ \A r, q : AddOf(r) # AbortOf(q) /\ AddOf(r) # Wakeup /\ AbortOf(r) # Wakeup
  /\ \A r, q : /\ AddOf(r) = AddOf(q) => r = q
               /\ AbortOf(r) = AbortOf(q) => r = q
<1>1. \A r : AddOf(r).type = "ADD" /\ AddOf(r).req = r
  BY DEF AddOf
<1>2. \A r : AbortOf(r).type = "ABORT" /\ AbortOf(r).req = r
  BY DEF AbortOf
<1>3. Wakeup.type = "WAKEUP"
  BY DEF Wakeup
<1>4. \A m \in Messages : \/ m = Wakeup
                          \/ \E r \in Requests : m = AddOf(r)
                          \/ \E r \in Requests : m = AbortOf(r)
  BY DEF Messages
<1> QED BY <1>1, <1>2, <1>3, <1>4

\* What the engine does with the message it takes from its queue.
LEMMA RequestMoves ==
  ASSUME ProcInv, HandleClientRequest, loop \in {"get", "drain"}
  PROVE  /\ Drive
         /\ input_queue # <<>> /\ input_queue' = Tail(input_queue) /\ pc = "ready"
         /\ UNCHANGED <<pc, sent, in_hand, abort_sent, aborts_queue, shutdown_state, callback>>
         /\ \/ \E r \in Requests :
                 /\ Head(input_queue) = AddOf(r)
                 /\ status'[r] # "NEW"
                 /\ \A q \in Requests : q # r => status'[q] = status[q]
            \/ \E r \in Requests :
                 /\ Head(input_queue) = AbortOf(r) /\ AbortBetween({r})
            \/ Head(input_queue) = Wakeup /\ QueueIds
<1>0. /\ TypeOK /\ pc = "ready" /\ input_queue \in Seq(Messages)
      /\ status \in [Requests -> Statuses]
  BY TypeParts DEF ProcInv, CoreInv, BetweenSteps, ProcTypes, RequestTypes
<1> DEFINE msg == Head(input_queue)
<1>1. /\ input_queue # <<>> /\ input_queue' = Tail(input_queue)
      /\ \/ msg.type = "ADD" /\ (AcceptAdd(msg.req) \/ RejectAddInShutdown(msg.req))
         \/ msg.type = "ABORT" /\ AbortAndReply({msg.req})
         \/ msg.type = "WAKEUP" /\ UNCHANGED <<requestVars, queueVars, delivered>>
      /\ UNCHANGED <<pc, stepVars, in_hand, sent, abort_sent, shutdown_state, callback>>
  BY DEF HandleClientRequest
<1>2. msg \in Messages
  BY <1>0, <1>1
<1>3. aborts_queue' = aborts_queue
  BY <1>1 DEF stepVars
<1> HIDE DEF msg
<1>4. ASSUME NEW r \in Requests, msg = AddOf(r), AcceptAdd(r)
      PROVE  /\ Drive /\ status'[r] # "NEW"
             /\ \A q \in Requests : q # r => status'[q] = status[q]
  <2>1. \E prompt \in PromptLens, limit \in MaxTokens : AddRequest(r, prompt, limit)
    BY <1>4 DEF AcceptAdd
  <2>2. status' = [status EXCEPT ![r] = "WAITING"] /\ UNCHANGED delivered
    BY <1>4 DEF AcceptAdd, AddRequest
  <2>3. AddBetween
    BY <1>0, <1>1, <2>1, <2>2 DEF AddBetween, stepVars
  <2> QED BY <1>0, <2>2, <2>3 DEF Drive
<1>5. ASSUME NEW r \in Requests, msg = AddOf(r), RejectAddInShutdown(r)
      PROVE  /\ Drive /\ status'[r] # "NEW"
             /\ \A q \in Requests : q # r => status'[q] = status[q]
  <2>1. status[r] = "NEW"
    <3>1. 1 \in DOMAIN input_queue /\ input_queue[1] = AddOf(r)
      BY <1>0, <1>1, <1>5 DEF msg
    <3> QED BY <3>1 DEF ProcInv, Mail
  <2>2. RejectBetween(r)
    BY <1>0, <1>1, <1>5, <2>1 DEF RejectBetween, RejectAddInShutdown, stepVars
  <2> QED BY <1>0, <1>5, <2>2 DEF Drive, RejectAddInShutdown
<1>6. ASSUME NEW r \in Requests, AbortAndReply({r}) PROVE AbortBetween({r}) /\ Drive
  <2>1. AbortBetween({r})
    BY <1>0, <1>1, <1>6, AbortAndReplyIsBetween
  <2> QED BY <2>1 DEF Drive
<1>7. ASSUME UNCHANGED <<requestVars, queueVars, delivered>> PROVE QueueIds /\ Drive
  <2>1. UNCHANGED <<schedulerVars, sampled, gpuVars>>
    BY <1>1, <1>7 DEF stepVars, schedulerVars
  <2>2. QueueIds
    BY <1>0, <1>3, <2>1, Idles
  <2> QED BY <2>2 DEF Drive
<1>8. CASE msg.type = "ADD" /\ (AcceptAdd(msg.req) \/ RejectAddInShutdown(msg.req))
  <2>1. PICK r \in Requests : msg = AddOf(r) /\ msg.req = r
    BY <1>2, <1>8, MessageKinds
  <2> QED BY <1>0, <1>1, <1>3, <1>4, <1>5, <1>8, <2>1 DEF msg
<1>9. CASE msg.type = "ABORT" /\ AbortAndReply({msg.req})
  <2>1. PICK r \in Requests : msg = AbortOf(r) /\ msg.req = r
    BY <1>2, <1>9, MessageKinds
  <2> QED BY <1>0, <1>1, <1>3, <1>6, <1>9, <2>1 DEF msg
<1>10. CASE msg.type = "WAKEUP" /\ UNCHANGED <<requestVars, queueVars, delivered>>
  <2>1. msg = Wakeup
    BY <1>2, <1>10, MessageKinds
  <2> QED BY <1>0, <1>1, <1>3, <1>7, <1>10, <2>1 DEF msg
<1> QED BY <1>1, <1>8, <1>9, <1>10

\* The four ways a message comes in.
LEMMA ArrivalMoves ==
  ASSUME ProcInv, (\E r \in Requests : ReceiveAdd(r) \/ ReceiveAbort(r))
                    \/ QueueAbort \/ SignalCallback
  PROVE  QueueIds /\ UNCHANGED <<pc, status, delivered, step_skipped>>
<1>0. TypeOK /\ aborts_queue \in SUBSET Requests
  BY TypeParts DEF ProcInv, CoreInv, GpuTypes
<1>1. /\ UNCHANGED <<schedulerVars, sampled, gpuVars>> /\ aborts_queue' \in SUBSET Requests
  BY <1>0 DEF ReceiveAdd, ReceiveAbort, QueueAbort, SignalCallback, vars
<1> QED BY <1>1 DEF QueueIds, schedulerVars, requestVars, scheduleVars

\* Whatever a thread does, to the engine it is one of the moves CoreInv expects.
LEMMA ProcMoves ==
  ASSUME ProcInv, [ProcNext]_allVars PROVE Step \/ Drive
<1>1. CASE NoMail
  BY <1>1, NoMailMoves DEF Drive
<1>2. CASE BlockingGet \/ Drain
  BY <1>2, RequestMoves DEF BlockingGet, Drain
<1>3. CASE (\E r \in Requests : ReceiveAdd(r) \/ ReceiveAbort(r)) \/ QueueAbort \/ SignalCallback
  BY <1>3, ArrivalMoves DEF Drive
<1> QED BY <1>1, <1>2, <1>3 DEF ProcNext, BusyLoop, NoMail

-----------------------------------------------------------------------------
(***************************************************************************)
(* ProcInv is inductive                                                    *)
(***************************************************************************)

LEMMA ProcInitInv == ProcInit => ProcInv
<1> SUFFICES ASSUME ProcInit PROVE ProcInv
  OBVIOUS
<1>1. CoreInv
  BY InitCore DEF ProcInit
<1>2. /\ status = [r \in Requests |-> "NEW"] /\ pc = "ready" /\ aborts_queue = {}
      /\ delivered = [r \in Requests |-> [tokens |-> 0, finishes |-> 0, reason |-> "none"]]
  BY DEF ProcInit, Init, SchedulerInit
<1>3. ProcTypes /\ BetweenSteps /\ Awake
  BY <1>2 DEF ProcInit, ProcTypes, BetweenSteps, Awake
<1>4. Mail
  BY <1>2 DEF ProcInit, Mail
<1>5. AnsweredOnce /\ AbortNotLost /\ ExitEndsRequests
  BY <1>2 DEF ProcInit, AnsweredOnce, AbortNotLost, ExitEndsRequests, Ended
<1> QED BY <1>1, <1>3, <1>4, <1>5 DEF ProcInv

\* A process that has ended does nothing more.
LEMMA ExitIsFinal ==
  ASSUME loop = "exited", [ProcNext]_allVars PROVE UNCHANGED allVars
  BY DEF ProcNext, ReceiveAdd, ReceiveAbort, QueueAbort, Signal, SignalCallback, BusyLoop,
     HandleShutdown, InputQueue, ClearAborts, BlockingGet, Drain, DrainEnd, EngineStep,
     NothingToStep, StepFailed

LEMMA ProcTypesNext ==
  ASSUME ProcInv, [ProcNext]_allVars PROVE ProcTypes' /\ BetweenSteps'
<1>0. ProcTypes /\ BetweenSteps
  BY DEF ProcInv
<1>1. ASSUME NEW r \in Requests, ReceiveAdd(r) PROVE ProcTypes' /\ BetweenSteps'
  <2>1. input_queue' \in Seq(Messages)
    BY <1>0, <1>1 DEF ReceiveAdd, ProcTypes, Messages
  <2> QED BY <1>0, <1>1, <2>1 DEF ReceiveAdd, ProcTypes, BetweenSteps, vars, schedulerVars
<1>2. ASSUME NEW r \in Requests, ReceiveAbort(r) PROVE ProcTypes' /\ BetweenSteps'
  BY <1>0, <1>2 DEF ReceiveAbort, ProcTypes, BetweenSteps, schedulerVars
<1>3. CASE QueueAbort
  <2>1. input_queue' \in Seq(Messages)
    BY <1>0, <1>3 DEF QueueAbort, ProcTypes, Messages
  <2> QED BY <1>0, <1>3, <2>1 DEF QueueAbort, ProcTypes, BetweenSteps, vars, schedulerVars
<1>4. CASE SignalCallback
  <2>1. input_queue' \in Seq(Messages)
    BY <1>0, <1>4 DEF SignalCallback, ProcTypes, Messages
  <2> QED BY <1>0, <1>4, <2>1 DEF SignalCallback, ProcTypes, BetweenSteps, vars, schedulerVars
<1>5. CASE BlockingGet \/ Drain
  <2>1. loop \in {"get", "drain"} /\ HandleClientRequest /\ loop' \in {"input", "drain"}
    BY <1>5 DEF BlockingGet, Drain
  <2>2. /\ input_queue # <<>> /\ input_queue' = Tail(input_queue)
        /\ UNCHANGED <<pc, in_hand, sent, abort_sent, shutdown_state, callback, shutdown_timeout>>
    BY <2>1 DEF HandleClientRequest
  <2>3. input_queue' \in Seq(Messages)
    BY <1>0, <2>2 DEF ProcTypes
  <2> QED BY <1>0, <2>1, <2>2, <2>3 DEF ProcTypes, BetweenSteps
<1>6. CASE HandleShutdown
  BY <1>0, <1>6 DEF HandleShutdown, ProcTypes, BetweenSteps
<1>7. CASE EngineStep
  BY <1>0, <1>7 DEF EngineStep, ProcTypes, BetweenSteps
<1>8. CASE StepFailed
  BY <1>0, <1>8 DEF StepFailed, ProcTypes, BetweenSteps
<1>9. CASE InputQueue \/ ClearAborts \/ DrainEnd \/ NothingToStep \/ Signal \/ UNCHANGED allVars
  BY <1>0, <1>9 DEF InputQueue, ClearAborts, DrainEnd, NothingToStep, Signal, allVars, procVars,
     vars, schedulerVars, ProcTypes, BetweenSteps
<1> QED BY <1>1, <1>2, <1>3, <1>4, <1>5, <1>6, <1>7, <1>8, <1>9 DEF ProcNext, BusyLoop

LEMMA AwakeNext ==
  ASSUME ProcInv, [ProcNext]_allVars PROVE Awake'
<1>0. Awake /\ ProcTypes
  BY DEF ProcInv
<1>1. CASE (\E r \in Requests : ReceiveAdd(r)) \/ QueueAbort \/ SignalCallback
  <2>1. PICK m : input_queue' = Append(input_queue, m)
    BY <1>1 DEF ReceiveAdd, QueueAbort, SignalCallback
  <2>2. input_queue' # <<>>
    BY <1>0, <2>1 DEF ProcTypes
  <2> QED BY <1>0, <1>1, <2>2 DEF ReceiveAdd, QueueAbort, SignalCallback, Awake
<1>2. CASE (\E r \in Requests : ReceiveAbort(r)) \/ Signal \/ ClearAborts \/ InputQueue
             \/ UNCHANGED allVars
  BY <1>0, <1>2 DEF ReceiveAbort, Signal, ClearAborts, InputQueue, Idle, allVars, procVars, Awake,
     ProcTypes
<1>3. CASE HandleShutdown
  BY <1>0, <1>3 DEF HandleShutdown, Awake
<1>4. CASE BlockingGet \/ Drain
  BY <1>0, <1>4 DEF BlockingGet, Drain, HandleClientRequest, Awake
<1>5. CASE DrainEnd \/ EngineStep \/ NothingToStep \/ StepFailed
  BY <1>0, <1>5 DEF DrainEnd, EngineStep, NothingToStep, StepFailed, Awake
<1> QED BY <1>1, <1>2, <1>3, <1>4, <1>5 DEF ProcNext, BusyLoop

LEMMA MailNext ==
  ASSUME ProcInv, [ProcNext]_allVars PROVE Mail'
<1>0. /\ Mail /\ CoreInv /\ TypeOK /\ input_queue \in Seq(Messages)
      /\ in_hand \in SUBSET Requests /\ sent \in SUBSET Requests /\ abort_sent \in SUBSET sent
      /\ status \in [Requests -> Statuses]
  BY TypeParts DEF ProcInv, ProcTypes, CoreInv, RequestTypes
<1>1. CASE NoMail
  <2>1. /\ UNCHANGED <<input_queue, sent, in_hand, abort_sent>>
        /\ aborts_queue' \in {aborts_queue, {}}
        /\ \A r \in Requests : status'[r] = "NEW" <=> status[r] = "NEW"
    BY <1>0, <1>1, NoMailMoves, NewNext
  <2> QED BY <1>0, <2>1 DEF Mail, InMail
\* A message at the end.
<1>2. ASSUME NEW m \in Messages, input_queue' = Append(input_queue, m)
      PROVE  /\ DOMAIN input_queue' = DOMAIN input_queue \cup {Len(input_queue) + 1}
             /\ \A i \in DOMAIN input_queue : i < Len(input_queue) + 1
             /\ input_queue'[Len(input_queue) + 1] = m
             /\ \A i \in DOMAIN input_queue : input_queue'[i] = input_queue[i]
  BY <1>0, <1>2
<1> DEFINE last == Len(input_queue) + 1
<1>3. ASSUME NEW q \in Requests, ReceiveAdd(q) PROVE Mail'
  <2>1. /\ q \notin sent /\ sent' = sent \cup {q} /\ AddOf(q) \in Messages
        /\ input_queue' = Append(input_queue, AddOf(q))
        /\ UNCHANGED <<status, aborts_queue, in_hand, abort_sent>>
    BY <1>3 DEF ReceiveAdd, vars, schedulerVars, requestVars, Messages
  <2>2. /\ DOMAIN input_queue' = DOMAIN input_queue \cup {last}
        /\ \A i \in DOMAIN input_queue : i < last /\ input_queue'[i] = input_queue[i]
        /\ input_queue'[last] = AddOf(q)
    BY <1>2, <2>1
  <2> HIDE DEF last
  <2>3. status[q] = "NEW" /\ \A i \in DOMAIN input_queue : input_queue[i] # AddOf(q)
    BY <1>0, <2>1 DEF Mail
  <2>4. \A r \in Requests, i \in DOMAIN input_queue' :
          input_queue'[i] = AddOf(r) => r \in sent' /\ status'[r] = "NEW"
    BY <1>0, <2>1, <2>2, <2>3, MessageKinds DEF Mail
  <2>5. \A r \in Requests, i, j \in DOMAIN input_queue' :
          input_queue'[i] = AddOf(r) /\ input_queue'[j] = AddOf(r) => i = j
    BY <1>0, <2>1, <2>2, <2>3, MessageKinds DEF Mail
  <2>6. \A r \in sent' : status'[r] = "NEW" => InMail(AddOf(r))'
    BY <1>0, <2>1, <2>2, <2>3 DEF Mail, InMail
  <2>7. \A r \in Requests, j \in DOMAIN input_queue' :
          input_queue'[j] = AbortOf(r) =>
            \/ status'[r] # "NEW"
            \/ \E i \in DOMAIN input_queue' : i < j /\ input_queue'[i] = AddOf(r)
    BY <1>0, <2>1, <2>2, MessageKinds DEF Mail
  <2> QED BY <1>0, <2>1, <2>4, <2>5, <2>6, <2>7 DEF Mail
<1>4. ASSUME NEW q \in Requests, ReceiveAbort(q) PROVE Mail'
  BY <1>0, <1>4 DEF ReceiveAbort, schedulerVars, requestVars, Mail, InMail
<1>5. CASE QueueAbort \/ SignalCallback
  <2>1. /\ UNCHANGED <<status, aborts_queue, sent, abort_sent>> /\ in_hand' \subseteq in_hand
        /\ \/ input_queue' = Append(input_queue, Wakeup)
           \/ \E q \in in_hand : input_queue' = Append(input_queue, AbortOf(q))
    BY <1>5 DEF QueueAbort, SignalCallback, vars, schedulerVars, requestVars
  <2>2. PICK m \in Messages : /\ input_queue' = Append(input_queue, m)
                              /\ m = Wakeup \/ \E q \in in_hand : m = AbortOf(q)
    BY <1>0, <2>1 DEF Messages
  <2>3. /\ DOMAIN input_queue' = DOMAIN input_queue \cup {last}
        /\ \A i \in DOMAIN input_queue : i < last /\ input_queue'[i] = input_queue[i]
        /\ input_queue'[last] = m
    BY <1>2, <2>2
  <2> HIDE DEF last
  <2>4. \A r \in Requests : m # AddOf(r)
    BY <2>2, MessageKinds
  <2>5. /\ \A r \in Requests, i \in DOMAIN input_queue' :
             input_queue'[i] = AddOf(r) => r \in sent' /\ status'[r] = "NEW"
        /\ \A r \in Requests, i, j \in DOMAIN input_queue' :
             input_queue'[i] = AddOf(r) /\ input_queue'[j] = AddOf(r) => i = j
    BY <1>0, <2>1, <2>3, <2>4 DEF Mail
  <2>6. \A r \in sent' : status'[r] = "NEW" => InMail(AddOf(r))'
    BY <1>0, <2>1, <2>3 DEF Mail, InMail
  <2>7. \A r \in Requests, j \in DOMAIN input_queue' :
          input_queue'[j] = AbortOf(r) =>
            \/ status'[r] # "NEW"
            \/ \E i \in DOMAIN input_queue' : i < j /\ input_queue'[i] = AddOf(r)
    <3> SUFFICES ASSUME NEW r \in Requests, NEW j \in DOMAIN input_queue',
                        input_queue'[j] = AbortOf(r), status'[r] = "NEW"
                 PROVE  \E i \in DOMAIN input_queue' : i < j /\ input_queue'[i] = AddOf(r)
      OBVIOUS
    <3>1. CASE j \in DOMAIN input_queue
      BY <1>0, <2>1, <2>3, <3>1 DEF Mail
    <3>2. CASE j = last
      <4>1. r \in in_hand
        BY <2>2, <2>3, <3>2, MessageKinds
      <4>2. r \in sent
        BY <1>0, <4>1 DEF Mail
      <4>3. PICK i \in DOMAIN input_queue : input_queue[i] = AddOf(r)
        BY <1>0, <2>1, <4>2 DEF Mail, InMail
      <4> QED BY <2>3, <3>2, <4>3
    <3> QED BY <2>3, <3>1, <3>2
  <2>8. \A r \in Requests : r \notin sent' => status'[r] = "NEW"
    BY <1>0, <2>1 DEF Mail
  <2>9. /\ in_hand' \subseteq abort_sent' /\ \A r, q \in in_hand' : r = q
        /\ aborts_queue' \subseteq abort_sent'
    BY <1>0, <2>1 DEF Mail
  <2> QED BY <2>5, <2>6, <2>7, <2>8, <2>9 DEF Mail
\* The message at the head.
<1>6. CASE BlockingGet \/ Drain
  <2>1. HandleClientRequest /\ loop \in {"get", "drain"}
    BY <1>6 DEF BlockingGet, Drain
  <2>2. /\ input_queue # <<>> /\ input_queue' = Tail(input_queue)
        /\ UNCHANGED <<sent, in_hand, abort_sent, aborts_queue>>
    BY <2>1, RequestMoves
  <2>3. /\ 1 \in DOMAIN input_queue /\ Head(input_queue) = input_queue[1]
        /\ \A i \in DOMAIN input_queue' : i + 1 \in DOMAIN input_queue /\ i \in Nat \ {0}
                                          /\ input_queue'[i] = input_queue[i + 1]
        /\ \A i \in DOMAIN input_queue : i \in Nat
             /\ (i = 1 \/ (i - 1 \in DOMAIN input_queue' /\ input_queue'[i - 1] = input_queue[i]))
    BY <1>0, <2>2
  <2>4. ASSUME \A r \in Requests : Head(input_queue) # AddOf(r),
               \A r \in Requests : status'[r] = "NEW" <=> status[r] = "NEW"
        PROVE  Mail'
    <3>1. \A r \in Requests, i \in DOMAIN input_queue' :
            input_queue'[i] = AddOf(r) => r \in sent' /\ status'[r] = "NEW"
      BY <1>0, <2>2, <2>3, <2>4 DEF Mail
    <3>2. \A r \in Requests, i, j \in DOMAIN input_queue' :
            input_queue'[i] = AddOf(r) /\ input_queue'[j] = AddOf(r) => i = j
      <4> SUFFICES ASSUME NEW r \in Requests, NEW i \in DOMAIN input_queue',
                          NEW j \in DOMAIN input_queue',
                          input_queue'[i] = AddOf(r), input_queue'[j] = AddOf(r)
                   PROVE  i = j
        OBVIOUS
      <4>1. i + 1 = j + 1
        BY <1>0, <2>3 DEF Mail
      <4> QED BY <2>3, <4>1
    <3>3. \A r \in sent' : status'[r] = "NEW" => InMail(AddOf(r))'
      <4> SUFFICES ASSUME NEW r \in sent, status[r] = "NEW" PROVE InMail(AddOf(r))'
        BY <1>0, <2>2, <2>4
      <4>1. PICK i \in DOMAIN input_queue : input_queue[i] = AddOf(r)
        BY <1>0 DEF Mail, InMail
      <4>2. i # 1
        BY <1>0, <2>3, <2>4, <4>1
      <4> QED BY <2>3, <4>1, <4>2 DEF InMail
    <3>4. \A r \in Requests, j \in DOMAIN input_queue' :
            input_queue'[j] = AbortOf(r) =>
              \/ status'[r] # "NEW"
              \/ \E i \in DOMAIN input_queue' : i < j /\ input_queue'[i] = AddOf(r)
      <4> SUFFICES ASSUME NEW r \in Requests, NEW j \in DOMAIN input_queue',
                          input_queue'[j] = AbortOf(r), status[r] = "NEW"
                   PROVE  \E i \in DOMAIN input_queue' : i < j /\ input_queue'[i] = AddOf(r)
        BY <2>4
      <4>1. PICK i \in DOMAIN input_queue : i < j + 1 /\ input_queue[i] = AddOf(r)
        BY <1>0, <2>3 DEF Mail
      <4>2. i # 1
        BY <2>3, <2>4, <4>1
      <4> QED BY <2>3, <4>1, <4>2
    <3>5. \A r \in Requests : r \notin sent' => status'[r] = "NEW"
      BY <1>0, <2>2, <2>4 DEF Mail
    <3>6. /\ in_hand' \subseteq abort_sent' /\ \A r, q \in in_hand' : r = q
          /\ aborts_queue' \subseteq abort_sent'
      BY <1>0, <2>2 DEF Mail
    <3> QED BY <3>1, <3>2, <3>3, <3>4, <3>5, <3>6 DEF Mail
  <2>5. ASSUME NEW q \in Requests, Head(input_queue) = AddOf(q), status'[q] # "NEW",
               \A r \in Requests : r # q => status'[r] = status[r]
        PROVE  Mail'
    <3>0. q \in sent /\ \A i \in DOMAIN input_queue : input_queue[i] = AddOf(q) => i = 1
      BY <1>0, <2>3, <2>5 DEF Mail
    <3>1. \A r \in Requests, i \in DOMAIN input_queue' :
            input_queue'[i] = AddOf(r) => r # q /\ r \in sent' /\ status'[r] = "NEW"
      <4> SUFFICES ASSUME NEW r \in Requests, NEW i \in DOMAIN input_queue',
                          input_queue'[i] = AddOf(r)
                   PROVE  r # q /\ r \in sent' /\ status'[r] = "NEW"
        OBVIOUS
      <4>1. i + 1 \in DOMAIN input_queue /\ input_queue[i + 1] = AddOf(r) /\ i + 1 # 1
        BY <2>3
      <4>2. r # q
        BY <3>0, <4>1
      <4>3. r \in sent /\ status[r] = "NEW"
        BY <1>0, <4>1 DEF Mail
      <4> QED BY <2>2, <2>5, <4>2, <4>3
    <3>2. \A r \in Requests, i, j \in DOMAIN input_queue' :
            input_queue'[i] = AddOf(r) /\ input_queue'[j] = AddOf(r) => i = j
      <4> SUFFICES ASSUME NEW r \in Requests, NEW i \in DOMAIN input_queue',
                          NEW j \in DOMAIN input_queue',
                          input_queue'[i] = AddOf(r), input_queue'[j] = AddOf(r)
                   PROVE  i = j
        OBVIOUS
      <4>1. i + 1 = j + 1
        BY <1>0, <2>3 DEF Mail
      <4> QED BY <2>3, <4>1
    <3>3. \A r \in sent' : status'[r] = "NEW" => InMail(AddOf(r))'
      <4> SUFFICES ASSUME NEW r \in sent, status[r] = "NEW", r # q PROVE InMail(AddOf(r))'
        BY <1>0, <2>2, <2>5
      <4>1. PICK i \in DOMAIN input_queue : input_queue[i] = AddOf(r)
        BY <1>0 DEF Mail, InMail
      <4>2. i # 1
        BY <1>0, <2>3, <2>5, <4>1, MessageKinds
      <4> QED BY <2>3, <4>1, <4>2 DEF InMail
    <3>4. \A r \in Requests, j \in DOMAIN input_queue' :
            input_queue'[j] = AbortOf(r) =>
              \/ status'[r] # "NEW"
              \/ \E i \in DOMAIN input_queue' : i < j /\ input_queue'[i] = AddOf(r)
      <4> SUFFICES ASSUME NEW r \in Requests, NEW j \in DOMAIN input_queue',
                          input_queue'[j] = AbortOf(r), status[r] = "NEW", r # q
                   PROVE  \E i \in DOMAIN input_queue' : i < j /\ input_queue'[i] = AddOf(r)
        BY <2>5
      <4>1. PICK i \in DOMAIN input_queue : i < j + 1 /\ input_queue[i] = AddOf(r)
        BY <1>0, <2>3 DEF Mail
      <4>2. i # 1
        BY <2>3, <2>5, <4>1, MessageKinds
      <4> QED BY <2>3, <4>1, <4>2
    <3>5. \A r \in Requests : r \notin sent' => status'[r] = "NEW"
      BY <1>0, <2>2, <2>5, <3>0 DEF Mail
    <3>6. /\ in_hand' \subseteq abort_sent' /\ \A r, s \in in_hand' : r = s
          /\ aborts_queue' \subseteq abort_sent'
      BY <1>0, <2>2 DEF Mail
    <3> QED BY <3>1, <3>2, <3>3, <3>4, <3>5, <3>6 DEF Mail
  <2>6. ASSUME NEW q \in Requests, Head(input_queue) = AbortOf(q), AbortBetween({q})
        PROVE  Mail'
    <3>1. {q} \in SUBSET Requests
      BY <2>6
    <3>2. \A r \in Requests : status'[r] = "NEW" <=> status[r] = "NEW"
      BY <1>0, <2>6, <3>1, NewNext
    <3> QED BY <2>4, <2>6, <3>2, MessageKinds
  <2>7. ASSUME Head(input_queue) = Wakeup, QueueIds PROVE Mail'
    BY <1>0, <2>4, <2>7, NewNext, MessageKinds
  <2> QED BY <2>1, <2>5, <2>6, <2>7, RequestMoves
<1> QED BY <1>1, <1>3, <1>4, <1>5, <1>6 DEF ProcNext, BusyLoop, NoMail

\* What a client has been told and asked for is never taken back.
LEMMA AbortsKept == [ProcNext]_allVars => abort_sent \subseteq abort_sent'
  BY DEF ProcNext, ReceiveAdd, ReceiveAbort, QueueAbort, Signal, SignalCallback, BusyLoop,
     HandleShutdown, InputQueue, ClearAborts, BlockingGet, Drain, HandleClientRequest, DrainEnd,
     EngineStep, NothingToStep, StepFailed, allVars, procVars

LEMMA AnsweredOnceNext ==
  ASSUME ProcInv, [ProcNext]_allVars, CoreInv' PROVE AnsweredOnce'
<1>0. /\ CoreInv /\ AnsweredOnce /\ aborts_queue \subseteq abort_sent
      /\ (Step \/ Drive) /\ abort_sent \subseteq abort_sent'
      /\ status \in [Requests -> Statuses]
  BY ProcMoves, AbortsKept, TypeParts DEF ProcInv, Mail, CoreInv, RequestTypes
<1>1. ASSUME NEW r \in Requests
      PROVE  status[r] \in {"NEW", "WAITING", "RUNNING"} => delivered[r].finishes = 0
  BY <1>0 DEF CoreInv, Progress
<1>2. \A r \in Requests : status'[r] \in {"NEW", "WAITING", "RUNNING"} => delivered'[r].finishes = 0
  <2>1. \A r \in Requests : status[r] \in {"NEW", "WAITING", "RUNNING"} => delivered[r].finishes = 0
    BY <1>1
  <2>2. Progress'
    BY DEF CoreInv
  <2> QED BY <2>2 DEF Progress
<1>3. ASSUME NEW r \in Requests
      PROVE  /\ delivered'[r].finishes <= 1
             /\ delivered'[r].finishes = 0 /\ r \in Ended' => r \in abort_sent'
  <2>0. delivered[r].finishes \in Nat /\ delivered[r].finishes <= 1
    BY <1>0, Numbers DEF CoreInv, AnsweredOnce
  <2>1. CASE /\ delivered'[r].finishes = delivered[r].finishes
             /\ r \in Ended' => r \in Ended \cup aborts_queue
    BY <1>0, <2>0, <2>1 DEF AnsweredOnce
  <2>2. CASE /\ r \notin Ended /\ r \in Ended'
             /\ delivered'[r].finishes = delivered[r].finishes + 1
    <3>1. delivered[r].finishes = 0
      BY <1>0, <1>1, <2>2 DEF Ended, Statuses
    <3> QED BY <2>2, <3>1
  <2>3. \/ /\ delivered'[r].finishes = delivered[r].finishes
           /\ r \in Ended' => r \in Ended \cup aborts_queue
        \/ /\ r \notin Ended /\ r \in Ended'
           /\ delivered'[r].finishes = delivered[r].finishes + 1
    BY <1>0, FinishesNext
  <2> QED BY <2>1, <2>2, <2>3
<1> QED BY <1>2, <1>3 DEF AnsweredOnce

LEMMA EndedKept ==
  ASSUME CoreInv, Step \/ Drive PROVE Ended \subseteq Ended'
<1> SUFFICES ASSUME NEW r \in Ended PROVE r \in Ended'
  OBVIOUS
<1>1. status'[r] = status[r]
  BY EndedStays
<1> QED BY <1>1 DEF Ended

\* Between two steps an abort ends every request the engine has seen.
LEMMA AbortEnds ==
  ASSUME CoreInv, NEW r \in Requests, pc = "ready", status[r] # "NEW", AbortBetween({r})
  PROVE  r \in Ended'
<1>0. TypeOK /\ Places /\ status[r] \in Statuses
  BY TypeParts DEF CoreInv, RequestTypes
<1>1. Ended' = Ended \cup ({r} \cap Unfinished)
  BY <1>0, Finished DEF AbortBetween, scheduleVars
<1>2. r \in Ended \cup Unfinished
  <2>1. CASE status[r] = "WAITING"
    BY <1>0, <2>1 DEF Places, Waiting, Unfinished, Elements
  <2>2. CASE status[r] = "RUNNING"
    BY <1>0, <2>2 DEF Places, Running, Unfinished
  <2> QED BY <1>0, <2>1, <2>2 DEF Statuses, Ended
<1> QED BY <1>1, <1>2

LEMMA AbortNotLostNext ==
  ASSUME ProcInv, [ProcNext]_allVars PROVE AbortNotLost'
<1>0. /\ CoreInv /\ Mail /\ AbortNotLost /\ BetweenSteps /\ input_queue \in Seq(Messages)
      /\ in_hand \in SUBSET Requests /\ abort_sent \in SUBSET Requests
      /\ Ended \subseteq Ended'
  BY ProcMoves, EndedKept DEF ProcInv, ProcTypes
<1>1. CASE NoMail
  <2>1. UNCHANGED <<input_queue, in_hand, abort_sent>>
    BY <1>1, NoMailMoves
  <2>2. loop = "exited" => loop' = "exited"
    BY ExitIsFinal DEF allVars, procVars
  <2> QED BY <1>0, <2>1, <2>2 DEF AbortNotLost
<1>2. ASSUME NEW m, input_queue' = Append(input_queue, m)
      PROVE  Elements(input_queue') = Elements(input_queue) \cup {m}
  <2>1. /\ DOMAIN input_queue' = DOMAIN input_queue \cup {Len(input_queue) + 1}
        /\ input_queue'[Len(input_queue) + 1] = m
        /\ \A i \in DOMAIN input_queue : input_queue'[i] = input_queue[i]
    BY <1>0, <1>2
  <2> QED BY <2>1 DEF Elements
<1>3. ASSUME NEW q \in Requests, ReceiveAdd(q) PROVE AbortNotLost'
  BY <1>0, <1>2, <1>3 DEF ReceiveAdd, AbortNotLost
<1>4. ASSUME NEW q \in Requests, ReceiveAbort(q) PROVE AbortNotLost'
  BY <1>0, <1>4 DEF ReceiveAbort, AbortNotLost
<1>5. CASE QueueAbort
  <2>1. PICK q \in in_hand : input_queue' = Append(input_queue, AbortOf(q))
    BY <1>5 DEF QueueAbort
  <2>2. in_hand = {q}
    BY <1>0, <2>1 DEF Mail
  <2>3. Elements(input_queue') = Elements(input_queue) \cup {AbortOf(q)}
    BY <1>2, <2>1
  <2> QED BY <1>0, <1>5, <2>2, <2>3 DEF QueueAbort, AbortNotLost
<1>6. CASE SignalCallback
  BY <1>0, <1>2, <1>6 DEF SignalCallback, AbortNotLost
<1>7. CASE BlockingGet \/ Drain
  <2>1. HandleClientRequest /\ loop \in {"get", "drain"}
    BY <1>7 DEF BlockingGet, Drain
  <2>2. /\ input_queue # <<>> /\ input_queue' = Tail(input_queue) /\ pc = "ready"
        /\ UNCHANGED <<in_hand, abort_sent>>
    BY <2>1, RequestMoves
  <2>3. Elements(input_queue) = Elements(input_queue') \cup {Head(input_queue)}
    BY <1>0, <2>2, TailElements
  <2>4. ASSUME NEW r \in Requests, Head(input_queue) = AbortOf(r) PROVE r \in Ended'
    <3>1. AbortBetween({r})
      BY <2>1, <2>4, RequestMoves, MessageKinds
    <3>2. status[r] # "NEW"
      <4>1. 1 \in DOMAIN input_queue /\ input_queue[1] = AbortOf(r)
            /\ \A i \in DOMAIN input_queue : i >= 1
        BY <1>0, <2>2, <2>4
      <4>2. ~ \E i \in DOMAIN input_queue : i < 1
        BY <1>0, <4>1
      <4> QED BY <1>0, <4>1, <4>2 DEF Mail
    <3> QED BY <1>0, <2>2, <3>1, <3>2, AbortEnds
  <2> QED BY <1>0, <2>1, <2>2, <2>3, <2>4 DEF AbortNotLost
<1> QED BY <1>1, <1>3, <1>4, <1>5, <1>6, <1>7 DEF ProcNext, BusyLoop, NoMail

LEMMA ExitEndsRequestsNext ==
  ASSUME ProcInv, [ProcNext]_allVars, CoreInv' PROVE ExitEndsRequests'
<1>0. /\ CoreInv /\ TypeOK /\ Places /\ ExitEndsRequests /\ BetweenSteps
  BY DEF ProcInv, CoreInv
<1> DEFINE left == {r \in Requests : status[r] \in {"WAITING", "RUNNING"}}
<1>1. left = Waiting \cup Running
  BY DEF Waiting, Running
<1>2. left' = Waiting' \cup Running'
  BY DEF Waiting, Running
<1> HIDE DEF left
<1>3. CASE loop = "exited"
  <2>1. UNCHANGED <<loop, pc, status, step_skipped>>
    BY <1>3, ExitIsFinal DEF allVars, procVars, vars, schedulerVars, requestVars, scheduleVars
  <2> QED BY <1>0, <2>1 DEF ExitEndsRequests
<1>4. CASE HandleShutdown
  <2>1. CASE loop' # "exited"
    BY <2>1 DEF ExitEndsRequests
  <2>2. CASE loop' = "exited"
    <3>1. pc' = "ready" /\ ~HasRequests'
      BY <1>0, <1>4, <2>2 DEF HandleShutdown, BetweenSteps
    <3>2. Places'
      BY DEF CoreInv
    <3>3. waiting' = <<>> /\ skipped_waiting' = <<>> /\ running' = {} /\ step_skipped' = <<>>
      BY <3>1, <3>2 DEF HasRequests, Places
    <3>4. Waiting' = {} /\ Running' = {}
      BY <3>1, <3>2, <3>3 DEF Places, Elements
    <3>5. left' = {}
      BY <1>2, <3>4
    <3> QED BY <3>1, <3>5 DEF ExitEndsRequests, left
  <2> QED BY <2>1, <2>2
<1>5. CASE StepFailed
  <2>1. /\ AbortAndReply(Unfinished) /\ UNCHANGED <<pc, stepVars>> /\ pc \in {"raised", "failed"}
    BY <1>5 DEF StepFailed
  <2>2. FinishRequests(Unfinished) /\ UNCHANGED step_skipped
    BY <2>1 DEF AbortAndReply, stepVars, scheduleVars
  <2>3. Waiting' = Waiting \ Unfinished /\ Running' = Running \ Unfinished
    BY <1>0, <2>1, <2>2, Finished
  <2>4. Waiting \cap Running = {}
    BY DEF Waiting, Running
  <2>5. CASE pc = "failed"
    <3>1. Waiting \subseteq Unfinished /\ Running \subseteq Unfinished
      BY <1>0, <2>5 DEF Places, Unfinished, Elements
    <3>2. left' = {} /\ pc' = "failed"
      BY <1>2, <2>1, <2>3, <2>5, <3>1
    <3> QED BY <3>2 DEF ExitEndsRequests, left
  <2>6. CASE pc = "raised"
    <3>1. PICK r \in Requests : Running \ running = {r}
      BY <1>0, <2>6 DEF Places
    <3>2. /\ Elements(step_skipped) \subseteq Waiting
          /\ Elements(waiting) \cup Elements(skipped_waiting) \subseteq Waiting
          /\ Waiting \subseteq Elements(step_skipped) \cup Unfinished
      BY <1>0 DEF Places, Unfinished
    <3>3. Running \ Unfinished = Running \ running
      BY <2>4, <3>2 DEF Unfinished
    <3>4. left' \ Elements(step_skipped) = {r}
      BY <1>2, <2>3, <2>4, <3>1, <3>2, <3>3
    <3>5. left' \ Elements(step_skipped') = {r}
      BY <2>2, <3>4
    <3>6. Cardinality({r}) = 1
      BY FS_Singleton
    <3>7. Cardinality(left' \ Elements(step_skipped')) = 1 /\ pc' = "raised"
      BY <2>1, <2>6, <3>5, <3>6
    <3> QED BY <3>7 DEF ExitEndsRequests, left
  <2> QED BY <2>1, <2>5, <2>6
<1>6. CASE loop' # "exited"
  BY <1>6 DEF ExitEndsRequests
<1>7. loop = "exited" \/ HandleShutdown \/ StepFailed \/ loop' # "exited"
  BY DEF ProcNext, ReceiveAdd, ReceiveAbort, QueueAbort, Signal, SignalCallback, BusyLoop,
     InputQueue, ClearAborts, BlockingGet, Drain, DrainEnd, EngineStep, NothingToStep,
     allVars, procVars
<1> QED BY <1>3, <1>4, <1>5, <1>6, <1>7

LEMMA ProcInvNext == ProcInv /\ [ProcNext]_allVars => ProcInv'
<1> SUFFICES ASSUME ProcInv, [ProcNext]_allVars PROVE ProcInv'
  OBVIOUS
<1>1. CoreInv'
  BY ProcMoves, CoreNext DEF ProcInv
<1> QED
  BY <1>1, ProcTypesNext, MailNext, AwakeNext, AnsweredOnceNext, AbortNotLostNext,
     ExitEndsRequestsNext DEF ProcInv

LEMMA ProcInvariant == ProcSpec => []ProcInv
  BY ProcInitInv, ProcInvNext, PTL DEF ProcSpec

-----------------------------------------------------------------------------
(***************************************************************************)
(* What the process promises                                               *)
(***************************************************************************)

\* The threads of the process, whatever they do, drive the engine as DrivenSpec allows: a
\* client's requests reach the scheduler between two steps, and only the ids on
\* aborts_queue reach it during one.
THEOREM ProcessDrivesEngine == ProcSpec => DrivenSpec
<1>1. ProcInv /\ [ProcNext]_allVars => [Step \/ Drive]_vars
  BY ProcMoves
<1> QED BY <1>1, ProcInvariant, PTL DEF ProcSpec, ProcInit, DrivenSpec

\* So everything the engine promises whoever drives it holds in the process too.
THEOREM EngineInProcess ==
  /\ ProcSpec => [](ProgressMatchesOutput /\ StepLimits /\ OwnStateUntilRelocated)
  /\ ProcSpec => []RaiseMeansLeak
  /\ ProcSpec => NothingAfterTheEnd
  BY ProcessDrivesEngine, ProgressMatchesOutputAlways, StepLimitsAlways,
     OwnStateUntilRelocatedAlways, RaiseMeansLeakAlways, NothingAfterTheEndEver, PTL

\* Type correctness with the threads and the busy loop; the busy loop is never caught
\* between two steps with a step half done.
THEOREM ProcTypeCorrect == ProcSpec => []ProcTypeOK
<1>1. ProcInv => ProcTypeOK
  BY DEF ProcInv, CoreInv, ProcTypes, BetweenSteps, ProcTypeOK
<1> QED BY <1>1, ProcInvariant, PTL

\* No client gets a second final output, or one while its request is still in the
\* scheduler; and only a request that was aborted ends without one.
THEOREM AnsweredOnceAlways == ProcSpec => []AnsweredOnce
<1>1. ProcInv => AnsweredOnce
  BY DEF ProcInv
<1> QED BY <1>1, ProcInvariant, PTL

\* An ABORT is on its way on one of its two queues until its request has ended.
THEOREM AbortNotLostAlways == ProcSpec => []AbortNotLost
<1>1. ProcInv => AbortNotLost
  BY DEF ProcInv
<1> QED BY <1>1, ProcInvariant, PTL

\* The busy loop ends with no request left in the engine, or after allocate raised with
\* only those schedule() had in hand.
THEOREM ExitEndsRequestsAlways == ProcSpec => []ExitEndsRequests
<1>1. ProcInv => ExitEndsRequests
  BY DEF ProcInv
<1> QED BY <1>1, ProcInvariant, PTL

\* An idle engine that a signal finds blocked on its queue has a wake-up coming.
THEOREM NoLostWakeupAlways == ProcSpec => []NoLostWakeup
<1>1. ProcInv => NoLostWakeup
  BY DEF ProcInv, ProcTypes, Awake, NoLostWakeup
<1> QED BY <1>1, ProcInvariant, PTL
=============================================================================
