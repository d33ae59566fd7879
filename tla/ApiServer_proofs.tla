-------------------------- MODULE ApiServer_proofs --------------------------
(***************************************************************************)
(* The text path is right for every vocabulary, template and call: what the*)
(* engine gets is the prompt, what a stream sends is the text, a stop      *)
(* string ends it where it should, and an answer is whole or says that it  *)
(* is not.                                                                 *)
(*                                                                         *)
(* Induction over data is done with a least counterexample (NatMin), so    *)
(* that what recursive functions and folds compute is a chain of facts     *)
(* about one more element: FlattenAppend, WalkFinds, AddTokenRight, SumAppend.*)
(***************************************************************************)
EXTENDS ApiServer, TLAPS, SequenceTheorems, FiniteSetTheorems

(***************************************************************************)
(* Induction, and sequences made of sequences.                             *)
(***************************************************************************)
LEMMA NatMin ==
  ASSUME NEW T \in SUBSET Nat, T # {}
  PROVE  \E n \in T : \A m \in T : n <= m
<1> DEFINE R == OpToRel(<, Nat)
<1>1. IsWellFoundedOn(R, Nat)
  BY NatLessThanWellFounded
<1>2. \E m \in T : \A y \in T : ~ (<<y, m>> \in R)
  <2> HIDE DEF R
  <2> QED BY <1>1, WFMin
<1>3. \A m, y \in T : y < m => <<y, m>> \in R
  <2> SUFFICES ASSUME NEW m \in T, NEW y \in T, y < m PROVE <<y, m>> \in R
    OBVIOUS
  <2> QED BY DEF OpToRel
<1> HIDE DEF R
<1>4. PICK m \in T : \A y \in T : ~ (<<y, m>> \in R)
  BY <1>2
<1>5. \A y \in T : ~(y < m)
  BY <1>3, <1>4
<1>6. m \in Nat /\ \A y \in T : y \in Nat
  OBVIOUS
<1>7. \A y \in T : m <= y
  BY <1>5, <1>6
<1> QED BY <1>7

\* If a set of natural numbers does not hold n, but some number, a least one is there with
\* its predecessor outside: induction on an interval.
LEMMA Induction ==
  ASSUME NEW low \in Nat, NEW high \in Nat, NEW Good, low \in Good,
         \A i \in low .. high : i + 1 <= high /\ i \in Good => i + 1 \in Good
  PROVE  \A i \in low .. high : i \in Good
<1> DEFINE Bad == {i \in low .. high : i \notin Good}
<1> SUFFICES ASSUME Bad # {} PROVE FALSE
  OBVIOUS
<1>1. Bad \in SUBSET Nat
  OBVIOUS
<1>2. PICK n \in Bad : \A m \in Bad : n <= m
  <2> HIDE DEF Bad
  <2> QED BY <1>1, NatMin
<1>3. n \in low .. high /\ n \notin Good /\ n # low
  BY <1>2
<1>4. n - 1 \in low .. high /\ n - 1 \notin Bad
  BY <1>2, <1>3
<1> QED BY <1>3, <1>4

\* A largest element of a set with a bound.
LEMMA MaxIs ==
  ASSUME NEW T \in SUBSET Nat, T # {}, NEW bound \in Nat, \A t \in T : t <= bound
  PROVE  Max(T) \in T /\ \A t \in T : t <= Max(T)
<1> DEFINE Above == {n \in Nat : \A t \in T : t <= n}
<1>1. Above \in SUBSET Nat /\ Above # {}
  OBVIOUS
<1>2. PICK n \in Above : \A m \in Above : n <= m
  <2> HIDE DEF Above
  <2> QED BY <1>1, NatMin
<1>3. n \in T
  <2> SUFFICES ASSUME n \notin T PROVE FALSE
    OBVIOUS
  <2>1. \A t \in T : t < n
    BY <1>2
  <2>2. n # 0
    <3>1. PICK t \in T : TRUE
      BY T # {}
    <3>2. t \in Nat /\ t < n
      BY <2>1
    <3> QED BY <3>2
  <2>3. n - 1 \in Above
    BY <2>1, <2>2, <1>2
  <2> QED BY <2>3, <1>2
<1>4. \A t \in T : n >= t
  BY <1>2
<1> QED BY <1>3, <1>4 DEF Max

\* The least element is what Min takes.
LEMMA MinIs ==
  ASSUME NEW T \in SUBSET Nat, T # {}
  PROVE  Min(T) \in T /\ \A t \in T : Min(T) <= t
<1>1. \E n \in T : \A m \in T : n <= m
  BY NatMin
<1> QED BY <1>1 DEF Min

\* What FlattenSeq computes, concatenation left unexpanded.
Glue(a, b) == a \o b

Flattens(s, f) == f = [i \in 1 .. Len(s) |-> IF i = 1 THEN s[i] ELSE Glue(f[i - 1], s[i])]

FlattensTo(s, n, f) == f = [i \in 1 .. n |-> IF i = 1 THEN s[i] ELSE Glue(f[i - 1], s[i])]

LEMMA FlattensExist ==
  ASSUME NEW s, NEW N \in Nat \ {0}
  PROVE  \E f : FlattensTo(s, N, f)
<1> DEFINE Good == {n \in Nat : \E f : FlattensTo(s, n, f)}
<1>1. 1 \in Good
  <2> DEFINE f == [i \in 1 .. 1 |-> s[i]]
  <2>1. f = [i \in 1 .. 1 |-> IF i = 1 THEN s[i] ELSE Glue(f[i - 1], s[i])]
    OBVIOUS
  <2> HIDE DEF f
  <2> QED BY <2>1 DEF FlattensTo
<1>2. ASSUME NEW n \in Nat, n >= 1, n \in Good PROVE n + 1 \in Good
  <2>1. PICK g : FlattensTo(s, n, g)
    BY <1>2
  <2> DEFINE f == [i \in 1 .. n + 1 |-> IF i <= n THEN g[i] ELSE Glue(g[n], s[i])]
             h == [i \in 1 .. n + 1 |-> IF i = 1 THEN s[i] ELSE Glue(f[i - 1], s[i])]
  <2>2. ASSUME NEW i \in 1 .. n + 1 PROVE f[i] = h[i]
    <3>1. CASE i = 1
      BY <1>2, <2>1, <3>1 DEF FlattensTo
    <3>2. CASE i \in 2 .. n
      <4>1. g[i] = Glue(g[i - 1], s[i])
        BY <2>1, <3>2 DEF FlattensTo
      <4>2. i - 1 \in 1 .. n + 1 /\ i - 1 <= n
        BY <3>2
      <4> QED BY <3>2, <4>1, <4>2
    <3>3. CASE i = n + 1
      <4>1. i - 1 \in 1 .. n + 1 /\ i - 1 = n /\ i # 1 /\ ~(i <= n)
        BY <1>2, <3>3
      <4> QED BY <4>1
    <3> QED BY <1>2, <3>1, <3>2, <3>3
  <2>3. f = h
    <3>1. DOMAIN f = DOMAIN h
      OBVIOUS
    <3> QED BY <2>2
  <2> HIDE DEF f
  <2> QED BY <2>3 DEF FlattensTo
<1>3. \A i \in 1 .. N : i \in Good
  <2> HIDE DEF Good
  <2> QED BY <1>1, <1>2, Induction
<1> QED BY <1>3

LEMMA FlattenIs ==
  ASSUME NEW s, Len(s) \in Nat \ {0}
  PROVE  \E f : /\ FlattenSeq(s) = f[Len(s)]
                /\ f[1] = s[1]
                /\ \A i \in 2 .. Len(s) : f[i] = Glue(f[i - 1], s[i])
<1>1. PICK f : FlattensTo(s, Len(s), f)
  BY FlattensExist
<1> DEFINE g == CHOOSE h : Flattens(s, h)
<1>2. Flattens(s, g)
  <2>1. Flattens(s, f)
    BY <1>1 DEF Flattens, FlattensTo
  <2> QED BY <2>1
<1>3. FlattenSeq(s) = g[Len(s)]
  BY DEF FlattenSeq, Flattens, Glue
<1> HIDE DEF g
<1>4. g[1] = s[1]
  BY <1>2 DEF Flattens
<1>5. \A i \in 2 .. Len(s) : g[i] = Glue(g[i - 1], s[i])
  BY <1>2 DEF Flattens
<1> QED BY <1>3, <1>4, <1>5

LEMMA FlattenEmpty ==
  FlattenSeq(<<>>) = <<>>
BY DEF FlattenSeq

LEMMA FlattenType ==
  ASSUME NEW T, NEW s \in Seq(Seq(T))
  PROVE  FlattenSeq(s) \in Seq(T)
<1>1. CASE s = <<>>
  <2>1. <<>> \in Seq(T)
    OBVIOUS
  <2> QED BY <1>1, <2>1, FlattenEmpty
<1>2. CASE s # <<>>
  <2>1. Len(s) \in Nat \ {0} /\ \A i \in 1 .. Len(s) : s[i] \in Seq(T)
    BY <1>2
  <2>2. PICK f : /\ FlattenSeq(s) = f[Len(s)]
                 /\ f[1] = s[1]
                 /\ \A i \in 2 .. Len(s) : f[i] = Glue(f[i - 1], s[i])
    BY <2>1, FlattenIs
  <2> DEFINE Good == {i \in 1 .. Len(s) : f[i] \in Seq(T)}
  <2>3. 1 \in Good
    BY <2>1, <2>2
  <2>4. ASSUME NEW i \in 1 .. Len(s), i + 1 <= Len(s), i \in Good PROVE i + 1 \in Good
    <3>1. f[i + 1] = Glue(f[i], s[i + 1]) /\ i + 1 \in 1 .. Len(s)
      <4>1. i + 1 \in 2 .. Len(s) /\ (i + 1) - 1 = i
        BY <2>1, <2>4
      <4> QED BY <4>1, <2>2
    <3>2. Glue(f[i], s[i + 1]) \in Seq(T)
      BY <2>1, <2>4, <3>1 DEF Glue
    <3> QED BY <3>1, <3>2
  <2>5. \A i \in 1 .. Len(s) : i \in Good
    <3> HIDE DEF Good
    <3> QED BY <2>1, <2>3, <2>4, Induction
  <2> QED BY <2>1, <2>2, <2>5
<1> QED BY <1>1, <1>2

LEMMA FlattenAppend ==
  ASSUME NEW T, NEW s \in Seq(Seq(T)), NEW e \in Seq(T)
  PROVE  FlattenSeq(Append(s, e)) = FlattenSeq(s) \o e
<1> DEFINE t == Append(s, e)
<1>1. /\ t \in Seq(Seq(T)) /\ Len(t) = Len(s) + 1 /\ Len(s) \in Nat
      /\ \A i \in 1 .. Len(s) : t[i] = s[i]
      /\ t[Len(s) + 1] = e
  OBVIOUS
<1> HIDE DEF t
<1>2. PICK g : /\ FlattenSeq(t) = g[Len(t)]
               /\ g[1] = t[1]
               /\ \A i \in 2 .. Len(t) : g[i] = Glue(g[i - 1], t[i])
  <2>1. Len(t) \in Nat \ {0}
    BY <1>1
  <2> QED BY <2>1, FlattenIs
<1>3. CASE s = <<>>
  <2>1. g[Len(t)] = e
    BY <1>1, <1>2, <1>3
  <2> QED BY <1>2, <1>3, <2>1, FlattenEmpty DEF t
<1>4. CASE s # <<>>
  <2>1. Len(s) \in Nat \ {0}
    BY <1>4
  <2>2. PICK f : /\ FlattenSeq(s) = f[Len(s)]
                 /\ f[1] = s[1]
                 /\ \A i \in 2 .. Len(s) : f[i] = Glue(f[i - 1], s[i])
    BY <2>1, FlattenIs
  <2> DEFINE Good == {i \in 1 .. Len(s) : f[i] = g[i]}
  <2>3. 1 \in Good
    BY <1>1, <1>2, <2>1, <2>2
  <2>4. ASSUME NEW i \in 1 .. Len(s), i + 1 <= Len(s), i \in Good PROVE i + 1 \in Good
    <3>1. i + 1 \in 2 .. Len(s) /\ i + 1 \in 2 .. Len(t) /\ (i + 1) - 1 = i
      BY <1>1, <2>4
    <3>2. f[i + 1] = Glue(f[i], s[i + 1]) /\ g[i + 1] = Glue(g[i], t[i + 1])
      BY <3>1, <1>2, <2>2
    <3> QED BY <1>1, <2>4, <3>1, <3>2
  <2>5. \A i \in 1 .. Len(s) : i \in Good
    <3> HIDE DEF Good
    <3> QED BY <2>1, <2>3, <2>4, Induction
  <2>6. g[Len(t)] = Glue(g[Len(s)], e)
    <3>1. Len(t) \in 2 .. Len(t) /\ Len(t) - 1 = Len(s)
      BY <1>1, <2>1
    <3> QED BY <1>1, <1>2, <3>1
  <2>7. Len(s) \in 1 .. Len(s) /\ f[Len(s)] = g[Len(s)]
    BY <2>1, <2>5
  <2> QED BY <1>2, <2>2, <2>6, <2>7 DEF t, Glue
<1> QED BY <1>3, <1>4

LEMMA ConcatOf ==
  ASSUME NEW S, NEW a \in Seq(S), NEW b \in Seq(S)
  PROVE  /\ a \o b \in Seq(S) /\ Len(a \o b) = Len(a) + Len(b) /\ Len(a) \in Nat /\ Len(b) \in Nat
         /\ \A i \in 1 .. Len(a) : (a \o b)[i] = a[i]
         /\ \A i \in 1 .. Len(b) : (a \o b)[Len(a) + i] = b[i]
OBVIOUS

LEMMA FlattenConcat ==
  ASSUME NEW T, NEW s \in Seq(Seq(T)), NEW t \in Seq(Seq(T))
  PROVE  FlattenSeq(s \o t) = FlattenSeq(s) \o FlattenSeq(t)
<1> DEFINE u(n) == SubSeq(t, 1, n)
           Good == {n \in 0 .. Len(t) : FlattenSeq(s \o u(n)) = FlattenSeq(s) \o FlattenSeq(u(n))}
<1>1. 0 \in Good
  <2>1. u(0) = <<>> /\ FlattenSeq(s) \in Seq(T) /\ Len(t) \in Nat
    BY FlattenType
  <2>2. FlattenSeq(s) \o <<>> = FlattenSeq(s) /\ s \o <<>> = s
    BY <2>1, ConcatEmptySeq
  <2>3. s \o u(0) = s /\ FlattenSeq(u(0)) = <<>> /\ 0 \in 0 .. Len(t)
    <3> HIDE DEF u
    <3> QED BY <2>1, <2>2, FlattenEmpty
  <2> HIDE DEF u
  <2> QED BY <2>2, <2>3
<1>2. ASSUME NEW n \in 0 .. Len(t), n + 1 <= Len(t), n \in Good PROVE n + 1 \in Good
  <2>1. /\ u(n) \in Seq(Seq(T)) /\ t[n + 1] \in Seq(T) /\ n + 1 \in 0 .. Len(t)
        /\ u(n + 1) = Append(u(n), t[n + 1])
    BY <1>2
  <2>2. s \o Append(u(n), t[n + 1]) = Append(s \o u(n), t[n + 1]) /\ s \o u(n) \in Seq(Seq(T))
    <3> DEFINE v == u(n)
               x == t[n + 1]
               X == Seq(T)
    <3>1. v \in Seq(X) /\ x \in X /\ s \in Seq(X)
      BY <2>1
    <3> HIDE DEF u, v, x, X
    <3>2. s \o Append(v, x) = Append(s \o v, x) /\ s \o v \in Seq(X)
      BY <3>1
    <3> QED BY <3>2 DEF v, x, X
  <2>3. FlattenSeq(s \o u(n + 1)) = FlattenSeq(s \o u(n)) \o t[n + 1]
    <3> HIDE DEF u
    <3> QED BY <2>1, <2>2, FlattenAppend
  <2>4. FlattenSeq(u(n + 1)) = FlattenSeq(u(n)) \o t[n + 1]
    <3> HIDE DEF u
    <3> QED BY <2>1, FlattenAppend
  <2>5. FlattenSeq(s) \in Seq(T) /\ FlattenSeq(u(n)) \in Seq(T)
    <3> HIDE DEF u
    <3> QED BY <2>1, FlattenType
  <2>6. (FlattenSeq(s) \o FlattenSeq(u(n))) \o t[n + 1] = FlattenSeq(s) \o (FlattenSeq(u(n)) \o t[n + 1])
    <3> DEFINE a == FlattenSeq(s)
               b == FlattenSeq(u(n))
               c == t[n + 1]
    <3>1. a \in Seq(T) /\ b \in Seq(T) /\ c \in Seq(T)
      BY <2>1, <2>5
    <3> HIDE DEF a, b, c
    <3>2. (a \o b) \o c = a \o (b \o c)
      BY <3>1
    <3> QED BY <3>2 DEF a, b, c
  <2>7. FlattenSeq(s \o u(n)) = FlattenSeq(s) \o FlattenSeq(u(n))
    BY <1>2
  <2> HIDE DEF u
  <2> QED BY <2>1, <2>3, <2>4, <2>6, <2>7
<1>3. \A n \in 0 .. Len(t) : n \in Good
  <2> HIDE DEF Good
  <2>1. Len(t) \in Nat
    OBVIOUS
  <2> QED BY <1>1, <1>2, <2>1, Induction
<1>4. u(Len(t)) = t /\ Len(t) \in 0 .. Len(t)
  BY SubSeqFull
<1> QED BY <1>3, <1>4

LEMMA IsSeq ==
  ASSUME NEW U, NEW n \in Nat, NEW f \in [1 .. n -> U]
  PROVE  f \in Seq(U) /\ Len(f) = n
OBVIOUS

\* Every element of a sequence replaced by what g makes of it.
Spread(g, s) == FlattenSeq([i \in DOMAIN s |-> g[s[i]]])

Spreads(g, S, T) ==
  /\ Spread(g, <<>>) = <<>>
  /\ \A e \in S : Spread(g, <<e>>) = g[e]
  /\ \A s \in Seq(S) : Spread(g, s) \in Seq(T)
  /\ \A s, t \in Seq(S) : Spread(g, s \o t) = Spread(g, s) \o Spread(g, t)

LEMMA SpreadOf ==
  ASSUME NEW S, NEW T, NEW g \in [S -> Seq(T)]
  PROVE  Spreads(g, S, T)
<1> DEFINE m(s) == [i \in DOMAIN s |-> g[s[i]]]
<1>1. ASSUME NEW s \in Seq(S) PROVE m(s) \in Seq(Seq(T)) /\ Len(m(s)) = Len(s)
  <2>1. DOMAIN s = 1 .. Len(s) /\ Len(s) \in Nat /\ \A i \in 1 .. Len(s) : g[s[i]] \in Seq(T)
    OBVIOUS
  <2>2. m(s) = [i \in 1 .. Len(s) |-> g[s[i]]]
    BY <2>1
  <2>3. m(s) \in [1 .. Len(s) -> Seq(T)]
    BY <2>1, <2>2
  <2> HIDE DEF m
  <2> QED BY <2>1, <2>3, IsSeq
<1>2. Spread(g, <<>>) = <<>>
  <2>1. m(<<>>) = <<>>
    <3>1. m(<<>>) = [i \in 1 .. 0 |-> g[<<>>[i]]]
      <4>1. DOMAIN <<>> = 1 .. 0
        OBVIOUS
      <4> QED BY <4>1
    <3>2. [i \in 1 .. 0 |-> g[<<>>[i]]] = <<>>
      OBVIOUS
    <3> HIDE DEF m
    <3> QED BY <3>1, <3>2
  <2> QED BY <2>1, FlattenEmpty DEF Spread
<1>3. ASSUME NEW e \in S PROVE Spread(g, <<e>>) = g[e]
  <2>1. m(<<e>>) = Append(<<>>, g[e]) /\ g[e] \in Seq(T) /\ <<>> \in Seq(Seq(T))
    OBVIOUS
  <2>2. FlattenSeq(Append(<<>>, g[e])) = FlattenSeq(<<>>) \o g[e]
    BY <2>1, FlattenAppend
  <2>3. <<>> \o g[e] = g[e]
    BY <2>1
  <2> QED BY <2>1, <2>2, <2>3, FlattenEmpty DEF Spread
<1>4. ASSUME NEW s \in Seq(S) PROVE Spread(g, s) \in Seq(T)
  BY <1>1, FlattenType DEF Spread
<1>5. ASSUME NEW s \in Seq(S), NEW t \in Seq(S) PROVE Spread(g, s \o t) = Spread(g, s) \o Spread(g, t)
  <2>1. m(s \o t) = m(s) \o m(t)
    <3>1. /\ m(s \o t) \in Seq(Seq(T)) /\ m(s) \o m(t) \in Seq(Seq(T))
          /\ Len(m(s \o t)) = Len(m(s) \o m(t)) /\ Len(m(s \o t)) = Len(s) + Len(t)
          /\ Len(s) \in Nat /\ Len(t) \in Nat
      <4>1. s \o t \in Seq(S) /\ Len(s \o t) = Len(s) + Len(t) /\ Len(s) \in Nat /\ Len(t) \in Nat
        OBVIOUS
      <4> HIDE DEF m
      <4>2. /\ m(s) \in Seq(Seq(T)) /\ m(t) \in Seq(Seq(T)) /\ m(s \o t) \in Seq(Seq(T))
            /\ Len(m(s)) = Len(s) /\ Len(m(t)) = Len(t) /\ Len(m(s \o t)) = Len(s \o t)
        BY <1>1, <4>1
      <4>3. m(s) \o m(t) \in Seq(Seq(T)) /\ Len(m(s) \o m(t)) = Len(m(s)) + Len(m(t))
        BY <4>2, ConcatProperties
      <4> QED BY <4>1, <4>2, <4>3
    <3>2. ASSUME NEW i \in 1 .. Len(s) + Len(t) PROVE m(s \o t)[i] = (m(s) \o m(t))[i]
      <4>1. m(s \o t)[i] = g[(s \o t)[i]]
        <5>1. DOMAIN (s \o t) = 1 .. Len(s) + Len(t)
          <6> HIDE DEF m
          <6>1. s \o t \in Seq(S) /\ Len(s \o t) = Len(s) + Len(t)
            OBVIOUS
          <6> QED BY <6>1, LenProperties
        <5> QED BY <5>1
      <4>2. CASE i <= Len(s)
        <5>1. (s \o t)[i] = s[i] /\ m(s)[i] = g[s[i]] /\ Len(m(s)) = Len(s)
          BY <4>2
        <5>2. (m(s) \o m(t))[i] = m(s)[i]
          <6> HIDE DEF m
          <6> QED BY <1>1, <4>2, <5>1
        <5> QED BY <4>1, <5>1, <5>2
      <4>3. CASE i > Len(s)
        <5>1. /\ (s \o t)[i] = t[i - Len(s)] /\ m(t)[i - Len(s)] = g[t[i - Len(s)]]
              /\ Len(m(s)) = Len(s)
          BY <4>3
        <5>2. (m(s) \o m(t))[i] = m(t)[i - Len(s)]
          <6> HIDE DEF m
          <6>1. Len(m(t)) = Len(t) /\ Len(s) \in Nat /\ Len(t) \in Nat
            BY <1>1
          <6> QED BY <1>1, <4>3, <5>1, <6>1
        <5> QED BY <4>1, <5>1, <5>2
      <4> QED BY <4>2, <4>3
    <3> HIDE DEF m
    <3> QED BY <3>1, <3>2, SeqEqual
  <2> HIDE DEF m
  <2>2. FlattenSeq(m(s) \o m(t)) = FlattenSeq(m(s)) \o FlattenSeq(m(t))
    BY <1>1, FlattenConcat
  <2> QED BY <2>1, <2>2 DEF Spread, m
<1> HIDE DEF m
<1> QED BY <1>2, <1>3, <1>4, <1>5 DEF Spreads

\* Induction on sequences that grow at the end.
LEMMA SeqInduction ==
  ASSUME NEW S, NEW Good, <<>> \in Good,
         \A s \in Seq(S), e \in S : s \in Good => s \o <<e>> \in Good
  PROVE  \A s \in Seq(S) : s \in Good
<1> SUFFICES ASSUME NEW s \in Seq(S) PROVE s \in Good
  OBVIOUS
<1> DEFINE u == [n \in 0 .. Len(s) |-> SubSeq(s, 1, n)]
           P == {n \in 0 .. Len(s) : u[n] \in Good}
<1>0. Len(s) \in Nat
  OBVIOUS
<1>1. 0 \in P
  <2>1. u[0] = <<>>
    BY <1>0
  <2> HIDE DEF u
  <2> QED BY <1>0, <2>1
<1>2. ASSUME NEW n \in 0 .. Len(s), n + 1 <= Len(s), n \in P PROVE n + 1 \in P
  <2>1. n + 1 \in 1 .. Len(s) /\ n + 1 \in 0 .. Len(s) /\ (n + 1) - 1 = n
    BY <1>0, <1>2
  <2>2. u[n + 1] = u[n] \o <<s[n + 1]>>
    <3>1. SubSeq(s, 1, n + 1) = SubSeq(s, 1, (n + 1) - 1) \o <<s[n + 1]>>
      BY <1>0, <2>1, SubSeqRecursiveSecond
    <3> QED BY <2>1, <3>1
  <2>3. u[n] \in Seq(S) /\ s[n + 1] \in S
    BY <2>1
  <2>4. u[n] \in Good
    BY <1>2
  <2> HIDE DEF u
  <2> QED BY <2>1, <2>2, <2>3, <2>4
<1>3. \A n \in 0 .. Len(s) : n \in P
  <2> HIDE DEF P
  <2> QED BY <1>0, <1>1, <1>2, Induction
<1>4. u[Len(s)] = s
  BY <1>0, SubSeqFull
<1> HIDE DEF u
<1> QED BY <1>0, <1>3, <1>4

(***************************************************************************)
(* Bytes and characters.                                                   *)
(***************************************************************************)
Characters == Bytes \ {Cont}

Encoded == [c \in Bytes |-> IF c = Lead THEN <<Lead, Cont>> ELSE <<c>>]
Decoded == [b \in Bytes |-> IF b # Cont THEN <<b>> ELSE <<>>]
TokenBytes == [t \in Nat |-> get_token_bytes(t)]

LEMMA EncodingIs ==
  /\ BytesOf(<<>>) = <<>>
  /\ \A c \in Bytes : BytesOf(<<c>>) = IF c = Lead THEN <<Lead, Cont>> ELSE <<c>>
  /\ \A s \in Seq(Bytes) : BytesOf(s) \in Seq(Bytes)
  /\ \A s, t \in Seq(Bytes) : BytesOf(s \o t) = BytesOf(s) \o BytesOf(t)
<1>1. Encoded \in [Bytes -> Seq(Bytes)]
  BY VocabAssumption DEF Encoded
<1>2. ASSUME NEW s \in Seq(Bytes) PROVE BytesOf(s) = Spread(Encoded, s)
  <2>1. \A i \in DOMAIN s : s[i] \in Bytes
    OBVIOUS
  <2>2. \A i \in DOMAIN s : Encoded[s[i]] = IF s[i] = Lead THEN <<Lead, Cont>> ELSE <<s[i]>>
    BY <2>1 DEF Encoded
  <2>3. [i \in DOMAIN s |-> IF s[i] = Lead THEN <<Lead, Cont>> ELSE <<s[i]>>]
          = [i \in DOMAIN s |-> Encoded[s[i]]]
    BY <2>2
  <2> QED BY <2>3 DEF BytesOf, Spread
<1>3. \A c \in Bytes : Encoded[c] = IF c = Lead THEN <<Lead, Cont>> ELSE <<c>>
  BY DEF Encoded
<1>4. \A s, t \in Seq(Bytes) : s \o t \in Seq(Bytes)
  OBVIOUS
<1>5. <<>> \in Seq(Bytes) /\ \A c \in Bytes : <<c>> \in Seq(Bytes)
  OBVIOUS
<1>6. /\ Spread(Encoded, <<>>) = <<>>
      /\ \A e \in Bytes : Spread(Encoded, <<e>>) = Encoded[e]
      /\ \A s \in Seq(Bytes) : Spread(Encoded, s) \in Seq(Bytes)
      /\ \A s, t \in Seq(Bytes) : Spread(Encoded, s \o t) = Spread(Encoded, s) \o Spread(Encoded, t)
  <2>1. Spreads(Encoded, Bytes, Bytes)
    BY <1>1, SpreadOf
  <2> QED BY <2>1 DEF Spreads
<1>7. BytesOf(<<>>) = <<>>
  BY <1>2, <1>5, <1>6
<1>8. ASSUME NEW e \in Bytes PROVE BytesOf(<<e>>) = Encoded[e]
  BY <1>2, <1>5, <1>6
<1>9. \A s \in Seq(Bytes) : BytesOf(s) \in Seq(Bytes)
  BY <1>2, <1>6
<1>10. ASSUME NEW s \in Seq(Bytes), NEW t \in Seq(Bytes) PROVE BytesOf(s \o t) = BytesOf(s) \o BytesOf(t)
  <2>1. BytesOf(s \o t) = Spread(Encoded, s \o t)
    BY <1>2, <1>4
  <2>2. BytesOf(s) = Spread(Encoded, s) /\ BytesOf(t) = Spread(Encoded, t)
    BY <1>2
  <2>3. Spread(Encoded, s \o t) = Spread(Encoded, s) \o Spread(Encoded, t)
    BY <1>6
  <2> QED BY <2>1, <2>2, <2>3
<1> QED BY <1>3, <1>7, <1>8, <1>9, <1>10

LEMMA DecodingIs ==
  /\ TextOf(<<>>) = <<>>
  /\ \A b \in Bytes : TextOf(<<b>>) = IF b # Cont THEN <<b>> ELSE <<>>
  /\ \A s \in Seq(Bytes) : TextOf(s) \in Seq(Characters)
  /\ \A s, t \in Seq(Bytes) : TextOf(s \o t) = TextOf(s) \o TextOf(t)
<1>1. Decoded \in [Bytes -> Seq(Characters)]
  <2>1. ASSUME NEW b \in Bytes PROVE Decoded[b] \in Seq(Characters)
    <3>1. CASE b = Cont
      BY <3>1 DEF Decoded
    <3>2. CASE b # Cont
      <4>1. b \in Characters
        BY <3>2 DEF Characters
      <4>2. <<b>> \in Seq(Characters)
        BY <4>1
      <4> QED BY <3>2, <4>2 DEF Decoded
    <3> QED BY <3>1, <3>2
  <2> QED BY <2>1 DEF Decoded
<1>2. ASSUME NEW s \in Seq(Bytes) PROVE TextOf(s) = Spread(Decoded, s)
  <2>1. \A i \in DOMAIN s : s[i] \in Bytes
    OBVIOUS
  <2>2. \A i \in DOMAIN s : Decoded[s[i]] = IF i \in {j \in DOMAIN s : s[j] # Cont} THEN <<s[i]>> ELSE <<>>
    BY <2>1 DEF Decoded
  <2>3. [i \in DOMAIN s |-> IF i \in {j \in DOMAIN s : s[j] # Cont} THEN <<s[i]>> ELSE <<>>]
          = [i \in DOMAIN s |-> Decoded[s[i]]]
    BY <2>2
  <2> QED BY <2>3 DEF TextOf, Kept, Spread
<1>3. \A b \in Bytes : Decoded[b] = IF b # Cont THEN <<b>> ELSE <<>>
  BY DEF Decoded
<1>4. \A s, t \in Seq(Bytes) : s \o t \in Seq(Bytes)
  OBVIOUS
<1>5. <<>> \in Seq(Bytes) /\ \A c \in Bytes : <<c>> \in Seq(Bytes)
  OBVIOUS
<1>6. /\ Spread(Decoded, <<>>) = <<>>
      /\ \A e \in Bytes : Spread(Decoded, <<e>>) = Decoded[e]
      /\ \A s \in Seq(Bytes) : Spread(Decoded, s) \in Seq(Characters)
      /\ \A s, t \in Seq(Bytes) : Spread(Decoded, s \o t) = Spread(Decoded, s) \o Spread(Decoded, t)
  <2>1. Spreads(Decoded, Bytes, Characters)
    BY <1>1, SpreadOf
  <2> QED BY <2>1 DEF Spreads
<1>7. TextOf(<<>>) = <<>>
  BY <1>2, <1>5, <1>6
<1>8. ASSUME NEW e \in Bytes PROVE TextOf(<<e>>) = Decoded[e]
  BY <1>2, <1>5, <1>6
<1>9. \A s \in Seq(Bytes) : TextOf(s) \in Seq(Characters)
  BY <1>2, <1>6
<1>10. ASSUME NEW s \in Seq(Bytes), NEW t \in Seq(Bytes) PROVE TextOf(s \o t) = TextOf(s) \o TextOf(t)
  <2>1. TextOf(s \o t) = Spread(Decoded, s \o t)
    BY <1>2, <1>4
  <2>2. TextOf(s) = Spread(Decoded, s) /\ TextOf(t) = Spread(Decoded, t)
    BY <1>2
  <2>3. Spread(Decoded, s \o t) = Spread(Decoded, s) \o Spread(Decoded, t)
    BY <1>6
  <2> QED BY <2>1, <2>2, <2>3
<1> QED BY <1>3, <1>7, <1>8, <1>9, <1>10

LEMMA JoinedIs ==
  /\ Joined(<<>>) = <<>>
  /\ \A t \in Nat : Joined(<<t>>) = get_token_bytes(t) /\ get_token_bytes(t) \in Seq(Bytes)
  /\ \A s \in Seq(Nat) : Joined(s) \in Seq(Bytes)
  /\ \A s, t \in Seq(Nat) : Joined(s \o t) = Joined(s) \o Joined(t)
<1>1. TokenBytes \in [Nat -> Seq(Bytes)]
  BY VocabAssumption DEF TokenBytes, get_token_bytes
<1>2. ASSUME NEW s \in Seq(Nat) PROVE Joined(s) = Spread(TokenBytes, s)
  <2>1. \A i \in DOMAIN s : s[i] \in Nat
    OBVIOUS
  <2>2. \A i \in DOMAIN s : TokenBytes[s[i]] = get_token_bytes(s[i])
    BY <2>1 DEF TokenBytes
  <2>3. [i \in DOMAIN s |-> get_token_bytes(s[i])] = [i \in DOMAIN s |-> TokenBytes[s[i]]]
    BY <2>2
  <2> QED BY <2>3 DEF Joined, Spread
<1>3. \A t \in Nat : TokenBytes[t] = get_token_bytes(t) /\ get_token_bytes(t) \in Seq(Bytes)
  BY <1>1 DEF TokenBytes
<1>4. \A s, t \in Seq(Nat) : s \o t \in Seq(Nat)
  OBVIOUS
<1>5. <<>> \in Seq(Nat) /\ \A c \in Nat : <<c>> \in Seq(Nat)
  OBVIOUS
<1>6. /\ Spread(TokenBytes, <<>>) = <<>>
      /\ \A e \in Nat : Spread(TokenBytes, <<e>>) = TokenBytes[e]
      /\ \A s \in Seq(Nat) : Spread(TokenBytes, s) \in Seq(Bytes)
      /\ \A s, t \in Seq(Nat) : Spread(TokenBytes, s \o t) = Spread(TokenBytes, s) \o Spread(TokenBytes, t)
  <2>1. Spreads(TokenBytes, Nat, Bytes)
    BY <1>1, SpreadOf
  <2> QED BY <2>1 DEF Spreads
<1>7. Joined(<<>>) = <<>>
  BY <1>2, <1>5, <1>6
<1>8. ASSUME NEW e \in Nat PROVE Joined(<<e>>) = TokenBytes[e]
  BY <1>2, <1>5, <1>6
<1>9. \A s \in Seq(Nat) : Joined(s) \in Seq(Bytes)
  BY <1>2, <1>6
<1>10. ASSUME NEW s \in Seq(Nat), NEW t \in Seq(Nat) PROVE Joined(s \o t) = Joined(s) \o Joined(t)
  <2>1. Joined(s \o t) = Spread(TokenBytes, s \o t)
    BY <1>2, <1>4
  <2>2. Joined(s) = Spread(TokenBytes, s) /\ Joined(t) = Spread(TokenBytes, t)
    BY <1>2
  <2>3. Spread(TokenBytes, s \o t) = Spread(TokenBytes, s) \o Spread(TokenBytes, t)
    BY <1>6
  <2> QED BY <2>1, <2>2, <2>3
<1> QED BY <1>3, <1>7, <1>8, <1>9, <1>10

\* A sequence in two parts, and a part of the second.
LEMMA Parts ==
  ASSUME NEW S, NEW a \in Seq(S), NEW b \in Seq(S), NEW m \in 0 .. Len(b)
  PROVE  /\ SubSeq(a \o b, 1, Len(a) + m) = a \o SubSeq(b, 1, m)
         /\ SubSeq(a \o b, Len(a) + m + 1, Len(a \o b)) = SubSeq(b, m + 1, Len(b))
<1> DEFINE c == a \o b
<1>0. /\ c \in Seq(S) /\ Len(c) = Len(a) + Len(b) /\ Len(a) \in Nat /\ Len(b) \in Nat
      /\ \A i \in 1 .. Len(a) : c[i] = a[i]
      /\ \A i \in 1 .. Len(b) : c[Len(a) + i] = b[i]
  OBVIOUS
<1> HIDE DEF c
<1>1. SubSeq(c, 1, Len(a) + m) = a \o SubSeq(b, 1, m)
  <2> DEFINE p == SubSeq(c, 1, Len(a) + m)
             q == SubSeq(b, 1, m)
  <2>1. p \in Seq(S) /\ Len(p) = Len(a) + m /\ \A i \in 1 .. Len(a) + m : p[i] = c[i]
    BY <1>0
  <2>2. q \in Seq(S) /\ Len(q) = m /\ \A i \in 1 .. m : q[i] = b[i]
    BY <1>0
  <2> HIDE DEF p, q
  <2>3. a \o q \in Seq(S) /\ Len(a \o q) = Len(a) + m
    BY <2>2
  <2>4. ASSUME NEW i \in 1 .. Len(a) + m PROVE p[i] = (a \o q)[i]
    <3>1. CASE i <= Len(a)
      BY <1>0, <2>1, <2>2, <3>1
    <3>2. CASE i > Len(a)
      <4>1. i - Len(a) \in 1 .. m /\ i - Len(a) \in 1 .. Len(b) /\ Len(a) + (i - Len(a)) = i
        BY <1>0, <3>2
      <4>2. c[i] = b[i - Len(a)]
        BY <1>0, <4>1
      <4>3. (a \o q)[i] = q[i - Len(a)]
        BY <1>0, <2>2, <3>2, <4>1
      <4> QED BY <2>1, <2>2, <4>1, <4>2, <4>3
    <3>3. i <= Len(a) \/ i > Len(a)
      BY <1>0
    <3> QED BY <3>1, <3>2, <3>3, Zenon
  <2>5. p = a \o q
    BY <2>1, <2>3, <2>4, SeqEqual
  <2> QED BY <2>5 DEF p, q
<1>2. SubSeq(c, Len(a) + m + 1, Len(c)) = SubSeq(b, m + 1, Len(b))
  <2> DEFINE p == SubSeq(c, Len(a) + m + 1, Len(c))
             q == SubSeq(b, m + 1, Len(b))
  <2>1. /\ p \in Seq(S) /\ Len(p) = Len(b) - m
        /\ \A i \in 1 .. Len(b) - m : p[i] = c[Len(a) + (m + i)]
    <3>1. /\ Len(a) + m + 1 \in Int /\ Len(c) \in Int
          /\ \A i \in Len(a) + m + 1 .. Len(c) : c[i] \in S
      BY <1>0
    <3>2. /\ p \in Seq(S)
          /\ Len(p) = IF Len(a) + m + 1 <= Len(c) THEN Len(c) - (Len(a) + m + 1) + 1 ELSE 0
          /\ \A i \in 1 .. Len(c) - (Len(a) + m + 1) + 1 : p[i] = c[(Len(a) + m + 1) + i - 1]
      BY <3>1, SubSeqProperties
    <3> HIDE DEF p
    <3>3. Len(p) = Len(b) - m
      BY <1>0, <3>2
    <3>4. ASSUME NEW i \in 1 .. Len(b) - m PROVE p[i] = c[Len(a) + (m + i)]
      <4>1. /\ i \in 1 .. Len(c) - (Len(a) + m + 1) + 1
            /\ (Len(a) + m + 1) + i - 1 = Len(a) + (m + i)
        BY <1>0
      <4> QED BY <3>2, <4>1
    <3> QED BY <3>2, <3>3, <3>4
  <2>2. /\ q \in Seq(S) /\ Len(q) = Len(b) - m
        /\ \A i \in 1 .. Len(b) - m : q[i] = b[m + i]
    <3>1. m + 1 \in Int /\ Len(b) \in Int /\ \A i \in m + 1 .. Len(b) : b[i] \in S
      BY <1>0
    <3>2. /\ q \in Seq(S)
          /\ Len(q) = IF m + 1 <= Len(b) THEN Len(b) - (m + 1) + 1 ELSE 0
          /\ \A i \in 1 .. Len(b) - (m + 1) + 1 : q[i] = b[(m + 1) + i - 1]
      BY <3>1, SubSeqProperties
    <3> HIDE DEF q
    <3> QED BY <1>0, <3>2
  <2> HIDE DEF p, q
  <2>3. \A i \in 1 .. Len(b) - m : c[Len(a) + (m + i)] = b[m + i]
    BY <1>0
  <2>4. p = q
    BY <2>1, <2>2, <2>3, SeqEqual
  <2> QED BY <2>4 DEF p, q
<1> QED BY <1>1, <1>2 DEF c

\* A sequence is its first n elements and the others.
LEMMA CutInTwo ==
  ASSUME NEW S, NEW s \in Seq(S), NEW n \in 0 .. Len(s)
  PROVE  /\ SubSeq(s, 1, n) \in Seq(S) /\ Len(SubSeq(s, 1, n)) = n
         /\ SubSeq(s, n + 1, Len(s)) \in Seq(S) /\ Len(SubSeq(s, n + 1, Len(s))) = Len(s) - n
         /\ s = SubSeq(s, 1, n) \o SubSeq(s, n + 1, Len(s))
<1>0. Len(s) \in Nat
  OBVIOUS
<1>1. SubSeq(s, 1, n) \in Seq(S) /\ Len(SubSeq(s, 1, n)) = n
  BY <1>0
<1>2. SubSeq(s, n + 1, Len(s)) \in Seq(S) /\ Len(SubSeq(s, n + 1, Len(s))) = Len(s) - n
  BY <1>0, SubSeqProperties
<1>3. SubSeq(s, 1, n) \o SubSeq(s, n + 1, Len(s)) = SubSeq(s, 1, Len(s))
  <2>1. 1 \in 1 .. Len(s) + 1 /\ n \in 1 - 1 .. Len(s) /\ Len(s) \in n .. Len(s)
    BY <1>0
  <2> QED BY <2>1, ConcatAdjacentSubSeq
<1> QED BY <1>1, <1>2, <1>3, SubSeqFull

LEMMA Utf8Empty == IsUtf8(<<>>)
BY DEF IsUtf8

LEMMA Utf8At ==
  ASSUME NEW b \in Seq(Bytes), IsUtf8(b), NEW i \in 1 .. Len(b)
  PROVE  /\ b[i] = Lead => i < Len(b) /\ b[i + 1] = Cont
         /\ b[i] = Cont => i > 1 /\ b[i - 1] = Lead
<1>1. i \in DOMAIN b
  OBVIOUS
<1> QED BY <1>1 DEF IsUtf8

\* Bytes after whole characters are valid if they are valid by themselves.
LEMMA Utf8Concat ==
  ASSUME NEW a \in Seq(Bytes), NEW b \in Seq(Bytes), IsUtf8(a)
  PROVE  IsUtf8(a \o b) <=> IsUtf8(b)
<1> DEFINE c == a \o b
<1>0. /\ c \in Seq(Bytes) /\ Len(c) = Len(a) + Len(b) /\ Len(a) \in Nat /\ Len(b) \in Nat
      /\ \A i \in 1 .. Len(a) : c[i] = a[i]
      /\ \A i \in 1 .. Len(b) : c[Len(a) + i] = b[i]
      /\ DOMAIN a = 1 .. Len(a) /\ DOMAIN b = 1 .. Len(b) /\ DOMAIN c = 1 .. Len(c)
  OBVIOUS
<1> HIDE DEF c
<1>1. ASSUME IsUtf8(c) PROVE IsUtf8(b)
  <2> SUFFICES ASSUME NEW i \in 1 .. Len(b)
               PROVE /\ b[i] = Lead => i < Len(b) /\ b[i + 1] = Cont
                     /\ b[i] = Cont => i > 1 /\ b[i - 1] = Lead
    BY <1>0 DEF IsUtf8
  <2>1. /\ Len(a) + i \in DOMAIN c /\ c[Len(a) + i] = b[i]
        /\ c[Len(a) + i] = Lead => Len(a) + i < Len(c) /\ c[Len(a) + i + 1] = Cont
        /\ c[Len(a) + i] = Cont => Len(a) + i > 1 /\ c[Len(a) + i - 1] = Lead
    <3>1. Len(a) + i \in 1 .. Len(c)
      BY <1>0
    <3>2. /\ c[Len(a) + i] = Lead => Len(a) + i < Len(c) /\ c[Len(a) + i + 1] = Cont
          /\ c[Len(a) + i] = Cont => Len(a) + i > 1 /\ c[Len(a) + i - 1] = Lead
      <4> DEFINE j == Len(a) + i
      <4>1. j \in 1 .. Len(c)
        BY <3>1
      <4> HIDE DEF j
      <4>2. /\ c[j] = Lead => j < Len(c) /\ c[j + 1] = Cont
            /\ c[j] = Cont => j > 1 /\ c[j - 1] = Lead
        BY <1>0, <1>1, <4>1, Utf8At
      <4> QED BY <4>2 DEF j
    <3> QED BY <1>0, <3>1, <3>2
  <2>2. ASSUME b[i] = Lead PROVE i < Len(b) /\ b[i + 1] = Cont
    <3>1. i < Len(b) /\ i + 1 \in 1 .. Len(b) /\ Len(a) + (i + 1) = Len(a) + i + 1
      BY <1>0, <2>1, <2>2
    <3>2. c[Len(a) + (i + 1)] = b[i + 1]
      BY <1>0, <3>1
    <3> QED BY <2>1, <2>2, <3>1, <3>2
  <2>3. ASSUME b[i] = Cont PROVE i > 1 /\ b[i - 1] = Lead
    <3>1. CASE i = 1
      <4>1. Len(a) \in 1 .. Len(a) /\ c[Len(a)] = Lead
        BY <1>0, <2>1, <2>3, <3>1
      <4>2. a[Len(a)] = Lead
        BY <1>0, <4>1
      <4>3. Len(a) < Len(a)
        BY <4>1, <4>2, Utf8At
      <4> QED BY <1>0, <4>3
    <3>2. CASE i > 1
      <4>1. i - 1 \in 1 .. Len(b) /\ Len(a) + (i - 1) = Len(a) + i - 1
        BY <1>0, <3>2
      <4>2. c[Len(a) + (i - 1)] = b[i - 1]
        BY <1>0, <4>1
      <4> QED BY <2>1, <2>3, <3>2, <4>1, <4>2
    <3> QED BY <3>1, <3>2
  <2> QED BY <2>2, <2>3
<1>2. ASSUME IsUtf8(b) PROVE IsUtf8(c)
  <2> SUFFICES ASSUME NEW i \in 1 .. Len(c)
               PROVE /\ c[i] = Lead => i < Len(c) /\ c[i + 1] = Cont
                     /\ c[i] = Cont => i > 1 /\ c[i - 1] = Lead
    BY <1>0 DEF IsUtf8
  <2>1. CASE i <= Len(a)
    <3>1. /\ i \in DOMAIN a /\ c[i] = a[i]
          /\ a[i] = Lead => i < Len(a) /\ a[i + 1] = Cont
          /\ a[i] = Cont => i > 1 /\ a[i - 1] = Lead
      <4>1. i \in 1 .. Len(a)
        BY <1>0, <2>1
      <4> QED BY <1>0, <4>1, Utf8At
    <3>2. ASSUME i < Len(a) PROVE c[i + 1] = a[i + 1] /\ i < Len(c)
      <4>1. i + 1 \in 1 .. Len(a)
        BY <1>0, <3>2
      <4> QED BY <1>0, <3>2, <4>1
    <3>3. ASSUME i > 1 PROVE c[i - 1] = a[i - 1]
      <4>1. i - 1 \in 1 .. Len(a)
        BY <1>0, <2>1, <3>3
      <4> QED BY <1>0, <4>1
    <3> QED BY <3>1, <3>2, <3>3
  <2>2. CASE i > Len(a)
    <3> DEFINE j == i - Len(a)
    <3>0. j \in 1 .. Len(b) /\ i = Len(a) + j
      BY <1>0, <2>2
    <3> HIDE DEF j
    <3>1. /\ j \in DOMAIN b /\ c[i] = b[j]
          /\ b[j] = Lead => j < Len(b) /\ b[j + 1] = Cont
          /\ b[j] = Cont => j > 1 /\ b[j - 1] = Lead
      BY <1>0, <1>2, <3>0 DEF IsUtf8
    <3>2. ASSUME j < Len(b) PROVE c[i + 1] = b[j + 1] /\ i < Len(c)
      <4>1. j + 1 \in 1 .. Len(b) /\ Len(a) + (j + 1) = i + 1
        BY <1>0, <3>0, <3>2
      <4>2. c[Len(a) + (j + 1)] = b[j + 1]
        BY <1>0, <4>1
      <4> QED BY <1>0, <3>0, <3>2, <4>1, <4>2
    <3>3. ASSUME j > 1 PROVE c[i - 1] = b[j - 1] /\ i > 1
      <4>1. j - 1 \in 1 .. Len(b) /\ Len(a) + (j - 1) = i - 1
        BY <1>0, <3>0, <3>3
      <4>2. c[Len(a) + (j - 1)] = b[j - 1]
        BY <1>0, <4>1
      <4> QED BY <1>0, <3>0, <3>3, <4>1, <4>2
    <3> QED BY <3>1, <3>2, <3>3
  <2> QED BY <1>0, <2>1, <2>2
<1> QED BY <1>1, <1>2 DEF c

LEMMA ErrorStartIs ==
  ASSUME NEW b \in Seq(Bytes)
  PROVE  /\ ErrorStart(b) \in 0 .. Len(b)
         /\ IsUtf8(SubSeq(b, 1, ErrorStart(b)))
         /\ \A n \in 0 .. Len(b) : IsUtf8(SubSeq(b, 1, n)) => n <= ErrorStart(b)
<1> DEFINE T == {n \in 0 .. Len(b) : IsUtf8(SubSeq(b, 1, n))}
<1>0. Len(b) \in Nat /\ SubSeq(b, 1, 0) = <<>>
  OBVIOUS
<1>1. T \in SUBSET Nat /\ 0 \in T /\ \A t \in T : t <= Len(b)
  <2>1. 0 \in 0 .. Len(b) /\ IsUtf8(SubSeq(b, 1, 0))
    <3>1. 0 \in 0 .. Len(b)
      BY <1>0
    <3>2. IsUtf8(SubSeq(b, 1, 0))
      BY <1>0, Utf8Empty, Zenon
    <3> QED BY <3>1, <3>2
  <2> QED BY <1>0, <2>1
<1>2. Max(T) \in T /\ \A t \in T : t <= Max(T)
  <2> HIDE DEF T
  <2> QED BY <1>0, <1>1, MaxIs
<1>3. ErrorStart(b) = Max(T)
  BY DEF ErrorStart
<1>4. ErrorStart(b) \in T /\ \A t \in T : t <= ErrorStart(b)
  <2> HIDE DEF T
  <2> QED BY <1>2, <1>3
<1> QED BY <1>4

LEMMA ErrorStartConcat ==
  ASSUME NEW a \in Seq(Bytes), NEW b \in Seq(Bytes), IsUtf8(a)
  PROVE  ErrorStart(a \o b) = Len(a) + ErrorStart(b)
<1> DEFINE c == a \o b
<1>0. c \in Seq(Bytes) /\ Len(c) = Len(a) + Len(b) /\ Len(a) \in Nat /\ Len(b) \in Nat
  OBVIOUS
<1>1. ASSUME NEW m \in 0 .. Len(b) PROVE IsUtf8(SubSeq(c, 1, Len(a) + m)) <=> IsUtf8(SubSeq(b, 1, m))
  <2>1. SubSeq(c, 1, Len(a) + m) = a \o SubSeq(b, 1, m)
    BY Parts
  <2>2. SubSeq(b, 1, m) \in Seq(Bytes)
    BY CutInTwo
  <2> HIDE DEF c
  <2> QED BY <2>1, <2>2, Utf8Concat
<1> HIDE DEF c
<1>2. /\ ErrorStart(c) \in 0 .. Len(c)
      /\ IsUtf8(SubSeq(c, 1, ErrorStart(c)))
      /\ \A n \in 0 .. Len(c) : IsUtf8(SubSeq(c, 1, n)) => n <= ErrorStart(c)
  BY <1>0, ErrorStartIs
<1>3. /\ ErrorStart(b) \in 0 .. Len(b)
      /\ IsUtf8(SubSeq(b, 1, ErrorStart(b)))
      /\ \A n \in 0 .. Len(b) : IsUtf8(SubSeq(b, 1, n)) => n <= ErrorStart(b)
  BY ErrorStartIs
<1>4. Len(a) + ErrorStart(b) <= ErrorStart(c)
  <2>1. Len(a) + ErrorStart(b) \in 0 .. Len(c)
    BY <1>0, <1>3
  <2> QED BY <1>1, <1>2, <1>3, <2>1
<1>5. ErrorStart(c) - Len(a) \in 0 .. Len(b) /\ Len(a) + (ErrorStart(c) - Len(a)) = ErrorStart(c)
  BY <1>0, <1>2, <1>3, <1>4
<1>6. ErrorStart(c) - Len(a) <= ErrorStart(b)
  BY <1>1, <1>2, <1>3, <1>5
<1>7. ErrorStart(c) = Len(a) + ErrorStart(b)
  <2>1. ErrorStart(c) \in Int /\ ErrorStart(b) \in Int
    BY <1>0, <1>2, <1>3
  <2>2. \A x, y, n \in Int : n + y <= x /\ x - n <= y => x = n + y
    OBVIOUS
  <2>3. Len(a) \in Int
    BY <1>0
  <2> QED BY <1>4, <1>6, <2>1, <2>2, <2>3
<1> QED BY <1>7 DEF c

LEMMA CharactersAreBytes ==
  /\ Characters \subseteq Bytes
  /\ \A s \in Seq(Characters) : s \in Seq(Bytes)
  /\ Lead \in Characters /\ Cont \notin Characters /\ Lead # Cont
<1>1. Characters \subseteq Bytes
  BY DEF Characters
<1>2. Lead # Cont
  BY DEF Lead, Cont
<1>3. Lead \in Characters /\ Cont \notin Characters
  BY <1>2, VocabAssumption DEF Characters
<1> QED BY <1>1, <1>2, <1>3

LEMMA PairIs ==
  ASSUME NEW x, NEW y
  PROVE  <<x, y>> = <<x>> \o <<y>>
<1>1. <<x>> \in Seq({x, y}) /\ <<y>> \in Seq({x, y}) /\ <<x, y>> \in Seq({x, y})
  OBVIOUS
<1> DEFINE p == <<x>> \o <<y>>
           q == <<x, y>>
<1>2. Len(p) = 2 /\ Len(q) = 2 /\ p[1] = q[1] /\ p[2] = q[2]
  OBVIOUS
<1>3. p \in Seq({x, y}) /\ q \in Seq({x, y})
  BY <1>1
<1> HIDE DEF p, q
<1>4. p = q
  BY <1>2, <1>3, SeqEqual
<1> QED BY <1>4 DEF p, q

\* A text and its bytes: they are valid, not fewer, and decode to the text.
LEMMA EncodingValid ==
  ASSUME NEW s \in Seq(Characters)
  PROVE  /\ BytesOf(s) \in Seq(Bytes) /\ IsUtf8(BytesOf(s))
         /\ TextOf(BytesOf(s)) = s
         /\ Len(BytesOf(s)) >= Len(s)
<1> DEFINE Good == {x \in Seq(Characters) : /\ IsUtf8(BytesOf(x))
                                            /\ TextOf(BytesOf(x)) = x
                                            /\ Len(BytesOf(x)) >= Len(x)}
<1>1. <<>> \in Good
  <2>1. <<>> \in Seq(Characters) /\ Len(<<>>) >= Len(<<>>)
    OBVIOUS
  <2> QED BY <2>1, Utf8Empty, EncodingIs, DecodingIs
<1>2. ASSUME NEW x \in Seq(Characters), NEW c \in Characters, x \in Good
      PROVE  x \o <<c>> \in Good
  <2> DEFINE e == BytesOf(<<c>>)
  <2>0. /\ x \in Seq(Bytes) /\ c \in Bytes /\ <<c>> \in Seq(Bytes) /\ <<c>> \in Seq(Characters)
        /\ x \o <<c>> \in Seq(Characters) /\ Len(x \o <<c>>) = Len(x) + 1 /\ Len(x) \in Nat
    BY CharactersAreBytes
  <2>1. BytesOf(x \o <<c>>) = BytesOf(x) \o e /\ BytesOf(x) \in Seq(Bytes) /\ e \in Seq(Bytes)
    BY <2>0, EncodingIs
  <2>2. IsUtf8(e) /\ TextOf(e) = <<c>> /\ Len(e) >= 1
    <3>1. CASE c = Lead
      <4>1. e = <<Lead, Cont>> /\ e = <<Lead>> \o <<Cont>>
        <5>1. e = <<Lead, Cont>>
          BY <2>0, <3>1, EncodingIs
        <5>2. <<Lead, Cont>> = <<Lead>> \o <<Cont>>
          BY PairIs
        <5> QED BY <5>1, <5>2
      <4>2. IsUtf8(<<Lead, Cont>>)
        BY CharactersAreBytes DEF IsUtf8
      <4>3. TextOf(<<Lead>> \o <<Cont>>) = TextOf(<<Lead>>) \o TextOf(<<Cont>>)
        <5>1. Lead \in Bytes /\ Cont \in Bytes
          BY VocabAssumption
        <5>2. <<Lead>> \in Seq(Bytes) /\ <<Cont>> \in Seq(Bytes)
          BY <5>1
        <5> QED BY <5>2, DecodingIs
      <4>4. TextOf(<<Lead>>) = <<Lead>> /\ TextOf(<<Cont>>) = <<>>
        BY VocabAssumption, CharactersAreBytes, DecodingIs
      <4>5. <<Lead>> \o <<>> = <<Lead>>
        OBVIOUS
      <4> HIDE DEF e
      <4>6. TextOf(e) = <<c>>
        BY <3>1, <4>1, <4>3, <4>4, <4>5
      <4>7. Len(e) = 2 /\ IsUtf8(e)
        BY <4>1, <4>2
      <4> QED BY <4>6, <4>7
    <3>2. CASE c # Lead
      <4>1. e = <<c>>
        BY <2>0, <3>2, EncodingIs
      <4>2. c # Cont
        BY DEF Characters
      <4>3. IsUtf8(<<c>>)
        BY <3>2, <4>2 DEF IsUtf8
      <4>4. TextOf(<<c>>) = <<c>>
        BY <2>0, <4>2, DecodingIs
      <4>5. Len(<<c>>) = 1
        OBVIOUS
      <4> HIDE DEF e
      <4> QED BY <4>1, <4>3, <4>4, <4>5
    <3> QED BY <3>1, <3>2
  <2> HIDE DEF e
  <2>3. IsUtf8(BytesOf(x) \o e)
    BY <1>2, <2>1, <2>2, Utf8Concat
  <2>4. TextOf(BytesOf(x) \o e) = x \o <<c>>
    <3>1. TextOf(BytesOf(x) \o e) = TextOf(BytesOf(x)) \o TextOf(e)
      BY <2>1, DecodingIs
    <3> QED BY <1>2, <2>2, <3>1
  <2>5. Len(BytesOf(x) \o e) = Len(BytesOf(x)) + Len(e) /\ Len(BytesOf(x)) \in Nat /\ Len(e) \in Nat
    BY <2>1
  <2>6. Len(BytesOf(x)) >= Len(x)
    BY <1>2
  <2>7. Len(BytesOf(x) \o e) >= Len(x \o <<c>>)
    BY <2>0, <2>2, <2>5, <2>6
  <2> QED BY <2>0, <2>1, <2>3, <2>4, <2>7
<1>3. s \in Good
  <2> HIDE DEF Good
  <2> QED BY <1>1, <1>2, SeqInduction
<1>4. BytesOf(s) \in Seq(Bytes)
  BY EncodingIs, CharactersAreBytes
<1> QED BY <1>3, <1>4

LEMMA CutBytes ==
  ASSUME NEW s \in Seq(Bytes), NEW n \in 0 .. Len(s)
  PROVE  /\ SubSeq(s, 1, n) \in Seq(Bytes) /\ Len(SubSeq(s, 1, n)) = n
         /\ SubSeq(s, n + 1, Len(s)) \in Seq(Bytes) /\ Len(SubSeq(s, n + 1, Len(s))) = Len(s) - n
         /\ s = SubSeq(s, 1, n) \o SubSeq(s, n + 1, Len(s))
<1> QED BY CutInTwo, Zenon

LEMMA PartsOfBytes ==
  ASSUME NEW a \in Seq(Bytes), NEW b \in Seq(Bytes), NEW m \in 0 .. Len(b)
  PROVE  /\ SubSeq(a \o b, 1, Len(a) + m) = a \o SubSeq(b, 1, m)
         /\ SubSeq(a \o b, Len(a) + m + 1, Len(a \o b)) = SubSeq(b, m + 1, Len(b))
<1> QED BY Parts, Zenon

\* What has been decoded of some bytes, and the rest that waits.
TextIn(bytes) == TextOf(SubSeq(bytes, 1, ErrorStart(bytes)))
RestOf(bytes) == SubSeq(bytes, ErrorStart(bytes) + 1, Len(bytes))

LEMMA DecodeMore ==
  ASSUME NEW b \in Seq(Bytes), NEW t \in Seq(Bytes)
  PROVE  /\ TextIn(b) \in Seq(Characters) /\ RestOf(b) \in Seq(Bytes)
         /\ ErrorStart(RestOf(b)) = 0
         /\ TextIn(b \o t) = TextIn(b) \o TextIn(RestOf(b) \o t)
         /\ RestOf(b \o t) = RestOf(RestOf(b) \o t)
<1> DEFINE v == SubSeq(b, 1, ErrorStart(b))
           r == RestOf(b)
<1>1. /\ v \in Seq(Bytes) /\ r \in Seq(Bytes) /\ b = v \o r /\ Len(v) = ErrorStart(b)
      /\ IsUtf8(v) /\ ErrorStart(b) \in Nat
  <2>1. ErrorStart(b) \in 0 .. Len(b) /\ IsUtf8(v)
    BY ErrorStartIs
  <2>2. ErrorStart(b) \in Nat
    BY <2>1
  <2>3. /\ v \in Seq(Bytes) /\ Len(v) = ErrorStart(b)
        /\ SubSeq(b, ErrorStart(b) + 1, Len(b)) \in Seq(Bytes)
        /\ b = v \o SubSeq(b, ErrorStart(b) + 1, Len(b))
    BY <2>1, CutBytes
  <2> HIDE DEF v
  <2> QED BY <2>1, <2>2, <2>3 DEF RestOf
<1>2. TextIn(b) \in Seq(Characters) /\ TextIn(b) = TextOf(v)
  BY <1>1, DecodingIs DEF TextIn
<1> HIDE DEF v, r
<1>3. ErrorStart(r) = 0
  <2>1. ErrorStart(v \o r) = Len(v) + ErrorStart(r) /\ ErrorStart(r) \in Nat
    BY <1>1, ErrorStartConcat, ErrorStartIs
  <2> QED BY <1>1, <2>1
<1> DEFINE w == r \o t
<1>4. w \in Seq(Bytes) /\ b \o t = v \o w
  <2>1. (v \o r) \o t = v \o (r \o t)
    <3>1. \A x, y, z \in Seq(Bytes) : (x \o y) \o z = x \o (y \o z)
      BY ConcatAssociative
    <3> QED BY <1>1, <3>1
  <2> QED BY <1>1, <2>1
<1> HIDE DEF w
<1>5. ErrorStart(v \o w) = Len(v) + ErrorStart(w) /\ ErrorStart(w) \in 0 .. Len(w)
  BY <1>1, <1>4, ErrorStartConcat, ErrorStartIs
<1>6. TextIn(v \o w) = TextOf(v) \o TextIn(w)
  <2>1. SubSeq(v \o w, 1, Len(v) + ErrorStart(w)) = v \o SubSeq(w, 1, ErrorStart(w))
    BY <1>1, <1>4, <1>5, PartsOfBytes
  <2>2. SubSeq(w, 1, ErrorStart(w)) \in Seq(Bytes)
    BY <1>4, <1>5, CutBytes
  <2>3. TextOf(v \o SubSeq(w, 1, ErrorStart(w))) = TextOf(v) \o TextOf(SubSeq(w, 1, ErrorStart(w)))
    BY <1>1, <2>2, DecodingIs
  <2> QED BY <1>5, <2>1, <2>3 DEF TextIn
<1>7. RestOf(v \o w) = RestOf(w)
  <2>1. SubSeq(v \o w, Len(v) + ErrorStart(w) + 1, Len(v \o w)) = SubSeq(w, ErrorStart(w) + 1, Len(w))
    BY <1>1, <1>4, <1>5, PartsOfBytes
  <2> QED BY <1>5, <2>1 DEF RestOf
<1> QED BY <1>1, <1>2, <1>3, <1>4, <1>6, <1>7 DEF r, w

\* Prefixes of a text, and how their bytes grow.
LEMMA TextCut ==
  ASSUME NEW s \in Seq(Characters), NEW j \in 0 .. Len(s)
  PROVE  /\ SubSeq(s, 1, j) \in Seq(Characters)
         /\ SubSeq(s, j + 1, Len(s)) \in Seq(Characters)
         /\ Len(SubSeq(s, j + 1, Len(s))) = Len(s) - j
         /\ BytesOf(s) = BytesOf(SubSeq(s, 1, j)) \o BytesOf(SubSeq(s, j + 1, Len(s)))
         /\ Len(BytesOf(SubSeq(s, 1, j))) \in Nat
         /\ Len(BytesOf(SubSeq(s, 1, j))) <= Len(BytesOf(s))
<1> DEFINE a == SubSeq(s, 1, j)
           b == SubSeq(s, j + 1, Len(s))
<1>1. /\ a \in Seq(Characters) /\ b \in Seq(Characters) /\ s = a \o b
      /\ Len(b) = Len(s) - j
  BY CutInTwo
<1> HIDE DEF a, b
<1>2. a \in Seq(Bytes) /\ b \in Seq(Bytes)
  BY <1>1, CharactersAreBytes
<1>3. BytesOf(s) = BytesOf(a) \o BytesOf(b) /\ BytesOf(a) \in Seq(Bytes) /\ BytesOf(b) \in Seq(Bytes)
  BY <1>1, <1>2, EncodingIs
<1>4. Len(BytesOf(a)) \in Nat /\ Len(BytesOf(a)) <= Len(BytesOf(s))
  BY <1>3
<1> QED BY <1>1, <1>3, <1>4 DEF a, b

\* The bytes of a longer beginning are more.
LEMMA LongerBytes ==
  ASSUME NEW s \in Seq(Characters), NEW j \in 0 .. Len(s), NEW k \in 0 .. Len(s), j < k
  PROVE  Len(BytesOf(SubSeq(s, 1, j))) < Len(BytesOf(SubSeq(s, 1, k)))
<1> DEFINE t == SubSeq(s, 1, k)
           a == SubSeq(t, 1, j)
           b == SubSeq(t, j + 1, Len(t))
<1>1. t \in Seq(Characters) /\ Len(t) = k /\ Len(s) \in Nat
  BY CutInTwo
<1>2. a = SubSeq(s, 1, j)
  BY <1>1
<1> HIDE DEF t
<1>3. j \in 0 .. Len(t)
  BY <1>1
<1>4. /\ a \in Seq(Characters) /\ b \in Seq(Characters) /\ Len(b) = Len(t) - j
      /\ BytesOf(t) = BytesOf(a) \o BytesOf(b)
  BY <1>1, <1>3, TextCut
<1> HIDE DEF a, b
<1>5. Len(BytesOf(b)) >= Len(b) /\ BytesOf(b) \in Seq(Bytes) /\ BytesOf(a) \in Seq(Bytes)
  BY <1>4, EncodingValid
<1>6. Len(BytesOf(t)) = Len(BytesOf(a)) + Len(BytesOf(b)) /\ Len(BytesOf(a)) \in Nat /\ Len(BytesOf(b)) \in Nat
  BY <1>4, <1>5
<1>7. Len(BytesOf(a)) < Len(BytesOf(t))
  BY <1>1, <1>3, <1>4, <1>5, <1>6
<1> QED BY <1>2, <1>7 DEF t

\* A place in the bytes of a text that no continuation follows is between two characters.
LEMMA Boundary ==
  ASSUME NEW s \in Seq(Characters), NEW i \in 0 .. Len(BytesOf(s)),
         i = Len(BytesOf(s)) \/ BytesOf(s)[i + 1] # Cont
  PROVE  \E j \in 0 .. Len(s) : i = Len(BytesOf(SubSeq(s, 1, j)))
<1> DEFINE Starts(x) == {k \in 0 .. Len(BytesOf(x)) :
                           k = Len(BytesOf(x)) \/ BytesOf(x)[k + 1] # Cont}
           Good == {x \in Seq(Characters) : \A k \in Starts(x) :
                      \E j \in 0 .. Len(x) : k = Len(BytesOf(SubSeq(x, 1, j)))}
<1>1. <<>> \in Good
  <2>1. BytesOf(<<>>) = <<>> /\ Len(<<>>) = 0 /\ SubSeq(<<>>, 1, 0) = <<>> /\ <<>> \in Seq(Characters)
    BY EncodingIs
  <2>2. \A k \in Starts(<<>>) : k = 0
    BY <2>1
  <2>3. \A k \in Starts(<<>>) : \E j \in 0 .. Len(<<>>) : k = Len(BytesOf(SubSeq(<<>>, 1, j)))
    BY <2>1, <2>2
  <2> HIDE DEF Starts
  <2> QED BY <2>1, <2>3
<1>2. ASSUME NEW x \in Seq(Characters), NEW c \in Characters, x \in Good
      PROVE  x \o <<c>> \in Good
  <2> DEFINE y == x \o <<c>>
             e == BytesOf(<<c>>)
             b == BytesOf(x)
  <2>0. /\ x \in Seq(Bytes) /\ c \in Bytes /\ <<c>> \in Seq(Bytes) /\ y \in Seq(Characters)
        /\ Len(y) = Len(x) + 1 /\ Len(x) \in Nat
    BY CharactersAreBytes
  <2>1. BytesOf(y) = b \o e /\ b \in Seq(Bytes) /\ e \in Seq(Bytes)
    BY <2>0, EncodingIs
  <2>2. /\ Len(b) \in Nat /\ Len(e) \in Nat /\ Len(BytesOf(y)) = Len(b) + Len(e)
        /\ \A n \in 1 .. Len(b) : (b \o e)[n] = b[n]
        /\ \A n \in 1 .. Len(e) : (b \o e)[Len(b) + n] = e[n]
    BY <2>1
  <2>3. e = <<c>> \/ e = <<Lead, Cont>>
    BY <2>0, EncodingIs
  <2>4. SubSeq(y, 1, Len(y)) = y /\ \A j \in 0 .. Len(x) : SubSeq(y, 1, j) = SubSeq(x, 1, j)
    <3>1. SubSeq(y, 1, Len(y)) = y
      BY <2>0, SubSeqFull
    <3>2. ASSUME NEW j \in 0 .. Len(x) PROVE SubSeq(y, 1, j) = SubSeq(x, 1, j)
      BY <2>0
    <3> QED BY <3>1, <3>2
  <2> HIDE DEF e
  <2>5. ASSUME NEW k \in Starts(y)
        PROVE  \E j \in 0 .. Len(y) : k = Len(BytesOf(SubSeq(y, 1, j)))
    <3>0. /\ k \in 0 .. Len(b) + Len(e)
          /\ k = Len(b) + Len(e) \/ (b \o e)[k + 1] # Cont
      BY <2>1, <2>2
    <3> HIDE DEF y, Starts
    <3>1. CASE k = Len(b) + Len(e)
      <4>1. Len(y) \in 0 .. Len(y)
        BY <2>0
      <4> QED BY <2>2, <2>4, <3>1, <4>1
    <3>2. CASE k = Len(b)
      <4>1. Len(x) \in 0 .. Len(x) /\ Len(x) \in 0 .. Len(y)
        BY <2>0
      <4>2. SubSeq(y, 1, Len(x)) = x
        BY <2>0, <2>4, <4>1, SubSeqFull
      <4> QED BY <3>2, <4>1, <4>2
    <3>3. CASE k < Len(b)
      <4>1. k \in 0 .. Len(b) /\ k + 1 \in 1 .. Len(b) /\ k # Len(b) + Len(e)
        BY <2>2, <3>0, <3>3
      <4>2. b[k + 1] # Cont
        BY <2>2, <3>0, <4>1
      <4>3. k \in Starts(x)
        BY <4>1, <4>2 DEF Starts
      <4>4. PICK j \in 0 .. Len(x) : k = Len(BytesOf(SubSeq(x, 1, j)))
        BY <1>2, <4>3
      <4>5. j \in 0 .. Len(y)
        BY <2>0
      <4> QED BY <2>4, <4>4, <4>5
    <3>4. CASE k > Len(b) /\ k < Len(b) + Len(e)
      <4>1. Len(e) = 2 /\ e[2] = Cont
        <5>1. CASE e = <<c>>
          <6>1. Len(e) = 1
            BY <5>1
          <6> QED BY <2>2, <3>0, <3>4, <6>1
        <5>2. CASE e = <<Lead, Cont>>
          BY <5>2
        <5> QED BY <2>3, <5>1, <5>2
      <4>2. k = Len(b) + 1 /\ 2 \in 1 .. Len(e) /\ k + 1 = Len(b) + 2
        BY <2>2, <3>0, <3>4, <4>1
      <4>3. (b \o e)[k + 1] = Cont
        BY <2>2, <4>1, <4>2
      <4> QED BY <2>2, <3>0, <3>4, <4>3
    <3>5. \/ k = Len(b) + Len(e) \/ k = Len(b) \/ k < Len(b)
          \/ k > Len(b) /\ k < Len(b) + Len(e)
      <4>1. \A m, n \in Nat : \A h \in 0 .. m + n : h = m + n \/ h = m \/ h < m \/ (h > m /\ h < m + n)
        OBVIOUS
      <4>2. Len(b) \in Nat /\ Len(e) \in Nat /\ k \in 0 .. Len(b) + Len(e)
        BY <2>2, <3>0
      <4> HIDE DEF b
      <4> QED BY <4>1, <4>2
    <3> QED BY <3>1, <3>2, <3>3, <3>4, <3>5, Zenon
  <2> HIDE DEF y, Starts
  <2> QED BY <2>0, <2>5 DEF y
<1>3. s \in Good
  <2> HIDE DEF Good
  <2> QED BY <1>1, <1>2, SeqInduction
<1>4. i \in Starts(s)
  OBVIOUS
<1> HIDE DEF Starts
<1> QED BY <1>3, <1>4

LEMMA FirstTwo ==
  ASSUME NEW S, NEW r \in Seq(S)
  PROVE  /\ Len(r) >= 1 => SubSeq(r, 1, 1) = <<r[1]>>
         /\ Len(r) >= 2 => SubSeq(r, 1, 2) = <<r[1], r[2]>>
<1>1. ASSUME Len(r) >= 1 PROVE SubSeq(r, 1, 1) = <<r[1]>>
  <2> DEFINE p == SubSeq(r, 1, 1)
             q == <<r[1]>>
  <2>1. p \in Seq(S) /\ Len(p) = 1 /\ p[1] = r[1]
    BY <1>1
  <2>2. q \in Seq(S) /\ Len(q) = 1 /\ q[1] = r[1]
    BY <1>1
  <2> HIDE DEF p, q
  <2>3. p = q
    BY <2>1, <2>2, SeqEqual
  <2> QED BY <2>3 DEF p, q
<1>2. ASSUME Len(r) >= 2 PROVE SubSeq(r, 1, 2) = <<r[1], r[2]>>
  <2> DEFINE p == SubSeq(r, 1, 2)
             q == <<r[1], r[2]>>
  <2>1. p \in Seq(S) /\ Len(p) = 2 /\ p[1] = r[1] /\ p[2] = r[2]
    BY <1>2
  <2>2. q \in Seq(S) /\ Len(q) = 2 /\ q[1] = r[1] /\ q[2] = r[2]
    BY <1>2
  <2> HIDE DEF p, q
  <2>3. p = q
    BY <2>1, <2>2, SeqEqual
  <2> QED BY <2>3 DEF p, q
<1> QED BY <1>1, <1>2

\* Where the bytes of a stop string are found in those of a text that bytes follow which
\* cannot be decoded: the text has the stop string there, or they are behind the first of
\* the bytes that follow.
LEMMA ByteMatch ==
  ASSUME NEW text \in Seq(Characters), NEW stop \in Seq(Characters), stop # <<>>,
         NEW r \in Seq(Bytes), r # <<>>, ErrorStart(r) = 0,
         NEW i \in Nat, i + Len(BytesOf(stop)) <= Len(BytesOf(text) \o r),
         SubSeq(BytesOf(text) \o r, i + 1, i + Len(BytesOf(stop))) = BytesOf(stop)
  PROVE  \/ i > Len(BytesOf(text))
         \/ \E j \in 0 .. Len(text) - Len(stop) :
              /\ i = Len(BytesOf(SubSeq(text, 1, j)))
              /\ SubSeq(text, j + 1, j + Len(stop)) = stop
<1> DEFINE t == BytesOf(text)
           s == BytesOf(stop)
           full == t \o r
<1>0. /\ t \in Seq(Bytes) /\ s \in Seq(Bytes) /\ IsUtf8(t) /\ IsUtf8(s)
      /\ TextOf(s) = stop /\ Len(s) >= Len(stop) /\ Len(stop) \in Nat \ {0}
      /\ Len(t) \in Nat /\ Len(s) \in Nat \ {0} /\ Len(r) \in Nat \ {0}
  <2>1. /\ t \in Seq(Bytes) /\ s \in Seq(Bytes) /\ IsUtf8(t) /\ IsUtf8(s)
        /\ TextOf(s) = stop /\ Len(s) >= Len(stop)
    BY EncodingValid
  <2>2. Len(stop) \in Nat \ {0} /\ Len(r) \in Nat \ {0}
    OBVIOUS
  <2> HIDE DEF t, s
  <2>3. Len(t) \in Nat /\ Len(s) \in Nat
    BY <2>1
  <2>4. Len(s) # 0
    BY <2>1, <2>2, <2>3
  <2> QED BY <2>1, <2>2, <2>3, <2>4
<1>1. i + Len(s) <= Len(full) /\ SubSeq(full, i + 1, i + Len(s)) = s
  OBVIOUS
<1> HIDE DEF t, s
<1>2. /\ full \in Seq(Bytes) /\ Len(full) = Len(t) + Len(r)
      /\ \A n \in 1 .. Len(t) : full[n] = t[n]
      /\ \A n \in 1 .. Len(r) : full[Len(t) + n] = r[n]
  BY <1>0
<1> HIDE DEF full
<1>3. \A n \in 1 .. Len(s) : full[i + n] = s[n]
  <2>1. \A n \in i + 1 .. i + Len(s) : full[n] \in Bytes
    BY <1>0, <1>1, <1>2
  <2>2. \A n \in 1 .. (i + Len(s)) - (i + 1) + 1 : SubSeq(full, i + 1, i + Len(s))[n] = full[(i + 1) + n - 1]
    <3>1. i + 1 \in Int /\ i + Len(s) \in Int
      BY <1>0
    <3> QED BY <2>1, <3>1, SubSeqProperties
  <2> SUFFICES ASSUME NEW n \in 1 .. Len(s) PROVE full[i + n] = s[n]
    OBVIOUS
  <2>3. n \in 1 .. (i + Len(s)) - (i + 1) + 1 /\ (i + 1) + n - 1 = i + n
    BY <1>0
  <2> QED BY <1>1, <2>2, <2>3
<1> SUFFICES ASSUME i <= Len(t)
             PROVE  \E j \in 0 .. Len(text) - Len(stop) :
                      /\ i = Len(BytesOf(SubSeq(text, 1, j)))
                      /\ SubSeq(text, j + 1, j + Len(stop)) = stop
  BY <1>0 DEF t
<1>4. s[1] # Cont /\ s[Len(s)] # Lead
  <2>1. 1 \in 1 .. Len(s) /\ Len(s) \in 1 .. Len(s)
    BY <1>0
  <2>2. s[1] = Cont => 1 > 1
    BY <1>0, <2>1, Utf8At
  <2>3. s[Len(s)] = Lead => Len(s) < Len(s)
    BY <1>0, <2>1, Utf8At
  <2> QED BY <1>0, <2>2, <2>3
<1>5. i + Len(s) <= Len(t)
  <2> SUFFICES ASSUME i + Len(s) > Len(t) PROVE FALSE
    BY <1>0
  <2> DEFINE k == Len(t) + 1 - i
  <2>1. k \in 1 .. Len(s) /\ i + k = Len(t) + 1 /\ 1 \in 1 .. Len(r)
    BY <1>0
  <2> HIDE DEF k
  <2>2. s[k] = r[1]
    BY <1>2, <1>3, <2>1
  <2>3. r[1] # Lead => r[1] = Cont
    <3> SUFFICES ASSUME r[1] # Lead, r[1] # Cont PROVE FALSE
      OBVIOUS
    <3>1. SubSeq(r, 1, 1) = <<r[1]>>
      BY <1>0, FirstTwo
    <3>2. IsUtf8(<<r[1]>>)
      <4> DEFINE x == r[1]
      <4>1. x # Lead /\ x # Cont
        OBVIOUS
      <4> HIDE DEF x
      <4>2. IsUtf8(<<x>>)
        BY <4>1 DEF IsUtf8
      <4> QED BY <4>2 DEF x
    <3>3. 1 \in 0 .. Len(r) /\ IsUtf8(SubSeq(r, 1, 1))
      <4>1. IsUtf8(SubSeq(r, 1, 1))
        BY <3>1, <3>2, Zenon
      <4> QED BY <1>0, <4>1
    <3>4. 1 <= ErrorStart(r)
      BY <3>3, ErrorStartIs
    <3> QED BY <3>4
  <2>4. CASE r[1] = Cont
    <3>1. k > 1 /\ s[k - 1] = Lead
      BY <1>0, <2>1, <2>2, <2>4, Utf8At
    <3>2. /\ k - 1 \in 1 .. Len(s) /\ i + (k - 1) = Len(t) /\ Len(t) \in 1 .. Len(t)
      BY <1>0, <2>1, <3>1
    <3>3. t[Len(t)] = Lead
      BY <1>2, <1>3, <3>1, <3>2
    <3>4. Len(t) < Len(t)
      BY <1>0, <3>2, <3>3, Utf8At
    <3> QED BY <1>0, <3>4
  <2>5. CASE r[1] = Lead
    <3>1. k < Len(s) /\ s[k + 1] = Cont
      BY <1>0, <2>1, <2>2, <2>5, Utf8At
    <3>2. k + 1 \in 1 .. Len(s) /\ i + (k + 1) = Len(t) + 2 /\ 2 \in 1 .. Len(r)
      <4>1. k + 1 \in 1 .. Len(s) /\ i + (k + 1) = Len(t) + 2
        BY <1>0, <2>1, <3>1
      <4>2. 2 \in 1 .. Len(r)
        BY <1>0, <1>1, <1>2, <2>1, <3>1
      <4> QED BY <4>1, <4>2
    <3>3. r[2] = Cont
      BY <1>2, <1>3, <3>1, <3>2
    <3>4. SubSeq(r, 1, 2) = <<Lead, Cont>>
      <4>1. SubSeq(r, 1, 2) = <<r[1], r[2]>>
        BY <1>0, <3>2, FirstTwo
      <4> QED BY <2>5, <3>3, <4>1
    <3>5. IsUtf8(<<Lead, Cont>>)
      BY CharactersAreBytes DEF IsUtf8
    <3>6. 2 \in 0 .. Len(r) /\ IsUtf8(SubSeq(r, 1, 2))
      <4>1. IsUtf8(SubSeq(r, 1, 2))
        BY <3>4, <3>5, Zenon
      <4> QED BY <1>0, <3>2, <4>1
    <3>7. 2 <= ErrorStart(r)
      BY <3>6, ErrorStartIs
    <3> QED BY <3>7
  <2> QED BY <2>3, <2>4, <2>5
<1>6. PICK j \in 0 .. Len(text) : i = Len(BytesOf(SubSeq(text, 1, j)))
  <2>1. 1 \in 1 .. Len(s) /\ i + 1 \in 1 .. Len(t) /\ i \in 0 .. Len(t)
    BY <1>0, <1>5
  <2>2. t[i + 1] # Cont
    BY <1>2, <1>3, <1>4, <2>1
  <2> QED BY <2>1, <2>2, Boundary DEF t
<1>7. PICK k \in 0 .. Len(text) : i + Len(s) = Len(BytesOf(SubSeq(text, 1, k)))
  <2> DEFINE n == i + Len(s)
  <2>1. n \in 0 .. Len(t) /\ Len(s) \in 1 .. Len(s)
    BY <1>0, <1>5
  <2>2. ASSUME n # Len(t) PROVE t[n + 1] # Cont
    <3> SUFFICES ASSUME t[n + 1] = Cont PROVE FALSE
      OBVIOUS
    <3>1. n + 1 \in 1 .. Len(t) /\ (n + 1) - 1 = n /\ n \in 1 .. Len(t)
      BY <1>0, <2>1, <2>2
    <3> HIDE DEF n
    <3>2. t[n] = Lead
      <4> DEFINE m == n + 1
      <4>1. m \in 1 .. Len(t) /\ t[m] = Cont /\ m - 1 = n
        BY <3>1
      <4> HIDE DEF m
      <4>2. t[m - 1] = Lead
        BY <1>0, <4>1, Utf8At
      <4> QED BY <4>1, <4>2
    <3>3. full[i + Len(s)] = s[Len(s)] /\ full[n] = t[n]
      BY <1>2, <1>3, <2>1, <3>1
    <3> QED BY <1>4, <3>2, <3>3 DEF n
  <2> HIDE DEF n
  <2>3. n = Len(t) \/ t[n + 1] # Cont
    BY <2>2
  <2>4. \E k \in 0 .. Len(text) : n = Len(BytesOf(SubSeq(text, 1, k)))
    BY <2>1, <2>3, Boundary DEF t
  <2> QED BY <2>4 DEF n
<1>8. j < k
  <2>1. j # k
    BY <1>0, <1>6, <1>7
  <2>2. ASSUME k < j PROVE FALSE
    <3>1. Len(BytesOf(SubSeq(text, 1, k))) < Len(BytesOf(SubSeq(text, 1, j)))
      BY <2>2, LongerBytes
    <3> QED BY <1>0, <1>6, <1>7, <3>1
  <2> QED BY <2>1, <2>2
<1> DEFINE u == SubSeq(text, 1, k)
           a == SubSeq(u, 1, j)
           b == SubSeq(u, j + 1, Len(u))
<1>9. /\ u \in Seq(Characters) /\ Len(u) = k /\ a = SubSeq(text, 1, j)
      /\ b = SubSeq(text, j + 1, k) /\ j \in 0 .. Len(u)
  BY <1>8
<1>10. /\ a \in Seq(Characters) /\ b \in Seq(Characters) /\ Len(b) = k - j
       /\ BytesOf(u) = BytesOf(a) \o BytesOf(b)
  <2> HIDE DEF u
  <2> QED BY <1>9, TextCut
<1>11. t = BytesOf(u) \o BytesOf(SubSeq(text, k + 1, Len(text))) /\ BytesOf(SubSeq(text, k + 1, Len(text))) \in Seq(Bytes)
  <2>1. SubSeq(text, k + 1, Len(text)) \in Seq(Characters)
    BY TextCut
  <2> QED BY <2>1, TextCut, EncodingValid DEF t
<1>12. BytesOf(b) = s
  <2> DEFINE x == BytesOf(a)
             y == BytesOf(b)
             z == BytesOf(SubSeq(text, k + 1, Len(text)))
  <2>1. x \in Seq(Bytes) /\ y \in Seq(Bytes) /\ z \in Seq(Bytes) /\ t = (x \o y) \o z
    BY <1>10, <1>11, EncodingValid
  <2>2. Len(x) = i /\ Len(x \o y) = i + Len(s)
    BY <1>6, <1>7, <1>9, <1>10
  <2> HIDE DEF x, y, z
  <2>3. Len(y) = Len(s)
    BY <1>0, <2>1, <2>2
  <2>4. \A n \in 1 .. Len(y) : t[i + n] = y[n]
    <3> SUFFICES ASSUME NEW n \in 1 .. Len(y) PROVE t[i + n] = y[n]
      OBVIOUS
    <3>1. x \o y \in Seq(Bytes) /\ (x \o y)[i + n] = y[n]
      <4>1. (x \o y)[Len(x) + n] = y[n]
        BY <2>1, ConcatOf
      <4> QED BY <2>1, <2>2, <4>1
    <3>2. i + n \in 1 .. Len(x \o y)
      BY <1>0, <2>2, <2>3
    <3>3. ((x \o y) \o z)[i + n] = (x \o y)[i + n]
      BY <2>1, <3>1, <3>2
    <3> QED BY <2>1, <3>1, <3>3
  <2>5. ASSUME NEW n \in 1 .. Len(s) PROVE y[n] = s[n]
    <3>1. i + n \in 1 .. Len(t)
      BY <1>0, <1>5
    <3> QED BY <1>2, <1>3, <2>3, <2>4, <3>1
  <2>6. y = s
    BY <1>0, <2>1, <2>3, <2>5, SeqEqual
  <2> QED BY <2>6 DEF y
<1>13. b = stop
  <2>1. TextOf(BytesOf(b)) = b
    BY <1>10, EncodingValid
  <2> QED BY <1>0, <1>12, <2>1
<1>14. k = j + Len(stop)
  <2>1. Len(b) = Len(stop)
    BY <1>13
  <2>2. Len(b) = k - j /\ Len(stop) \in Int
    BY <1>0, <1>10
  <2> HIDE DEF b
  <2> QED BY <2>1, <2>2
<1>15. j \in 0 .. Len(text) - Len(stop)
  BY <1>0, <1>14
<1> HIDE DEF a, b, u
<1> QED BY <1>6, <1>9, <1>13, <1>14, <1>15

\* Ignoring what cannot be decoded behind a text leaves the text.
LEMMA IgnoringKeeps ==
  ASSUME NEW text \in Seq(Characters), NEW x \in Seq(Bytes)
  PROVE  \E y \in Seq(Characters) : Ignoring(BytesOf(text) \o x) = text \o y
<1> DEFINE t == BytesOf(text)
           c == t \o x
           P == {i \in DOMAIN c : /\ c[i] # Cont
                                  /\ c[i] = Lead => i < Len(c) /\ c[i + 1] = Cont}
           M == [i \in DOMAIN c |-> IF i \in P THEN <<c[i]>> ELSE <<>>]
           D == [i \in DOMAIN t |-> IF i \in {j \in DOMAIN t : t[j] # Cont} THEN <<t[i]>> ELSE <<>>]
<1>1. Ignoring(c) = FlattenSeq(M) /\ TextOf(t) = FlattenSeq(D)
  BY DEF Ignoring, Kept, TextOf
<1>2. t \in Seq(Bytes) /\ IsUtf8(t) /\ TextOf(t) = text
  BY EncodingValid
<1> HIDE DEF t
<1>3. /\ c \in Seq(Bytes) /\ Len(c) = Len(t) + Len(x) /\ Len(t) \in Nat /\ Len(x) \in Nat
      /\ \A i \in 1 .. Len(t) : c[i] = t[i]
      /\ DOMAIN c = 1 .. Len(c) /\ DOMAIN t = 1 .. Len(t)
  BY <1>2
<1> HIDE DEF c
<1>4. M \in Seq(Seq(Characters)) /\ Len(M) = Len(c)
  <2>1. ASSUME NEW i \in 1 .. Len(c) PROVE M[i] \in Seq(Characters)
    <3>1. M[i] = IF i \in P THEN <<c[i]>> ELSE <<>>
      BY <1>3
    <3>2. i \in P => c[i] \in Characters
      BY <1>3 DEF Characters
    <3> HIDE DEF P, M
    <3> QED BY <3>1, <3>2
  <2>2. DOMAIN M = 1 .. Len(c)
    BY <1>3
  <2>3. M \in [1 .. Len(c) -> Seq(Characters)]
    BY <2>1, <2>2
  <2>4. Len(c) \in Nat
    BY <1>3
  <2> HIDE DEF M
  <2> QED BY <2>3, <2>4, IsSeq
<1>5. ASSUME NEW i \in 1 .. Len(t) PROVE M[i] = D[i]
  <2>1. i \in 1 .. Len(c) /\ c[i] = t[i]
    BY <1>3
  <2>2. t[i] = Lead => i < Len(t) /\ t[i + 1] = Cont
    BY <1>2, Utf8At
  <2>3. i < Len(t) => i < Len(c) /\ c[i + 1] = t[i + 1]
    <3> SUFFICES ASSUME i < Len(t) PROVE i < Len(c) /\ c[i + 1] = t[i + 1]
      OBVIOUS
    <3>1. i + 1 \in 1 .. Len(t)
      BY <1>3
    <3> QED BY <1>3, <3>1
  <2>4. i \in P <=> t[i] # Cont
    BY <1>3, <2>1, <2>2, <2>3
  <2>5. M[i] = IF i \in P THEN <<c[i]>> ELSE <<>>
    BY <1>3, <2>1
  <2>6. D[i] = IF t[i] # Cont THEN <<t[i]>> ELSE <<>>
    BY <1>3
  <2> HIDE DEF M, D, P
  <2> QED BY <2>1, <2>4, <2>5, <2>6
<1> DEFINE A == SubSeq(M, 1, Len(t))
           B == SubSeq(M, Len(t) + 1, Len(M))
<1>6. /\ A \in Seq(Seq(Characters)) /\ B \in Seq(Seq(Characters)) /\ M = A \o B /\ Len(A) = Len(t)
      /\ \A i \in 1 .. Len(t) : A[i] = M[i]
  <2> HIDE DEF M
  <2>1. Len(t) \in 0 .. Len(M)
    BY <1>3, <1>4
  <2>2. \A i \in 1 .. Len(t) : A[i] = M[i]
    BY <1>4, <2>1
  <2> QED BY <1>4, <2>1, <2>2, CutInTwo
<1>7. A = D
  <2>1. DOMAIN D = 1 .. Len(t)
    BY <1>3
  <2> HIDE DEF A, D, M
  <2>2. D \in Seq(Seq(Characters)) /\ Len(D) = Len(t)
    <3>1. ASSUME NEW i \in 1 .. Len(t) PROVE D[i] \in Seq(Characters)
      <4>1. A[i] \in Seq(Characters)
        BY <1>6
      <4>2. A[i] = D[i]
        BY <1>5, <1>6
      <4> QED BY <4>1, <4>2
    <3>2. D = [i \in 1 .. Len(t) |-> D[i]]
      BY <2>1 DEF D
    <3>3. D \in [1 .. Len(t) -> Seq(Characters)]
      BY <3>1, <3>2
    <3> QED BY <1>3, <3>3, IsSeq
  <2> QED BY <1>5, <1>6, <2>2, SeqEqual
<1> HIDE DEF A, B, M, D
<1>8. FlattenSeq(M) = FlattenSeq(D) \o FlattenSeq(B)
  BY <1>6, <1>7, FlattenConcat
<1>9. FlattenSeq(B) \in Seq(Characters)
  BY <1>6, FlattenType
<1>10. Ignoring(c) = text \o FlattenSeq(B)
  BY <1>1, <1>2, <1>8
<1> QED BY <1>9, <1>10 DEF c, t

(***************************************************************************)
(* encode finds tokens that stand for the text.                            *)
(***************************************************************************)
LEMMA WalkFinds ==
  ASSUME NEW src \in Seq(Bytes), NEW i \in 1 .. Len(src)
  PROVE  /\ Walk(src, i) \in DOMAIN Vocab
         /\ Len(Vocab[Walk(src, i)]) \in 1 .. Len(src) + 1 - i
         /\ Vocab[Walk(src, i)] = SubSeq(src, i, i + Len(Vocab[Walk(src, i)]) - 1)
<1> DEFINE tokens == DOMAIN Vocab \ {0}
           nodes == UNION {{SubSeq(Vocab[t], 1, n) : n \in 1 .. Len(Vocab[t])} : t \in tokens}
           here(j) == SubSeq(src, i, j)
           passed == {j \in i .. Len(src) : \A k \in i .. j : here(k) \in DOMAIN Trie}
           ends == {j \in passed : Trie[here(j)] # 0}
<1>0. Len(src) \in Nat /\ i \in Nat
  OBVIOUS
<1>1. Trie = [node \in nodes |-> IF \E t \in tokens : Vocab[t] = node
                                 THEN 1 + CHOOSE t \in tokens : Vocab[t] = node ELSE 0]
  BY DEF Trie
<1>2. Walk(src, i) = IF ends = {} THEN 0 ELSE Trie[here(Max(ends))] - 1
  BY DEF Walk
<1>3. PICK u \in DOMAIN Vocab : Len(Vocab[u]) = 1 /\ Vocab[u][1] = src[i]
  <2>1. src[i] \in Bytes
    OBVIOUS
  <2> QED BY <2>1 DEF Bytes
<1>4. u \in tokens /\ here(i) \in nodes /\ Vocab[u] = here(i)
  <2>1. Vocab[u] \in Seq(Bytes)
    BY VocabAssumption
  <2>2. here(i) \in Seq(Bytes) /\ Len(here(i)) = 1 /\ here(i)[1] = src[i]
    BY <1>0
  <2>3. Vocab[u] = here(i)
    <3> HIDE DEF here
    <3> QED BY <1>3, <2>1, <2>2, SeqEqual
  <2>4. u # 0
    <3>1. Len(<<>>) = 0
      OBVIOUS
    <3>2. Len(Vocab[0]) = 0
      BY <3>1, VocabAssumption
    <3>3. ASSUME u = 0 PROVE FALSE
      <4>1. Len(Vocab[u]) = 0
        BY <3>2, <3>3, Zenon
      <4> QED BY <1>3, <4>1
    <3> QED BY <3>3
  <2>5. SubSeq(Vocab[u], 1, 1) = Vocab[u] /\ 1 \in 1 .. Len(Vocab[u])
    BY <1>3, <2>1, SubSeqFull
  <2> HIDE DEF here
  <2>6. u \in tokens
    BY <2>4
  <2>7. here(i) \in {SubSeq(Vocab[u], 1, n) : n \in 1 .. Len(Vocab[u])}
    BY <2>3, <2>5
  <2> QED BY <2>3, <2>6, <2>7
<1>5. ASSUME NEW node \in nodes, Trie[node] # 0
      PROVE  Trie[node] - 1 \in tokens /\ Vocab[Trie[node] - 1] = node
  <2> DEFINE chosen == CHOOSE t \in tokens : Vocab[t] = node
  <2>1. \E t \in tokens : Vocab[t] = node
    BY <1>1, <1>5
  <2>2. chosen \in tokens /\ Vocab[chosen] = node
    BY <2>1
  <2>3. Trie[node] = 1 + chosen
    BY <1>1, <2>1
  <2>4. chosen \in Nat
    BY <2>2, VocabAssumption
  <2> HIDE DEF chosen, tokens
  <2>5. Trie[node] - 1 = chosen
    BY <2>3, <2>4
  <2> QED BY <2>2, <2>5
<1>6. DOMAIN Trie = nodes
  <2> HIDE DEF nodes
  <2> QED BY <1>1
<1>7. Trie[here(i)] # 0
  <2> DEFINE node == here(i)
             chosen == CHOOSE t \in tokens : Vocab[t] = node
  <2>1. node \in nodes /\ \E t \in tokens : Vocab[t] = node
    BY <1>4
  <2>2. Trie[node] = 1 + chosen /\ chosen \in tokens
    BY <1>1, <2>1
  <2>3. chosen \in Nat
    BY <2>2, VocabAssumption
  <2> HIDE DEF chosen, node
  <2>4. Trie[node] # 0
    BY <2>2, <2>3
  <2> QED BY <2>4 DEF node
<1> HIDE DEF nodes
<1>8. i \in ends
  <2>1. i \in i .. Len(src) /\ \A k \in i .. i : k = i
    BY <1>0
  <2> HIDE DEF here
  <2> QED BY <1>4, <1>6, <1>7, <2>1
<1>9. ends \in SUBSET Nat /\ \A j \in ends : j <= Len(src)
  <2> HIDE DEF here
  <2> QED BY <1>0
<1> DEFINE j == Max(ends)
<1>10. j \in ends
  <2> HIDE DEF ends
  <2> QED BY <1>0, <1>8, <1>9, MaxIs
<1>11. j \in i .. Len(src) /\ here(j) \in nodes /\ Trie[here(j)] # 0
  <2> HIDE DEF here, j
  <2>1. j \in i .. j
    BY <1>0, <1>10
  <2> QED BY <1>6, <1>10, <2>1
<1>12. Walk(src, i) = Trie[here(j)] - 1
  <2> HIDE DEF here
  <2>1. ends # {}
    BY <1>8
  <2> HIDE DEF ends
  <2> QED BY <1>2, <2>1
<1> HIDE DEF j, ends
<1>13. Walk(src, i) \in tokens /\ Vocab[Walk(src, i)] = here(j)
  <2> HIDE DEF here, tokens
  <2> QED BY <1>5, <1>11, <1>12
<1>14. Len(here(j)) = j - i + 1
  BY <1>0, <1>11
<1>15. Len(Vocab[Walk(src, i)]) = j - i + 1
  <2> HIDE DEF here
  <2> QED BY <1>13, <1>14
<1>16. i + (j - i + 1) - 1 = j /\ j - i + 1 \in 1 .. Len(src) + 1 - i
  BY <1>0, <1>11
<1>17. Walk(src, i) \in DOMAIN Vocab /\ Vocab[Walk(src, i)] = SubSeq(src, i, j)
  BY <1>13
<1> QED BY <1>15, <1>16, <1>17

\* A recursion from the end of an interval down.
Descends(low, high, w, l, f) ==
  f = [i \in low .. high + 1 |-> IF i > high THEN <<>> ELSE Glue(<<w[i]>>, f[i + l[i]])]

LEMMA DescendExists ==
  ASSUME NEW high \in Nat, NEW w, NEW l,
         \A i \in 1 .. high : l[i] \in 1 .. high + 1 - i
  PROVE  \E f : Descends(1, high, w, l, f)
<1> DEFINE Good == {n \in 0 .. high : \E f : Descends(high + 1 - n, high, w, l, f)}
<1>1. 0 \in Good
  <2> DEFINE f == [i \in high + 1 .. high + 1 |-> <<>>]
  <2>1. f = [i \in high + 1 .. high + 1 |-> IF i > high THEN <<>> ELSE Glue(<<w[i]>>, f[i + l[i]])]
    OBVIOUS
  <2> HIDE DEF f
  <2>2. Descends(high + 1, high, w, l, f) /\ high + 1 - 0 = high + 1
    BY <2>1 DEF Descends
  <2> QED BY <2>2
<1>2. ASSUME NEW n \in 0 .. high, n + 1 <= high, n \in Good PROVE n + 1 \in Good
  <2> DEFINE a == high + 1 - n
             b == high + 1 - (n + 1)
  <2>0. a \in 1 .. high + 1 /\ b = a - 1 /\ b \in 1 .. high
    BY <1>2
  <2>1. PICK g : Descends(a, high, w, l, g)
    BY <1>2
  <2> HIDE DEF a, b
  <2> DEFINE f == [i \in b .. high + 1 |-> IF i = b THEN Glue(<<w[i]>>, g[i + l[i]]) ELSE g[i]]
             h == [i \in b .. high + 1 |-> IF i > high THEN <<>> ELSE Glue(<<w[i]>>, f[i + l[i]])]
  <2>2. ASSUME NEW i \in b .. high + 1 PROVE f[i] = h[i]
    <3>1. CASE i = b
      <4>1. i + l[i] \in a .. high + 1 /\ i + l[i] # b /\ i + l[i] \in b .. high + 1
        BY <2>0, <3>1
      <4>2. f[i + l[i]] = g[i + l[i]]
        BY <4>1
      <4>3. ~(i > high)
        BY <2>0, <3>1
      <4> QED BY <3>1, <4>2, <4>3
    <3>2. CASE i # b /\ i <= high
      <4>1. i \in a .. high + 1 /\ i \in 1 .. high /\ ~(i > high)
        BY <2>0, <3>2
      <4>2. g[i] = Glue(<<w[i]>>, g[i + l[i]])
        BY <2>1, <4>1 DEF Descends
      <4>3. i + l[i] \in b .. high + 1 /\ i + l[i] # b
        BY <2>0, <4>1
      <4>4. f[i + l[i]] = g[i + l[i]]
        BY <4>3
      <4> QED BY <3>2, <4>2, <4>4
    <3>3. CASE i # b /\ i > high
      <4>1. i \in a .. high + 1
        BY <2>0, <3>3
      <4>2. g[i] = <<>>
        BY <2>1, <3>3, <4>1 DEF Descends
      <4> QED BY <3>3, <4>2
    <3>4. i = b \/ (i # b /\ i <= high) \/ (i # b /\ i > high)
      BY <2>0
    <3> QED BY <3>1, <3>2, <3>3, <3>4
  <2>3. f = h
    <3>1. DOMAIN f = DOMAIN h
      OBVIOUS
    <3> QED BY <2>2
  <2> HIDE DEF f
  <2>4. Descends(b, high, w, l, f)
    BY <2>3 DEF Descends
  <2>5. n + 1 \in 0 .. high
    BY <1>2
  <2> QED BY <2>4, <2>5 DEF b
<1>3. \A n \in 0 .. high : n \in Good
  <2> HIDE DEF Good
  <2> QED BY <1>1, <1>2, Induction
<1>4. high \in Good /\ high + 1 - high = 1
  BY <1>3
<1> QED BY <1>4

\* The tokens of a text stand for its bytes.
LEMMA EncodeIs ==
  ASSUME NEW text \in Seq(Characters)
  PROVE  /\ encode(text) \in Seq(Nat)
         /\ Joined(encode(text)) = BytesOf(text)
<1> DEFINE src == BytesOf(text)
           high == Len(src)
           w == [i \in 1 .. high |-> Walk(src, i)]
           l == [i \in 1 .. high |-> Len(Vocab[Walk(src, i)])]
           from == CHOOSE f : f = [i \in 1 .. Len(src) + 1 |-> IF i > Len(src) THEN <<>>
                     ELSE <<Walk(src, i)>> \o f[i + Len(Vocab[Walk(src, i)])]]
<1>1. encode(text) = from[1]
  BY DEF encode
<1>2. src \in Seq(Bytes) /\ high \in Nat
  BY EncodingValid
<1> HIDE DEF src
<1>3. ASSUME NEW i \in 1 .. high
      PROVE  /\ w[i] = Walk(src, i) /\ l[i] = Len(Vocab[Walk(src, i)])
             /\ w[i] \in Nat /\ l[i] \in 1 .. high + 1 - i /\ i + l[i] \in 1 .. high + 1
             /\ get_token_bytes(w[i]) = SubSeq(src, i, i + l[i] - 1)
  <2>1. /\ Walk(src, i) \in DOMAIN Vocab
        /\ Len(Vocab[Walk(src, i)]) \in 1 .. Len(src) + 1 - i
        /\ Vocab[Walk(src, i)] = SubSeq(src, i, i + Len(Vocab[Walk(src, i)]) - 1)
    BY <1>2, WalkFinds
  <2>2. w[i] = Walk(src, i) /\ l[i] = Len(Vocab[Walk(src, i)])
    OBVIOUS
  <2>3. Walk(src, i) \in Nat
    BY <2>1, VocabAssumption
  <2>4. get_token_bytes(Walk(src, i)) = Vocab[Walk(src, i)]
    BY <2>1 DEF get_token_bytes
  <2> HIDE DEF w, l
  <2>5. l[i] \in 1 .. high + 1 - i /\ i + l[i] \in 1 .. high + 1
    BY <1>2, <2>1, <2>2
  <2> QED BY <2>1, <2>2, <2>3, <2>4, <2>5
<1>4. from = [i \in 1 .. high + 1 |-> IF i > high THEN <<>> ELSE Glue(<<w[i]>>, from[i + l[i]])]
  <2>1. PICK f : Descends(1, high, w, l, f)
    <3> HIDE DEF w, l, high
    <3> QED BY <1>2, <1>3, DescendExists
  <2> DEFINE F(g) == [i \in 1 .. high + 1 |-> IF i > high THEN <<>>
                        ELSE <<Walk(src, i)>> \o g[i + Len(Vocab[Walk(src, i)])]]
             G(g) == [i \in 1 .. high + 1 |-> IF i > high THEN <<>> ELSE Glue(<<w[i]>>, g[i + l[i]])]
  <2>2. ASSUME NEW g PROVE F(g) = G(g)
    <3>1. ASSUME NEW i \in 1 .. high + 1, ~(i > high)
          PROVE <<Walk(src, i)>> \o g[i + Len(Vocab[Walk(src, i)])] = Glue(<<w[i]>>, g[i + l[i]])
      <4>1. i \in 1 .. high
        BY <1>2, <3>1
      <4>2. w[i] = Walk(src, i) /\ l[i] = Len(Vocab[Walk(src, i)])
        BY <1>3, <4>1
      <4> HIDE DEF w, l
      <4> QED BY <4>2 DEF Glue
    <3> HIDE DEF w, l
    <3> QED BY <3>1
  <2>3. f = F(f)
    <3>1. f = G(f)
      BY <2>1 DEF Descends
    <3> HIDE DEF F, G
    <3> QED BY <2>2, <3>1
  <2>4. from = CHOOSE g : g = F(g)
    OBVIOUS
  <2>5. from = F(from)
    <3> HIDE DEF F, from
    <3> QED BY <2>3, <2>4
  <2>6. from = G(from)
    <3> HIDE DEF F, G, from
    <3> QED BY <2>2, <2>5
  <2> QED BY <2>6
<1> HIDE DEF from, w, l
<1>5. from[high + 1] = <<>> /\ \A i \in 1 .. high : from[i] = Glue(<<w[i]>>, from[i + l[i]])
  <2>1. from[high + 1] = <<>>
    BY <1>2, <1>4
  <2>2. ASSUME NEW i \in 1 .. high PROVE from[i] = Glue(<<w[i]>>, from[i + l[i]])
    <3>1. i \in 1 .. high + 1 /\ ~(i > high)
      BY <1>2
    <3> QED BY <1>4, <3>1
  <2> QED BY <2>1, <2>2
<1> DEFINE Fine(i) == from[i] \in Seq(Nat) /\ Joined(from[i]) = SubSeq(src, i, high)
           Good == {n \in 0 .. high : \A i \in high + 1 - n .. high + 1 : Fine(i)}
<1>6. 0 \in Good
  <2>1. Fine(high + 1)
    <3>1. SubSeq(src, high + 1, high) = <<>>
      BY <1>2, SubSeqEmpty
    <3>2. <<>> \in Seq(Nat)
      OBVIOUS
    <3> QED BY <1>5, <3>1, <3>2, JoinedIs
  <2>2. \A i \in high + 1 - 0 .. high + 1 : i = high + 1
    BY <1>2
  <2> HIDE DEF Fine
  <2> QED BY <1>2, <2>1, <2>2
<1>7. ASSUME NEW n \in 0 .. high, n + 1 <= high, n \in Good PROVE n + 1 \in Good
  <2> DEFINE b == high + 1 - (n + 1)
  <2>0. b \in 1 .. high /\ b + 1 = high + 1 - n
    BY <1>2, <1>7
  <2> HIDE DEF b
  <2>1. Fine(b + l[b])
    <3>1. b + l[b] \in high + 1 - n .. high + 1
      BY <1>2, <1>3, <2>0
    <3> HIDE DEF Fine
    <3> QED BY <1>7, <3>1
  <2>2. Fine(b)
    <3>1. /\ w[b] \in Nat /\ l[b] \in 1 .. high + 1 - b /\ b + l[b] \in 1 .. high + 1
          /\ get_token_bytes(w[b]) = SubSeq(src, b, b + l[b] - 1)
          /\ from[b] = Glue(<<w[b]>>, from[b + l[b]])
      BY <1>3, <1>5, <2>0
    <3>2. from[b] \in Seq(Nat) /\ <<w[b]>> \in Seq(Nat) /\ from[b] = <<w[b]>> \o from[b + l[b]]
      BY <2>1, <3>1 DEF Glue
    <3>3. Joined(from[b]) = Joined(<<w[b]>>) \o Joined(from[b + l[b]])
      BY <2>1, <3>2, JoinedIs
    <3>4. Joined(<<w[b]>>) = SubSeq(src, b, b + l[b] - 1)
      BY <3>1, JoinedIs
    <3>5. SubSeq(src, b, b + l[b] - 1) \o SubSeq(src, (b + l[b] - 1) + 1, high) = SubSeq(src, b, high)
      <4>1. /\ b \in 1 .. high + 1 /\ b + l[b] - 1 \in b - 1 .. high /\ high \in b + l[b] - 1 .. high
        <5> DEFINE k == l[b]
        <5>1. high \in Nat /\ b \in 1 .. high /\ k \in 1 .. high + 1 - b
          BY <1>2, <2>0, <3>1
        <5> HIDE DEF high, k
        <5>2. b + k - 1 \in b - 1 .. high /\ b \in 1 .. high + 1
          BY <5>1
        <5>3. high \in b + k - 1 .. high
          BY <5>1
        <5> QED BY <5>2, <5>3 DEF k
      <4> HIDE DEF high
      <4>2. high = Len(src)
        BY DEF high
      <4> QED BY <1>2, <4>1, <4>2, ConcatAdjacentSubSeq
    <3>6. (b + l[b] - 1) + 1 = b + l[b]
      <4>1. b \in Int /\ l[b] \in Int
        BY <2>0, <3>1
      <4> QED BY <4>1
    <3> QED BY <2>1, <3>2, <3>3, <3>4, <3>5, <3>6
  <2>3. ASSUME NEW i \in b .. high + 1 PROVE Fine(i)
    <3>1. i = b \/ i \in high + 1 - n .. high + 1
      BY <2>0
    <3> HIDE DEF Fine
    <3> QED BY <1>7, <2>2, <3>1
  <2>4. n + 1 \in 0 .. high
    BY <1>2, <1>7
  <2> HIDE DEF Fine
  <2> QED BY <2>3, <2>4 DEF b
<1>8. \A n \in 0 .. high : n \in Good
  <2> HIDE DEF Good, high
  <2> QED BY <1>2, <1>6, <1>7, Induction
<1>9. Fine(1)
  <2>1. high \in Good /\ 1 \in high + 1 - high .. high + 1
    BY <1>2, <1>8
  <2> HIDE DEF Fine
  <2> QED BY <2>1
<1>10. SubSeq(src, 1, high) = src
  BY <1>2, SubSeqFull
<1> QED BY <1>1, <1>9, <1>10 DEF src

-----------------------------------------------------------------------------

(***************************************************************************)
(* The detokenizer takes a token.                                          *)
(***************************************************************************)
ParamsOK(p) ==
  /\ p.stop \in Seq(Seq(Characters) \ {<<>>})
  /\ p.include_stop \in BOOLEAN /\ p.tokenizer \in BOOLEAN /\ p.min_tokens \in Nat

Detokenizers ==
  [output_text : Seq(Characters), byte_buffer : Seq(Bytes), count : Nat, sent : Nat,
   min_offset : Nat]

LEMMA TwoInts ==
  ASSUME NEW m \in Int, NEW n \in Int
  PROVE  Max({m, n}) = IF m <= n THEN n ELSE m
<1>1. \E x \in {m, n} : \A y \in {m, n} : x >= y
  OBVIOUS
<1> QED BY <1>1 DEF Max

\* The fold over one token, or none.
Folded(d, p, s) == FoldLeft(LAMBDA acc, token : AddToken(acc, p, token), d, s)

Iterates(d, p, s, iter) ==
  iter = [S \in SUBSET DOMAIN s |-> IF S = {} THEN d
            ELSE AddToken(iter[S \ {Max(S)}], p, s[Max(S)])]

LEMMA FoldIs ==
  ASSUME NEW d, NEW p, NEW s
  PROVE  Folded(d, p, s) = (CHOOSE iter : Iterates(d, p, s, iter))[DOMAIN s]
BY DEF Folded, FoldLeft, MapThenFoldSet, Iterates

LEMMA FoldNone ==
  ASSUME NEW d, NEW p
  PROVE  Folded(d, p, <<>>) = d
<1> DEFINE s == <<>>
           it == CHOOSE iter : Iterates(d, p, s, iter)
<1>1. DOMAIN s = {}
  OBVIOUS
<1> HIDE DEF s
<1>2. \E iter : Iterates(d, p, s, iter)
  <2> DEFINE f == [S \in SUBSET DOMAIN s |-> d]
  <2>1. f = [S \in SUBSET DOMAIN s |-> IF S = {} THEN d
               ELSE AddToken(f[S \ {Max(S)}], p, s[Max(S)])]
    BY <1>1
  <2> HIDE DEF f
  <2> QED BY <2>1 DEF Iterates
<1>3. Iterates(d, p, s, it)
  BY <1>2
<1>5. Folded(d, p, s) = it[DOMAIN s]
  BY FoldIs
<1> HIDE DEF it
<1>4. it[{}] = d
  BY <1>1, <1>3 DEF Iterates
<1> QED BY <1>1, <1>4, <1>5 DEF s

LEMMA FoldOne ==
  ASSUME NEW d, NEW p, NEW t
  PROVE  Folded(d, p, <<t>>) = AddToken(d, p, t)
<1> DEFINE s == <<t>>
           it == CHOOSE iter : Iterates(d, p, s, iter)
<1>1. DOMAIN s = {1} /\ s[1] = t
  <2>1. Len(s) = 1 /\ s[1] = t /\ s \in Seq({t})
    OBVIOUS
  <2>2. DOMAIN s = 1 .. Len(s)
    BY <2>1, LenProperties
  <2> QED BY <2>1, <2>2
<1>2. Max({1}) = 1
  BY DEF Max
<1> HIDE DEF s
<1>3. {1} \ {1} = {} /\ {} \in SUBSET DOMAIN s /\ {1} \in SUBSET DOMAIN s /\ {1} # {}
  BY <1>1
<1>8. \A S \in SUBSET DOMAIN s : S = {} \/ S = {1}
  BY <1>1
<1>4. \E iter : Iterates(d, p, s, iter)
  <2> DEFINE f == [S \in SUBSET DOMAIN s |-> IF S = {} THEN d ELSE AddToken(d, p, t)]
             h == [S \in SUBSET DOMAIN s |-> IF S = {} THEN d
                     ELSE AddToken(f[S \ {Max(S)}], p, s[Max(S)])]
  <2>1. f[{}] = d
    BY <1>3
  <2>2. ASSUME NEW S \in SUBSET DOMAIN s PROVE f[S] = h[S]
    <3>1. CASE S = {}
      BY <3>1
    <3>2. CASE S = {1}
      <4>1. h[S] = AddToken(f[{}], p, t)
        BY <1>1, <1>2, <1>3, <3>2
      <4>2. f[S] = AddToken(d, p, t)
        BY <1>3, <3>2
      <4> QED BY <2>1, <4>1, <4>2
    <3> QED BY <1>8, <3>1, <3>2
  <2>3. f = h
    <3>1. DOMAIN f = DOMAIN h
      OBVIOUS
    <3> QED BY <2>2
  <2> HIDE DEF f
  <2> QED BY <2>3 DEF Iterates
<1>5. Iterates(d, p, s, it)
  BY <1>4
<1>9. Folded(d, p, s) = it[DOMAIN s]
  BY FoldIs
<1> HIDE DEF it
<1>6. it[{}] = d
  BY <1>3, <1>5 DEF Iterates
<1>7. it[{1}] = AddToken(it[{}], p, t)
  <2>1. it[{1}] = IF {1} = {} THEN d ELSE AddToken(it[{1} \ {Max({1})}], p, s[Max({1})])
    BY <1>3, <1>5 DEF Iterates
  <2> QED BY <1>1, <1>2, <1>3, <2>1
<1> QED BY <1>1, <1>6, <1>7, <1>9 DEF s

\* What update does with one token.
UpdateOne(d, p, t, f) ==
  LET leftOut == f /\ ~p.include_stop
      after == IF leftOut THEN d ELSE AddToken(d, p, t)
      new == Len(after.output_text) - Max({Len(d.output_text), after.min_offset})
      counted == [after EXCEPT !.count = @ + (IF leftOut THEN 1 ELSE 0)]
  IN  IF counted.count > p.min_tokens /\ p.tokenizer
      THEN CheckStopStrings(counted, p, new)
      ELSE [matched |-> FALSE, d |-> counted]

LEMMA UpdateIs ==
  ASSUME NEW d, NEW p, NEW t, NEW f \in BOOLEAN
  PROVE  /\ Update(d, p, <<>>, f) = [matched |-> FALSE, d |-> d]
         /\ Update(d, p, <<t>>, f) = UpdateOne(d, p, t, f)
<1>1. Update(d, p, <<>>, f) = [matched |-> FALSE, d |-> d]
  BY DEF Update
<1> DEFINE s == <<t>>
           left == f /\ ~p.include_stop
           rest == IF left THEN Front(s) ELSE s
<1>2. Front(s) = <<>> /\ s # <<>>
  BY DEF Front
<1>3. Folded(d, p, rest) = IF left THEN d ELSE AddToken(d, p, t)
  BY <1>2, FoldNone, FoldOne
<1> HIDE DEF rest, s
<1>4. Update(d, p, s, f) =
        LET after == Folded(d, p, rest)
            new == Len(after.output_text) - Max({Len(d.output_text), after.min_offset})
            counted == [after EXCEPT !.count = @ + (IF left THEN 1 ELSE 0)]
        IN  IF s = <<>> THEN [matched |-> FALSE, d |-> d]
            ELSE IF counted.count > p.min_tokens /\ p.tokenizer
            THEN CheckStopStrings(counted, p, new)
            ELSE [matched |-> FALSE, d |-> counted]
  BY DEF Update, rest, Folded, FoldLeft, MapThenFoldSet
<1> HIDE DEF left
<1> DEFINE g == Folded(d, p, rest)
<1>5. g = IF left THEN d ELSE AddToken(d, p, t)
  BY <1>3
<1> HIDE DEF g
<1> USE DEF left
<1> QED BY <1>1, <1>2, <1>4, <1>5 DEF s, g, UpdateOne

LEMMA MinOfTwo ==
  ASSUME NEW m \in Nat, NEW n \in Nat
  PROVE  Min({m, n}) = IF m <= n THEN m ELSE n
<1>1. {m, n} \in SUBSET Nat /\ {m, n} # {}
  OBVIOUS
<1>2. Min({m, n}) \in {m, n} /\ \A x \in {m, n} : Min({m, n}) <= x
  BY <1>1, MinIs
<1> QED BY <1>2

\* The text of the first n tokens.
TextOfFirst(tokens, n) == TextIn(Joined(SubSeq(tokens, 1, n)))

\* What the detokenizer has made of the tokens.
Follows(d, p, tokens) ==
  /\ d \in Detokenizers /\ d.min_offset <= Len(d.output_text)
  /\ IF p.tokenizer
     THEN /\ d.output_text = TextIn(Joined(tokens))
          /\ d.byte_buffer = RestOf(Joined(tokens))
          /\ d.min_offset = Len(TextOfFirst(tokens, Min({p.min_tokens, Len(tokens)})))
     ELSE d.output_text = <<>> /\ d.byte_buffer = <<>> /\ d.min_offset = 0

LEMMA FirstTokens ==
  ASSUME NEW tokens \in Seq(Nat), NEW t \in Nat, NEW n \in Nat
  PROVE  /\ tokens \o <<t>> \in Seq(Nat) /\ Len(tokens \o <<t>>) = Len(tokens) + 1
         /\ SubSeq(tokens \o <<t>>, 1, Len(tokens) + 1) = tokens \o <<t>>
         /\ SubSeq(tokens, 1, Len(tokens)) = tokens
         /\ n <= Len(tokens) => SubSeq(tokens \o <<t>>, 1, n) = SubSeq(tokens, 1, n)
<1>1. tokens \o <<t>> \in Seq(Nat) /\ Len(tokens \o <<t>>) = Len(tokens) + 1
  BY ConcatProperties
<1>2. \A s \in Seq(Nat) : SubSeq(s, 1, Len(s)) = s
  OBVIOUS
<1>3. ASSUME n <= Len(tokens) PROVE SubSeq(tokens \o <<t>>, 1, n) = SubSeq(tokens, 1, n)
  <2> DEFINE a == SubSeq(tokens \o <<t>>, 1, n)
             b == SubSeq(tokens, 1, n)
  <2>1. a \in Seq(Nat) /\ Len(a) = n /\ \A i \in 1 .. n : a[i] = (tokens \o <<t>>)[i]
    BY <1>1, <1>3, SubSeqProperties
  <2>2. b \in Seq(Nat) /\ Len(b) = n /\ \A i \in 1 .. n : b[i] = tokens[i]
    BY <1>3, SubSeqProperties
  <2>3. \A i \in 1 .. n : (tokens \o <<t>>)[i] = tokens[i]
    BY <1>3, ConcatProperties
  <2> HIDE DEF a, b
  <2>4. a = b
    BY <2>1, <2>2, <2>3, SeqEqual
  <2> QED BY <2>4 DEF a, b
<1> QED BY <1>1, <1>2, <1>3

\* What one more token makes of it.
FollowsOn(d, p, tokens, t, after) ==
  /\ Follows(after, p, tokens \o <<t>>)
  /\ after.count = d.count + 1 /\ after.sent = d.sent
  /\ \E more \in Seq(Characters) : after.output_text = d.output_text \o more
  /\ after.min_offset = IF p.tokenizer /\ after.count <= p.min_tokens
                        THEN Len(after.output_text) ELSE d.min_offset

LEMMA AddTokenRight ==
  ASSUME NEW p, ParamsOK(p), NEW tokens \in Seq(Nat), NEW t \in Nat,
         NEW d, Follows(d, p, tokens), d.count = Len(tokens)
  PROVE  FollowsOn(d, p, tokens, t, AddToken(d, p, t))
<1> DEFINE all == tokens \o <<t>>
           after == AddToken(d, p, t)
           before == Joined(tokens)
           new == get_token_bytes(t)
           buffer == d.byte_buffer \o new
           start == ErrorStart(buffer)
           counted == [d EXCEPT !.count = @ + 1]
           decoded == TryDecodeBuffer(counted, buffer)
<1>1. d \in Detokenizers /\ Len(tokens) \in Nat
  BY DEF Follows
<1>2. all \in Seq(Nat) /\ Len(all) = Len(tokens) + 1
  BY FirstTokens
<1>3. before \in Seq(Bytes) /\ new \in Seq(Bytes) /\ Joined(all) = before \o new
  <2>1. <<t>> \in Seq(Nat)
    OBVIOUS
  <2> QED BY <2>1, JoinedIs
<1>4. counted \in Detokenizers
  BY <1>1 DEF Detokenizers
<1>5. <<>> \in Seq(Characters) /\ \A s \in Seq(Characters) : s \o <<>> = s /\ Len(s) \in Nat
  OBVIOUS
<1>6. CASE ~p.tokenizer
  <2>1. after = counted
    BY <1>6 DEF AddToken
  <2>2. counted.output_text = d.output_text /\ counted.byte_buffer = d.byte_buffer
        /\ counted.min_offset = d.min_offset /\ counted.sent = d.sent
        /\ counted.count = d.count + 1
    BY <1>1 DEF Detokenizers
  <2>3. d.output_text = d.output_text \o <<>>
    BY <1>1, <1>5 DEF Detokenizers
  <2> HIDE DEF counted, after, all
  <2>4. Follows(after, p, all)
    BY <1>4, <1>6, <2>1, <2>2 DEF Follows
  <2> QED BY <1>5, <1>6, <2>1, <2>2, <2>3, <2>4 DEF after, all, FollowsOn
<1>7. CASE p.tokenizer
  <2>1. /\ d.output_text = TextIn(before) /\ d.byte_buffer = RestOf(before)
        /\ d.min_offset = Len(TextOfFirst(tokens, Min({p.min_tokens, Len(tokens)})))
    BY <1>7 DEF Follows
  <2>2. p.min_tokens \in Nat
    BY DEF ParamsOK
  <2>3. /\ TextIn(before \o new) \in Seq(Characters) /\ RestOf(before \o new) \in Seq(Bytes)
        /\ TextIn(before \o new) = TextIn(before) \o TextIn(buffer)
        /\ RestOf(before \o new) = RestOf(buffer)
        /\ TextIn(before) \in Seq(Characters) /\ RestOf(before) \in Seq(Bytes)
        /\ buffer \in Seq(Bytes)
    <3>1. before \o new \in Seq(Bytes)
      BY <1>3
    <3>2. RestOf(before) \in Seq(Bytes)
      BY <1>3, DecodeMore
    <3>3. d.byte_buffer \in Seq(Bytes)
      BY <2>1, <3>2
    <3> HIDE DEF before, new
    <3>4. buffer \in Seq(Bytes)
      BY <1>3, <3>3
    <3>5. TextIn(before \o new) \in Seq(Characters) /\ RestOf(before \o new) \in Seq(Bytes)
      BY <3>1, <1>3, DecodeMore
    <3>6. /\ TextIn(before \o new) = TextIn(before) \o TextIn(RestOf(before) \o new)
          /\ RestOf(before \o new) = RestOf(RestOf(before) \o new)
          /\ TextIn(before) \in Seq(Characters)
      BY <1>3, DecodeMore
    <3> QED BY <2>1, <3>2, <3>4, <3>5, <3>6
  <2>4. TextIn(buffer) \in Seq(Characters)
    BY <2>3, DecodeMore
  \* The token's text is added, a special token's too: it has no bytes.
  <2>5. /\ after.output_text = TextIn(Joined(all)) /\ after.byte_buffer = RestOf(Joined(all))
        /\ after.count = d.count + 1 /\ after.sent = d.sent /\ after \in Detokenizers
        /\ after.output_text = d.output_text \o TextIn(buffer)
        /\ after.min_offset = IF after.count <= p.min_tokens THEN Len(after.output_text)
                              ELSE d.min_offset
    <3>1. CASE is_special(t)
      <4>1. new = <<>>
        BY <3>1, VocabAssumption DEF is_special, get_token_bytes
      <4>2. before \o new = before
        BY <1>3, <4>1
      <4>3. after = counted
        BY <3>1 DEF AddToken
      <4>4. counted.output_text = d.output_text /\ counted.byte_buffer = d.byte_buffer
            /\ counted.min_offset = d.min_offset /\ counted.sent = d.sent
            /\ counted.count = d.count + 1
        BY <1>1 DEF Detokenizers
      <4>5. ASSUME d.count + 1 <= p.min_tokens PROVE d.min_offset = Len(d.output_text)
        <5>1. Min({p.min_tokens, Len(tokens)}) = Len(tokens)
          <6>1. Len(tokens) <= p.min_tokens
            BY <1>1, <2>2, <4>5
          <6> QED BY <1>1, <2>2, <6>1, MinOfTwo
        <5>2. SubSeq(tokens, 1, Len(tokens)) = tokens
          BY FirstTokens
        <5> QED BY <2>1, <5>1, <5>2 DEF TextOfFirst
      <4> HIDE DEF counted, after, before, new, all, buffer
      <4> QED BY <1>3, <1>4, <2>1, <2>3, <4>2, <4>3, <4>4, <4>5
    <3>2. CASE ~is_special(t)
      <4>1. after = IF decoded.count <= p.min_tokens
                    THEN [decoded EXCEPT !.min_offset = Len(decoded.output_text)] ELSE decoded
        BY <1>7, <3>2 DEF AddToken
      <4>2. decoded = [counted EXCEPT !.output_text = @ \o TextIn(buffer),
                                      !.byte_buffer = RestOf(buffer)]
        BY DEF TryDecodeBuffer, TextIn, RestOf
      <4>3. counted.output_text = d.output_text /\ counted.byte_buffer = d.byte_buffer
            /\ counted.min_offset = d.min_offset /\ counted.sent = d.sent
            /\ counted.count = d.count + 1
        BY <1>1 DEF Detokenizers
      <4>4. RestOf(buffer) \in Seq(Bytes)
        BY <2>3, DecodeMore
      <4>5. d.output_text \o TextIn(buffer) \in Seq(Characters)
            /\ Len(d.output_text \o TextIn(buffer)) \in Nat
        <5>1. \A x, y \in Seq(Characters) : x \o y \in Seq(Characters) /\ Len(x \o y) \in Nat
          OBVIOUS
        <5>2. d.output_text \in Seq(Characters)
          BY <1>1 DEF Detokenizers
        <5> QED BY <2>4, <5>1, <5>2
      <4> HIDE DEF counted, buffer, decoded, after
      <4>6. /\ decoded.output_text = d.output_text \o TextIn(buffer)
            /\ decoded.byte_buffer = RestOf(buffer) /\ decoded.count = d.count + 1
            /\ decoded.sent = d.sent /\ decoded.min_offset = d.min_offset
            /\ decoded \in Detokenizers
        BY <1>4, <2>4, <4>2, <4>3, <4>4, <4>5 DEF Detokenizers
      <4>7. /\ after.output_text = decoded.output_text /\ after.byte_buffer = decoded.byte_buffer
            /\ after.count = decoded.count /\ after.sent = decoded.sent
            /\ after \in Detokenizers
            /\ after.min_offset = IF decoded.count <= p.min_tokens
                                  THEN Len(decoded.output_text) ELSE decoded.min_offset
        <5>1. Len(decoded.output_text) \in Nat
          BY <4>5, <4>6
        <5> HIDE DEF decoded
        <5> QED BY <4>1, <4>6, <5>1 DEF Detokenizers
      <4> QED BY <1>3, <2>1, <2>3, <4>6, <4>7
    <3> QED BY <3>1, <3>2
  <2>6. after.min_offset = Len(TextOfFirst(all, Min({p.min_tokens, Len(all)})))
    <3>1. CASE Len(tokens) + 1 <= p.min_tokens
      <4>1. Min({p.min_tokens, Len(all)}) = Len(tokens) + 1
        BY <1>1, <1>2, <2>2, <3>1, MinOfTwo
      <4>2. SubSeq(all, 1, Len(tokens) + 1) = all
        BY FirstTokens
      <4> HIDE DEF all
      <4> QED BY <2>5, <3>1, <4>1, <4>2 DEF TextOfFirst
    <3>2. CASE ~(Len(tokens) + 1 <= p.min_tokens)
      <4>1. p.min_tokens <= Len(tokens) /\ p.min_tokens <= Len(tokens) + 1
        BY <1>1, <2>2, <3>2
      <4>2. Len(all) \in Nat
        BY <1>2
      <4>3. Min({p.min_tokens, Len(all)}) = p.min_tokens
            /\ Min({p.min_tokens, Len(tokens)}) = p.min_tokens
        BY <1>1, <1>2, <2>2, <4>1, <4>2, MinOfTwo
      <4>4. SubSeq(all, 1, p.min_tokens) = SubSeq(tokens, 1, p.min_tokens)
        BY <2>2, <4>1, FirstTokens
      <4> HIDE DEF all
      <4> QED BY <2>1, <2>5, <3>2, <4>3, <4>4 DEF TextOfFirst
    <3> QED BY <3>1, <3>2
  <2>7. after.min_offset <= Len(after.output_text)
    <3>1. d.min_offset <= Len(d.output_text)
      BY DEF Follows
    <3>2. d.output_text \in Seq(Characters) /\ after.output_text \in Seq(Characters)
          /\ d.min_offset \in Nat
      BY <1>1, <2>5 DEF Detokenizers
    <3>3. Len(d.output_text) <= Len(d.output_text \o TextIn(buffer))
      <4>1. \A x, y \in Seq(Characters) : Len(x) <= Len(x \o y)
        OBVIOUS
      <4> QED BY <2>4, <3>2, <4>1
    <3>4. Len(d.output_text) \in Nat /\ Len(after.output_text) \in Nat
      BY <3>2
    <3> HIDE DEF after, buffer
    <3> QED BY <2>5, <3>1, <3>2, <3>3, <3>4
  <2> HIDE DEF after, all, before, buffer
  <2>8. Follows(after, p, all)
    BY <1>7, <2>5, <2>6, <2>7 DEF Follows
  <2> QED BY <1>7, <2>4, <2>5, <2>8 DEF after, all, FollowsOn
<1> QED BY <1>6, <1>7 DEF after

(***************************************************************************)
(* The search for stop strings.                                            *)
(***************************************************************************)
\* The places of a stop string that ends behind a place of the text.
StopsBehind(text, stop, from) == {i \in Places(text, stop, 0) : i + Len(stop) > from}

NoStops(d, p) ==
  \A k \in DOMAIN p.stop : StopsBehind(d.output_text, p.stop[k], d.min_offset) = {}

LEMMA SamePart ==
  ASSUME NEW a \in Seq(Characters), NEW b \in Seq(Characters),
         NEW i \in Nat, NEW n \in Nat, i + n <= Len(a)
  PROVE  SubSeq(a \o b, i + 1, i + n) = SubSeq(a, i + 1, i + n)
<1> DEFINE x == SubSeq(a \o b, i + 1, i + n)
           y == SubSeq(a, i + 1, i + n)
<1>1. a \o b \in Seq(Characters) /\ Len(a \o b) = Len(a) + Len(b)
      /\ Len(a) \in Nat /\ Len(b) \in Nat
      /\ \A j \in 1 .. Len(a) : (a \o b)[j] = a[j]
  BY ConcatProperties
<1>2. x \in Seq(Characters) /\ Len(x) = n /\ \A j \in 1 .. n : x[j] = (a \o b)[i + j]
  <2> DEFINE w == a \o b
  <2>1. w \in Seq(Characters) /\ i + n <= Len(w) /\ Len(w) \in Nat
    BY <1>1
  <2> HIDE DEF w
  <2>2. \A j \in i + 1 .. i + n : j \in DOMAIN w
    BY <2>1
  <2> SUFFICES SubSeq(w, i + 1, i + n) \in Seq(Characters)
               /\ Len(SubSeq(w, i + 1, i + n)) = n
               /\ \A j \in 1 .. n : SubSeq(w, i + 1, i + n)[j] = w[i + j]
    BY DEF w
  <2> QED BY <2>1, <2>2
<1>3. y \in Seq(Characters) /\ Len(y) = n /\ \A j \in 1 .. n : y[j] = a[i + j]
  <2>2. \A j \in i + 1 .. i + n : j \in DOMAIN a
    BY <1>1
  <2> QED BY <1>1, <2>2
<1>4. \A j \in 1 .. n : i + j \in 1 .. Len(a)
  BY <1>1
<1> HIDE DEF x, y
<1>5. x = y
  BY <1>1, <1>2, <1>3, <1>4, SeqEqual
<1> QED BY <1>5 DEF x, y

LEMMA PlacesOfMore ==
  ASSUME NEW a \in Seq(Characters), NEW b \in Seq(Characters), NEW stop \in Seq(Characters),
         NEW i \in Int, i + Len(stop) <= Len(a)
  PROVE  i \in Places(a \o b, stop, 0) <=> i \in Places(a, stop, 0)
<1>1. Len(a \o b) = Len(a) + Len(b) /\ Len(a) \in Nat /\ Len(b) \in Nat /\ Len(stop) \in Nat
  OBVIOUS
<1>2. CASE i >= 0
  <2>1. SubSeq(a \o b, i + 1, i + Len(stop)) = SubSeq(a, i + 1, i + Len(stop))
    BY <1>1, <1>2, SamePart
  <2> QED BY <1>1, <1>2, <2>1 DEF Places
<1>3. CASE i < 0
  BY <1>3 DEF Places
<1> QED BY <1>2, <1>3

\* The last characters, with as many before them as a stop string that ends among them can
\* have there, are enough to search.
LEMMA SearchIsWhole ==
  ASSUME NEW a \in Seq(Characters), NEW b \in Seq(Characters),
         NEW stop \in Seq(Characters), NEW from \in Nat, from <= Len(a),
         StopsBehind(a, stop, from) = {}
  PROVE  /\ StopsBehind(a \o b, stop, from)
              = Places(a \o b, stop, Max({0, Len(a \o b) - Len(b) - Len(stop) + 1}))
         /\ \A i \in StopsBehind(a \o b, stop, from) : i + Len(stop) > Len(a)
<1> DEFINE text == a \o b
           low == Max({0, Len(text) - Len(b) - Len(stop) + 1})
<1>1. Len(text) = Len(a) + Len(b) /\ Len(a) \in Nat /\ Len(b) \in Nat /\ Len(stop) \in Nat
      /\ Len(text) \in Nat
  OBVIOUS
<1>2. low = IF 0 <= Len(a) - Len(stop) + 1 THEN Len(a) - Len(stop) + 1 ELSE 0
  <2>1. Len(text) - Len(b) - Len(stop) + 1 = Len(a) - Len(stop) + 1
        /\ Len(a) - Len(stop) + 1 \in Int
    BY <1>1
  <2> HIDE DEF text
  <2> QED BY <2>1, TwoInts
<1>3. ASSUME NEW i \in StopsBehind(text, stop, from) PROVE i + Len(stop) > Len(a) /\ i \in Nat
  <2>1. i \in Places(text, stop, 0) /\ i + Len(stop) > from
    BY DEF StopsBehind
  <2>2. i \in 0 .. Len(text) - Len(stop)
    BY <2>1 DEF Places
  <2>3. i \in Int /\ i >= 0
    BY <1>1, <2>2
  <2>4. ~(i + Len(stop) <= Len(a))
    <3> SUFFICES ASSUME i + Len(stop) <= Len(a) PROVE FALSE
      OBVIOUS
    <3>1. i \in Places(a, stop, 0)
      BY <2>1, <2>3, PlacesOfMore
    <3> QED BY <2>1, <3>1 DEF StopsBehind
  <2> QED BY <1>1, <2>3, <2>4
<1>4. ASSUME NEW i \in StopsBehind(text, stop, from) PROVE i \in Places(text, stop, low)
  <2>1. i \in Places(text, stop, 0)
    BY DEF StopsBehind
  <2>2. i \in 0 .. Len(text) - Len(stop) /\ SubSeq(text, i + 1, i + Len(stop)) = stop
    BY <2>1 DEF Places
  <2>3. i >= low /\ low \in Nat /\ i \in Nat
    BY <1>1, <1>2, <1>3
  <2>4. i \in low .. Len(text) - Len(stop)
    <3> HIDE DEF low, text
    <3> QED BY <1>1, <2>2, <2>3
  <2> QED BY <2>2, <2>4 DEF Places
<1>5. ASSUME NEW i \in Places(text, stop, low) PROVE i \in StopsBehind(text, stop, from)
  <2>1. i \in low .. Len(text) - Len(stop) /\ SubSeq(text, i + 1, i + Len(stop)) = stop
    BY DEF Places
  <2> HIDE DEF text
  <2>2. low \in Nat /\ low + Len(stop) > Len(a)
    BY <1>1, <1>2
  <2>3. i \in Int /\ i >= low
    BY <2>1, <2>2
  <2>4. i \in 0 .. Len(text) - Len(stop) /\ i + Len(stop) > from
    <3> HIDE DEF low
    <3> QED BY <1>1, <2>1, <2>2, <2>3
  <2> QED BY <2>1, <2>4 DEF Places, StopsBehind
<1> HIDE DEF text, low
<1>6. StopsBehind(text, stop, from) = Places(text, stop, low)
  BY <1>4, <1>5
<1> QED BY <1>3, <1>6 DEF text, low

LEMMA FirstFoundIs ==
  ASSUME NEW ks \in SUBSET Nat, ks # {}
  PROVE  FirstFound(ks) \in ks
<1>1. \E k \in ks : \A other \in ks : k <= other
  BY NatMin
<1> QED BY <1>1 DEF FirstFound

LEMMA BoundOf ==
  ASSUME NEW high \in Nat, NEW g, \A j \in 1 .. high : g[j] \in Nat
  PROVE  \E bound \in Nat : \A j \in 1 .. high : g[j] <= bound
<1> DEFINE Bounded(i) == \E bound \in Nat : \A j \in 1 .. i : g[j] <= bound
           Good == {i \in 0 .. high : Bounded(i)}
<1>1. 0 \in Good
  OBVIOUS
<1>2. ASSUME NEW i \in 0 .. high, i + 1 <= high, i \in Good PROVE i + 1 \in Good
  <2>1. PICK bound \in Nat : \A j \in 1 .. i : g[j] <= bound
    BY <1>2
  <2>2. g[i + 1] \in Nat
    BY <1>2
  <2>3. bound + g[i + 1] \in Nat
    BY <2>2
  <2>4. ASSUME NEW j \in 1 .. i + 1 PROVE g[j] <= bound + g[i + 1]
    <3>1. CASE j = i + 1
      BY <2>2, <3>1
    <3>2. CASE j # i + 1
      <4>1. j \in 1 .. i /\ j \in 1 .. high
        BY <1>2, <3>2
      <4>2. g[j] <= bound /\ g[j] \in Nat
        BY <2>1, <4>1
      <4> QED BY <2>2, <4>2
    <3> QED BY <3>1, <3>2
  <2>5. Bounded(i + 1)
    BY <2>3, <2>4
  <2> QED BY <1>2, <2>5
<1> HIDE DEF Good
<1>3. \A i \in 0 .. high : i \in Good
  BY <1>1, <1>2, Induction
<1>4. high \in Good
  BY <1>3
<1> QED BY <1>4 DEF Good

LEMMA LargestIs ==
  ASSUME NEW p, ParamsOK(p), NEW g, \A k \in DOMAIN p.stop : g[k] \in Nat
  PROVE  LET lengths == {g[k] : k \in DOMAIN p.stop} IN
         Largest(lengths) \in Nat /\ \A k \in DOMAIN p.stop : g[k] <= Largest(lengths)
<1> DEFINE lengths == {g[k] : k \in DOMAIN p.stop}
<1>1. DOMAIN p.stop = 1 .. Len(p.stop) /\ Len(p.stop) \in Nat
  BY DEF ParamsOK
<1>2. PICK bound \in Nat : \A k \in DOMAIN p.stop : g[k] <= bound
  BY <1>1, BoundOf
<1>3. lengths \in SUBSET Nat /\ \A x \in lengths : x <= bound
  BY <1>2
<1>4. CASE lengths = {}
  BY <1>4 DEF Largest
<1>5. CASE lengths # {}
  <2> HIDE DEF lengths
  <2>1. Max(lengths) \in lengths /\ \A x \in lengths : x <= Max(lengths)
    BY <1>3, <1>5, MaxIs
  <2> QED BY <1>3, <1>5, <2>1 DEF Largest, lengths
<1> QED BY <1>4, <1>5

\* The longest stop string, in characters and in bytes.
LEMMA MaxStopIs ==
  ASSUME NEW p, ParamsOK(p)
  PROVE  /\ MaxStop(p) \in Nat /\ MaxStopBytes(p) \in Nat
         /\ \A k \in DOMAIN p.stop : Len(p.stop[k]) \in Nat \ {0} /\ Len(p.stop[k]) <= MaxStop(p)
<1> DEFINE g == [k \in DOMAIN p.stop |-> Len(p.stop[k])]
           h == [k \in DOMAIN p.stop |-> Len(BytesOf(p.stop[k]))]
<1>1. ASSUME NEW k \in DOMAIN p.stop
      PROVE  Len(p.stop[k]) \in Nat \ {0} /\ Len(BytesOf(p.stop[k])) \in Nat
  <2>1. p.stop[k] \in Seq(Characters) /\ p.stop[k] # <<>>
    BY DEF ParamsOK
  <2>2. BytesOf(p.stop[k]) \in Seq(Bytes)
    BY <2>1, EncodingValid
  <2> QED BY <2>1, <2>2
<1>2. \A k \in DOMAIN p.stop : g[k] \in Nat /\ h[k] \in Nat
  BY <1>1
<1>3. /\ {Len(p.stop[k]) : k \in DOMAIN p.stop} = {g[k] : k \in DOMAIN p.stop}
      /\ {Len(BytesOf(p.stop[k])) : k \in DOMAIN p.stop} = {h[k] : k \in DOMAIN p.stop}
  OBVIOUS
<1>4. \A k \in DOMAIN p.stop : g[k] = Len(p.stop[k])
  OBVIOUS
<1> HIDE DEF g, h
<1>5. /\ Largest({g[k] : k \in DOMAIN p.stop}) \in Nat
      /\ \A k \in DOMAIN p.stop : g[k] <= Largest({g[j] : j \in DOMAIN p.stop})
  BY <1>2, LargestIs
<1>6. Largest({h[k] : k \in DOMAIN p.stop}) \in Nat
  BY <1>2, LargestIs
<1> QED BY <1>1, <1>3, <1>4, <1>5, <1>6 DEF MaxStop, MaxStopBytes

\* How much of a text stays when a stop string is found at a place.
CutAt(p, k, place) == place + (IF p.include_stop THEN Len(p.stop[k]) ELSE 0)

\* The text is cut where a stop string is found in it, the first place it has behind from.
CutInText(d, p, old, after) ==
  \E k \in DOMAIN p.stop :
    LET behind == StopsBehind(d.output_text, p.stop[k], d.min_offset) IN
    /\ behind # {} /\ Min(behind) + Len(p.stop[k]) > Len(old)
    /\ after = [d EXCEPT !.output_text = SubSeq(@, 1, CutAt(p, k, Min(behind)))]

\* The text is cut behind its end: the stop string is found in bytes that cannot be decoded.
CutInBytes(d, after) ==
  /\ d.byte_buffer # <<>> /\ d.byte_buffer # <<Lead>>
  /\ \E more \in Seq(Characters) :
       after = [d EXCEPT !.output_text = @ \o more, !.byte_buffer = <<>>]

LEMMA FoundInText ==
  ASSUME NEW p, ParamsOK(p), NEW d \in Detokenizers,
         NEW old \in Seq(Characters), NEW more \in Seq(Characters),
         d.output_text = old \o more, d.min_offset <= Len(old),
         \A k \in DOMAIN p.stop : StopsBehind(old, p.stop[k], d.min_offset) = {}
  PROVE  LET inText == {k \in DOMAIN p.stop : Len(more) > 0 /\ TextPlaces(d, p, k, Len(more)) # {}}
         IN  /\ inText = {} => NoStops(d, p)
             /\ \A k \in inText :
                  /\ TextPlaces(d, p, k, Len(more))
                       = StopsBehind(d.output_text, p.stop[k], d.min_offset)
                  /\ \A i \in TextPlaces(d, p, k, Len(more)) :
                       i \in Nat /\ i + Len(p.stop[k]) > Len(old)
<1> DEFINE inText == {k \in DOMAIN p.stop : Len(more) > 0 /\ TextPlaces(d, p, k, Len(more)) # {}}
<1>1. d.min_offset \in Nat
  BY DEF Detokenizers
<1>2. ASSUME NEW k \in DOMAIN p.stop
      PROVE  /\ TextPlaces(d, p, k, Len(more))
                  = StopsBehind(d.output_text, p.stop[k], d.min_offset)
             /\ \A i \in StopsBehind(d.output_text, p.stop[k], d.min_offset) :
                  i + Len(p.stop[k]) > Len(old)
  <2>1. p.stop[k] \in Seq(Characters)
    BY DEF ParamsOK
  <2>2. StopsBehind(old, p.stop[k], d.min_offset) = {}
    OBVIOUS
  <2> DEFINE stop == p.stop[k]
             from == d.min_offset
  <2>3. stop \in Seq(Characters) /\ from \in Nat /\ from <= Len(old)
        /\ StopsBehind(old, stop, from) = {}
    BY <1>1, <2>1, <2>2
  <2>4. TextPlaces(d, p, k, Len(more))
          = Places(old \o more, stop, Max({0, Len(old \o more) - Len(more) - Len(stop) + 1}))
    BY DEF TextPlaces
  <2> HIDE DEF stop, from
  <2>5. /\ StopsBehind(old \o more, stop, from)
             = Places(old \o more, stop, Max({0, Len(old \o more) - Len(more) - Len(stop) + 1}))
        /\ \A i \in StopsBehind(old \o more, stop, from) : i + Len(stop) > Len(old)
    BY <2>3, SearchIsWhole
  <2> QED BY <2>4, <2>5 DEF stop, from
<1>3. ASSUME inText = {} PROVE NoStops(d, p)
  <2> SUFFICES ASSUME NEW k \in DOMAIN p.stop
               PROVE  StopsBehind(d.output_text, p.stop[k], d.min_offset) = {}
    BY DEF NoStops
  <2>1. CASE Len(more) > 0
    BY <1>2, <1>3, <2>1
  <2>2. CASE ~(Len(more) > 0)
    <3>1. more = <<>>
      BY <2>2
    <3>2. d.output_text = old
      BY <3>1
    <3> QED BY <3>2
  <2> QED BY <2>1, <2>2
<1>4. ASSUME NEW k \in DOMAIN p.stop, NEW i \in StopsBehind(d.output_text, p.stop[k], d.min_offset)
      PROVE  i \in Nat
  <2>1. i \in 0 .. Len(d.output_text) - Len(p.stop[k])
    BY DEF StopsBehind, Places
  <2>2. Len(d.output_text) - Len(p.stop[k]) \in Int
    <3>1. d.output_text \in Seq(Characters) /\ p.stop[k] \in Seq(Characters)
      BY DEF Detokenizers, ParamsOK
    <3> QED BY <3>1
  <2> QED BY <2>1, <2>2
<1> HIDE DEF NoStops
<1> QED BY <1>2, <1>3, <1>4

\* What is behind the text, up to there, has more characters for it.
EndsInBytes(d, p, k, place) ==
  /\ d.byte_buffer # <<Lead>>
  /\ \A n \in {0, Len(BytesOf(p.stop[k]))} :
       \E more \in Seq(Characters) :
         Ignoring(SubSeq(FullBytes(d), 1, place + n)) = d.output_text \o more

LEMMA FoundInBytes ==
  ASSUME NEW p, ParamsOK(p), NEW d \in Detokenizers, ErrorStart(d.byte_buffer) = 0,
         d.min_offset <= Len(d.output_text), NoStops(d, p), d.byte_buffer # <<>>,
         NEW k \in DOMAIN p.stop, NEW place \in BytePlaces(d, p, k)
  PROVE  EndsInBytes(d, p, k, place)
<1> DEFINE text == d.output_text
           r == d.byte_buffer
           stop == p.stop[k]
           from == d.min_offset
           t == BytesOf(text)
           b == BytesOf(stop)
           full == t \o r
           base == Len(BytesOf(SubSeq(text, 1, from)))
           other == Len(full) - Len(b) - MaxStopBytes(p)
<1>1. /\ text \in Seq(Characters) /\ r \in Seq(Bytes) /\ from \in Nat
      /\ Len(text) \in Nat /\ from \in 0 .. Len(text) /\ r # <<>>
  <2>1. text \in Seq(Characters) /\ r \in Seq(Bytes) /\ from \in Nat /\ r # <<>>
    BY DEF Detokenizers
  <2> QED BY <2>1
<1>2. stop \in Seq(Characters) /\ stop # <<>> /\ Len(stop) \in Nat \ {0}
  <2>1. stop \in Seq(Characters) /\ stop # <<>>
    BY DEF ParamsOK
  <2> HIDE DEF stop
  <2> QED BY <2>1
<1>3. place \in Places(full, b, Max({base, other}))
  BY DEF BytePlaces, FullBytes
<1>4. StopsBehind(text, stop, from) = {} /\ ErrorStart(r) = 0
  BY DEF NoStops
<1> HIDE DEF text, r, stop, from
<1>5. /\ t \in Seq(Bytes) /\ b \in Seq(Bytes) /\ Len(b) >= Len(stop)
      /\ Len(t) \in Nat /\ Len(b) \in Nat \ {0} /\ Len(r) \in Nat
  <2>1. t \in Seq(Bytes) /\ b \in Seq(Bytes) /\ Len(b) >= Len(stop)
    BY <1>1, <1>2, EncodingValid
  <2> HIDE DEF t, b
  <2> QED BY <1>1, <1>2, <2>1
<1>6. full \in Seq(Bytes) /\ Len(full) = Len(t) + Len(r)
  <2> HIDE DEF t
  <2> QED BY <1>1, <1>5
<1>7. base \in Nat
  BY <1>1, TextCut
<1>8. place \in Nat /\ place >= base /\ place + Len(b) <= Len(full)
      /\ SubSeq(full, place + 1, place + Len(b)) = b
  <2>1. place \in Max({base, other}) .. Len(full) - Len(b)
        /\ SubSeq(full, place + 1, place + Len(b)) = b
    BY <1>3 DEF Places
  <2> HIDE DEF base, full, b
  <2>2. MaxStopBytes(p) \in Int
    BY MaxStopIs
  <2>3. Len(full) \in Int /\ Len(b) \in Int
    BY <1>5, <1>6
  <2>4. other \in Int
    BY <2>2, <2>3
  <2> HIDE DEF other
  <2>5. Max({base, other}) = IF base <= other THEN other ELSE base
    BY <1>7, <2>4, TwoInts
  <2> QED BY <1>7, <2>1, <2>3, <2>4, <2>5
\* The place is in the bytes that follow the text: the text has no stop string.
<1>9. place > Len(t)
  <2>1. \/ place > Len(t)
        \/ \E j \in 0 .. Len(text) - Len(stop) :
             /\ place = Len(BytesOf(SubSeq(text, 1, j)))
             /\ SubSeq(text, j + 1, j + Len(stop)) = stop
    <3> HIDE DEF base, other
    <3>1. place \in Nat /\ place + Len(BytesOf(stop)) <= Len(BytesOf(text) \o r)
      BY <1>8
    <3>2. SubSeq(BytesOf(text) \o r, place + 1, place + Len(BytesOf(stop))) = BytesOf(stop)
      BY <1>8
    <3>3. text \in Seq(Characters) /\ stop \in Seq(Characters) /\ stop # <<>>
          /\ r \in Seq(Bytes) /\ r # <<>> /\ ErrorStart(r) = 0
      BY <1>1, <1>2, <1>4
    <3> QED BY <3>1, <3>2, <3>3, ByteMatch
  <2> SUFFICES ASSUME NEW j \in 0 .. Len(text) - Len(stop),
                      place = Len(BytesOf(SubSeq(text, 1, j))),
                      SubSeq(text, j + 1, j + Len(stop)) = stop
               PROVE  FALSE
    BY <2>1
  <2>2. j \in Places(text, stop, 0)
    BY DEF Places
  <2>3. ~(j + Len(stop) > from)
    BY <1>4, <2>2 DEF StopsBehind
  <2>4. j \in 0 .. Len(text) /\ j < from
    BY <1>1, <1>2, <2>3
  <2>5. place < base
    BY <1>1, <2>4, LongerBytes
  <2> HIDE DEF base
  <2> QED BY <1>7, <1>8, <2>5
<1>10. r # <<Lead>>
  <2>1. Len(r) >= 2
    <3> HIDE DEF t, b, full
    <3> QED BY <1>5, <1>6, <1>8, <1>9
  <2> QED BY <2>1
<1>11. ASSUME NEW n \in {0, Len(b)}
       PROVE  \E more \in Seq(Characters) : Ignoring(SubSeq(full, 1, place + n)) = text \o more
  <2> DEFINE m == place + n - Len(t)
  <2>1. m \in 0 .. Len(r) /\ place + n = Len(t) + m
    <3> HIDE DEF t, b, full
    <3> QED BY <1>5, <1>6, <1>8, <1>9
  <2> HIDE DEF m
  <2>2. SubSeq(full, 1, Len(t) + m) = t \o SubSeq(r, 1, m)
    <3> HIDE DEF t
    <3> QED BY <1>1, <1>5, <2>1, PartsOfBytes
  <2>3. SubSeq(r, 1, m) \in Seq(Bytes)
    BY <1>1, <2>1, CutBytes
  <2>4. \E more \in Seq(Characters) : Ignoring(t \o SubSeq(r, 1, m)) = text \o more
    BY <1>1, <2>3, IgnoringKeeps
  <2> HIDE DEF full, t
  <2> QED BY <2>1, <2>2, <2>4
<1> QED BY <1>10, <1>11 DEF text, r, stop, FullBytes, EndsInBytes

LEMMA CheckRight ==
  ASSUME NEW p, ParamsOK(p), NEW d \in Detokenizers,
         NEW old \in Seq(Characters), NEW more \in Seq(Characters),
         d.output_text = old \o more, d.min_offset <= Len(old),
         \A k \in DOMAIN p.stop : StopsBehind(old, p.stop[k], d.min_offset) = {},
         ErrorStart(d.byte_buffer) = 0
  PROVE  LET result == CheckStopStrings(d, p, Len(more)) IN
         \/ result.matched = FALSE /\ result.d = d /\ NoStops(d, p)
         \/ result.matched = TRUE /\ CutInText(d, p, old, result.d)
         \/ result.matched = TRUE /\ CutInBytes(d, result.d)
<1> DEFINE result == CheckStopStrings(d, p, Len(more))
           inText  == {k \in DOMAIN p.stop : Len(more) > 0 /\ TextPlaces(d, p, k, Len(more)) # {}}
           inBytes == {k \in DOMAIN p.stop : d.byte_buffer # <<>> /\ BytePlaces(d, p, k) # {}}
           k1 == FirstFound(inText)
           k2 == FirstFound(inBytes)
           places1 == TextPlaces(d, p, k1, Len(more))
           places2 == BytePlaces(d, p, k2)
           cut2 == SubSeq(FullBytes(d), 1, Min(places2)
                     + (IF p.include_stop THEN Len(BytesOf(p.stop[k2])) ELSE 0))
<1>1. inText \in SUBSET Nat /\ inBytes \in SUBSET Nat
  <2>1. DOMAIN p.stop = 1 .. Len(p.stop)
    BY DEF ParamsOK
  <2> QED BY <2>1
<1>2. /\ inText = {} => NoStops(d, p)
      /\ \A k \in inText :
           /\ TextPlaces(d, p, k, Len(more)) = StopsBehind(d.output_text, p.stop[k], d.min_offset)
           /\ \A i \in TextPlaces(d, p, k, Len(more)) :
                i \in Nat /\ i + Len(p.stop[k]) > Len(old)
  BY FoundInText
<1>3. d.output_text \in Seq(Characters) /\ d.byte_buffer \in Seq(Bytes) /\ d.min_offset \in Nat
  BY DEF Detokenizers
<1>4. CASE inText # {}
  <2>1. k1 \in inText
    <3> HIDE DEF inText
    <3> QED BY <1>1, <1>4, FirstFoundIs
  <2>2. result = [matched |-> TRUE,
                  d |-> [d EXCEPT !.output_text = SubSeq(@, 1, CutAt(p, k1, Min(places1)))]]
    BY <1>4 DEF CheckStopStrings, CutAt
  <2>3. places1 = StopsBehind(d.output_text, p.stop[k1], d.min_offset) /\ places1 # {}
        /\ \A i \in places1 : i \in Nat /\ i + Len(p.stop[k1]) > Len(old)
    BY <1>2, <2>1
  <2> HIDE DEF places1, k1
  <2>4. Min(places1) \in places1
    <3>1. places1 \in SUBSET Nat
      BY <2>3
    <3> QED BY <2>3, <3>1, MinIs
  <2>5. Min(places1) + Len(p.stop[k1]) > Len(old) /\ k1 \in DOMAIN p.stop
    BY <2>1, <2>3, <2>4
  <2>6. CutInText(d, p, old, result.d)
    <3>1. result.d = [d EXCEPT !.output_text = SubSeq(@, 1, CutAt(p, k1, Min(places1)))]
      BY <2>2
    <3> HIDE DEF result
    <3> QED BY <2>3, <2>5, <3>1 DEF CutInText
  <2> QED BY <2>2, <2>6
<1>5. CASE inText = {} /\ inBytes # {}
  <2>1. k2 \in inBytes
    <3> HIDE DEF inBytes
    <3> QED BY <1>1, <1>5, FirstFoundIs
  <2>2. result = [matched |-> TRUE,
                  d |-> [d EXCEPT !.output_text = Ignoring(cut2), !.byte_buffer = <<>>]]
    BY <1>5 DEF CheckStopStrings
  <2>3. k2 \in DOMAIN p.stop /\ places2 # {} /\ d.byte_buffer # <<>>
    BY <2>1
  <2> HIDE DEF k2
  <2>4. NoStops(d, p)
    BY <1>2, <1>5
  <2>5. places2 \in SUBSET Nat
    <3> DEFINE b == BytesOf(p.stop[k2])
               base == Len(BytesOf(SubSeq(d.output_text, 1, d.min_offset)))
               other == Len(FullBytes(d)) - Len(b) - MaxStopBytes(p)
    <3>1. places2 = Places(FullBytes(d), b, Max({base, other}))
      BY DEF BytePlaces
    <3>2. base \in Nat
      <4>1. Len(d.output_text) \in Nat /\ Len(d.output_text) = Len(old) + Len(more)
            /\ Len(old) \in Nat /\ Len(more) \in Nat
        BY <1>3
      <4>2. d.min_offset \in 0 .. Len(d.output_text)
        BY <1>3, <4>1
      <4> QED BY <1>3, <4>2, TextCut
    <3>3. p.stop[k2] \in Seq(Characters)
      BY <2>3 DEF ParamsOK
    <3>4. Len(b) \in Nat /\ Len(BytesOf(d.output_text)) \in Nat /\ Len(FullBytes(d)) \in Nat
      <4>1. b \in Seq(Bytes) /\ BytesOf(d.output_text) \in Seq(Bytes)
        BY <1>3, <3>3, EncodingValid
      <4> HIDE DEF b
      <4>2. FullBytes(d) \in Seq(Bytes)
        BY <1>3, <4>1 DEF FullBytes
      <4> QED BY <4>1, <4>2
    <3> HIDE DEF base, b
    <3>5. other \in Int
      BY <3>4, MaxStopIs
    <3> HIDE DEF other
    <3>6. Max({base, other}) = IF base <= other THEN other ELSE base
      BY <3>2, <3>5, TwoInts
    <3>7. Max({base, other}) \in Nat
      BY <3>2, <3>5, <3>6
    <3> HIDE DEF places2
    <3> QED BY <3>1, <3>7 DEF Places
  <2>6. Min(places2) \in places2
    <3> HIDE DEF places2
    <3> QED BY <2>3, <2>5, MinIs
  <2>7. Len(old) \in Nat /\ Len(more) \in Nat /\ Len(d.output_text) = Len(old) + Len(more)
    OBVIOUS
  <2>8. d.min_offset <= Len(d.output_text)
    BY <1>3, <2>7
  <2> DEFINE place == Min(places2)
  <2>9. place \in BytePlaces(d, p, k2)
    BY <2>6
  <2> HIDE DEF place
  <2>10. /\ d.byte_buffer # <<Lead>>
         /\ \A n \in {0, Len(BytesOf(p.stop[k2]))} :
              \E rest \in Seq(Characters) :
                Ignoring(SubSeq(FullBytes(d), 1, place + n)) = d.output_text \o rest
    <3>1. k2 \in DOMAIN p.stop /\ d.byte_buffer # <<>>
      BY <2>3
    <3>2. EndsInBytes(d, p, k2, place)
      BY <3>1, <2>4, <2>8, <2>9, FoundInBytes
    <3> QED BY <3>2 DEF EndsInBytes
  <2>11. \E rest \in Seq(Characters) : Ignoring(cut2) = d.output_text \o rest
    <3> DEFINE n == IF p.include_stop THEN Len(BytesOf(p.stop[k2])) ELSE 0
    <3>1. n \in {0, Len(BytesOf(p.stop[k2]))}
      OBVIOUS
    <3>2. cut2 = SubSeq(FullBytes(d), 1, place + n)
      BY DEF place
    <3> HIDE DEF n, cut2
    <3> QED BY <2>10, <3>1, <3>2
  <2>12. CutInBytes(d, result.d)
    <3>1. result.d = [d EXCEPT !.output_text = Ignoring(cut2), !.byte_buffer = <<>>]
      BY <2>2
    <3> HIDE DEF result, cut2
    <3>2. PICK rest \in Seq(Characters) : Ignoring(cut2) = d.output_text \o rest
      BY <2>11
    <3>3. result.d = [d EXCEPT !.output_text = @ \o rest, !.byte_buffer = <<>>]
      BY <3>1, <3>2
    <3> QED BY <2>3, <2>10, <3>3 DEF CutInBytes
  <2> QED BY <2>2, <2>12
<1>6. CASE inText = {} /\ inBytes = {}
  <2>1. result = [matched |-> FALSE, d |-> d]
    BY <1>6 DEF CheckStopStrings
  <2> QED BY <1>2, <1>6, <2>1
<1> HIDE DEF result, inText, inBytes, CutInText, CutInBytes
<1>7. inText # {} \/ (inText = {} /\ inBytes # {}) \/ (inText = {} /\ inBytes = {})
  OBVIOUS
<1> QED BY <1>4, <1>5, <1>6, <1>7 DEF result

LEMMA NothingBehind ==
  ASSUME NEW text \in Seq(Characters), NEW p, ParamsOK(p), NEW k \in DOMAIN p.stop
  PROVE  StopsBehind(text, p.stop[k], Len(text)) = {}
<1>1. Len(p.stop[k]) \in Nat /\ Len(text) \in Nat
  BY MaxStopIs
<1>2. ASSUME NEW i \in StopsBehind(text, p.stop[k], Len(text)) PROVE FALSE
  <2>1. i \in 0 .. Len(text) - Len(p.stop[k]) /\ i + Len(p.stop[k]) > Len(text)
    BY DEF StopsBehind, Places
  <2> QED BY <1>1, <2>1
<1> QED BY <1>2

\* A token that a request's detokenizer takes, d2 what it is before stop strings are looked for.
Outcome(d, p, tokens, counting, d2, result) ==
  /\ Follows(d2, p, counting) /\ d2.count = Len(tokens) + 1 /\ d2.sent = d.sent
  /\ \E more \in Seq(Characters) : d2.output_text = d.output_text \o more
  /\ \/ result.matched = FALSE /\ result.d = d2 /\ NoStops(d2, p)
     \/ /\ result.matched = TRUE /\ p.tokenizer
        /\ counting # tokens /\ d2.min_offset = d.min_offset
        /\ Len(tokens) >= p.min_tokens
        /\ CutInText(d2, p, d.output_text, result.d)
     \/ result.matched = TRUE /\ p.tokenizer /\ CutInBytes(d2, result.d)

LEMMA UpdateRight ==
  ASSUME NEW p, ParamsOK(p), NEW tokens \in Seq(Nat), NEW t \in Nat, NEW f \in BOOLEAN,
         NEW d, Follows(d, p, tokens), d.count = Len(tokens), NoStops(d, p)
  PROVE  \E d2 : Outcome(d, p, tokens,
                         IF f /\ ~p.include_stop THEN tokens ELSE tokens \o <<t>>,
                         d2, Update(d, p, <<t>>, f))
<1> DEFINE left == f /\ ~p.include_stop
           result == Update(d, p, <<t>>, f)
           added == AddToken(d, p, t)
           after == IF left THEN d ELSE added
           d2 == [after EXCEPT !.count = @ + (IF left THEN 1 ELSE 0)]
           new == Len(after.output_text) - Max({Len(d.output_text), after.min_offset})
           counting == IF left THEN tokens ELSE tokens \o <<t>>
<1>1. result = IF d2.count > p.min_tokens /\ p.tokenizer
               THEN CheckStopStrings(d2, p, new) ELSE [matched |-> FALSE, d |-> d2]
  <2>1. result = UpdateOne(d, p, t, f)
    BY UpdateIs
  <2> QED BY <2>1 DEF UpdateOne
<1>2. /\ Follows(added, p, tokens \o <<t>>)
      /\ added.count = d.count + 1 /\ added.sent = d.sent
      /\ \E more \in Seq(Characters) : added.output_text = d.output_text \o more
      /\ added.min_offset = IF p.tokenizer /\ added.count <= p.min_tokens
                            THEN Len(added.output_text) ELSE d.min_offset
  <2>1. FollowsOn(d, p, tokens, t, added)
    BY AddTokenRight
  <2> HIDE DEF added
  <2> QED BY <2>1 DEF FollowsOn
<1>3. d \in Detokenizers /\ added \in Detokenizers /\ Len(tokens) \in Nat /\ p.min_tokens \in Nat
      /\ d.min_offset <= Len(d.output_text) /\ p.include_stop \in BOOLEAN /\ p.tokenizer \in BOOLEAN
  BY <1>2 DEF Follows, ParamsOK
<1>4. tokens \o <<t>> \in Seq(Nat) /\ tokens \o <<t>> # tokens
  <2>1. tokens \o <<t>> \in Seq(Nat) /\ Len(tokens \o <<t>>) = Len(tokens) + 1
    BY FirstTokens
  <2>2. Len(tokens \o <<t>>) # Len(tokens)
    BY <1>3, <2>1
  <2> QED BY <2>1, <2>2
<1> HIDE DEF added, result
<1>5. /\ after \in Detokenizers /\ after.count = Len(tokens) + (IF left THEN 0 ELSE 1)
      /\ Follows(after, p, counting) /\ after.sent = d.sent
      /\ \E more \in Seq(Characters) : after.output_text = d.output_text \o more
  <2>1. CASE left
    <3>1. d.output_text = d.output_text \o <<>> /\ <<>> \in Seq(Characters)
      BY <1>3 DEF Detokenizers
    <3>2. after = d /\ counting = tokens
      BY <2>1
    <3> HIDE DEF after, counting
    <3>3. \E more \in Seq(Characters) : after.output_text = d.output_text \o more
      BY <3>1, <3>2, Zenon
    <3>4. after.count = Len(tokens) + 0
      BY <1>3, <3>2
    <3> QED BY <1>3, <2>1, <3>2, <3>3, <3>4
  <2>2. CASE ~left
    <3>2. after = added /\ counting = tokens \o <<t>>
      BY <2>2
    <3> HIDE DEF after, counting
    <3> QED BY <1>2, <1>3, <2>2, <3>2
  <2> QED BY <2>1, <2>2
<1> HIDE DEF after
<1>6. /\ d2 \in Detokenizers /\ d2.count = Len(tokens) + 1 /\ d2.sent = d.sent
      /\ d2.output_text = after.output_text /\ d2.byte_buffer = after.byte_buffer
      /\ d2.min_offset = after.min_offset
  <2>1. after.count + (IF left THEN 1 ELSE 0) = Len(tokens) + 1 /\ Len(tokens) + 1 \in Nat
    BY <1>3, <1>5
  <2> DEFINE n == Len(tokens) + 1
  <2>2. d2 = [after EXCEPT !.count = n] /\ n \in Nat
    BY <2>1
  <2> HIDE DEF n, d2
  <2>3. d2.count = n
    BY <1>5, <2>2 DEF Detokenizers
  <2> QED BY <1>5, <2>2, <2>3 DEF Detokenizers, n
<1> HIDE DEF d2
<1>7. Follows(d2, p, counting)
  BY <1>5, <1>6 DEF Follows
<1>8. \E more \in Seq(Characters) : d2.output_text = d.output_text \o more
  BY <1>5, <1>6
<1>9. d.output_text \in Seq(Characters) /\ d2.output_text \in Seq(Characters)
      /\ d.min_offset \in Nat
  BY <1>3, <1>6 DEF Detokenizers
\* Behind what the first tokens gave, the end of the text is not searched.
<1>10. CASE ~(d2.count > p.min_tokens /\ p.tokenizer)
  <2>1. result = [matched |-> FALSE, d |-> d2]
    BY <1>1, <1>10
  <2>2. NoStops(d2, p)
    <3>1. CASE left
      <4>1. after = d
        BY <3>1 DEF after
      <4>2. d2.output_text = d.output_text /\ d2.min_offset = d.min_offset
        BY <1>6, <4>1
      <4> QED BY <4>2 DEF NoStops
    <3>2. CASE ~left
      <4>1. after = added
        BY <3>2 DEF after
      <4>2. d2.min_offset = Len(d2.output_text)
        <5>1. CASE p.tokenizer
          <6>1. added.count <= p.min_tokens
            BY <1>3, <1>6, <1>10, <4>1, <1>5, <3>2, <5>1
          <6> QED BY <1>2, <1>6, <4>1, <5>1, <6>1
        <5>2. CASE ~p.tokenizer
          <6>1. d2.output_text = <<>> /\ d2.min_offset = 0
            BY <1>7, <5>2 DEF Follows
          <6> QED BY <6>1
        <5> QED BY <5>1, <5>2
      <4>3. \A k \in DOMAIN p.stop : StopsBehind(d2.output_text, p.stop[k], Len(d2.output_text)) = {}
        BY <1>9, NothingBehind
      <4> QED BY <4>2, <4>3 DEF NoStops
    <3> QED BY <3>1, <3>2
  <2>3. result.matched = FALSE /\ result.d = d2
    BY <2>1
  <2>4. Outcome(d, p, tokens, counting, d2, result)
    <3> HIDE DEF counting
    <3> QED BY <1>6, <1>7, <1>8, <2>2, <2>3 DEF Outcome
  <2> QED BY <2>4 DEF result
<1>11. CASE d2.count > p.min_tokens /\ p.tokenizer
  <2>1. d2.min_offset = d.min_offset /\ Len(tokens) >= p.min_tokens
    <3>1. Len(tokens) >= p.min_tokens
      BY <1>3, <1>6, <1>11
    <3>2. CASE left
      <4>1. after = d
        BY <3>2 DEF after
      <4> QED BY <1>6, <3>1, <4>1
    <3>3. CASE ~left
      <4>1. after = added
        BY <3>3 DEF after
      <4>2. ~(added.count <= p.min_tokens)
        BY <1>3, <1>5, <3>1, <3>3, <4>1
      <4> QED BY <1>2, <1>6, <3>1, <4>1, <4>2
    <3> QED BY <3>2, <3>3
  <2>2. PICK more \in Seq(Characters) : d2.output_text = d.output_text \o more
    BY <1>8
  <2>3. new = Len(more)
    <3>1. Len(d.output_text) \in Nat /\ d.min_offset <= Len(d.output_text)
      BY <1>3, <1>9
    <3>2. Max({Len(d.output_text), d.min_offset}) = Len(d.output_text)
      <4>1. Max({Len(d.output_text), d.min_offset})
              = IF Len(d.output_text) <= d.min_offset THEN d.min_offset ELSE Len(d.output_text)
        <5>1. Len(d.output_text) \in Int /\ d.min_offset \in Int
          BY <1>9, <3>1
        <5> QED BY <5>1, TwoInts
      <4> QED BY <1>9, <3>1, <4>1
    <3>3. after.output_text = d.output_text \o more /\ after.min_offset = d.min_offset
      BY <1>6, <2>1, <2>2
    <3>4. Len(d.output_text \o more) = Len(d.output_text) + Len(more) /\ Len(more) \in Nat
      BY <1>9
    <3> QED BY <3>1, <3>2, <3>3, <3>4
  <2>4. result = CheckStopStrings(d2, p, Len(more))
    BY <1>1, <1>11, <2>3
  <2>5. ErrorStart(d2.byte_buffer) = 0
    <3>1. d2.byte_buffer = RestOf(Joined(counting)) /\ counting \in Seq(Nat)
      BY <1>4, <1>7, <1>11 DEF Follows
    <3> HIDE DEF counting
    <3>2. Joined(counting) \in Seq(Bytes) /\ <<>> \in Seq(Bytes)
      BY <3>1, JoinedIs
    <3>3. ErrorStart(RestOf(Joined(counting))) = 0
      BY <3>2, DecodeMore
    <3> QED BY <3>1, <3>3
  <2>6. \A k \in DOMAIN p.stop : StopsBehind(d.output_text, p.stop[k], d2.min_offset) = {}
    BY <2>1 DEF NoStops
  <2>7. d2.min_offset <= Len(d.output_text)
    BY <1>3, <2>1
  <2> DEFINE checked == CheckStopStrings(d2, p, Len(more))
             old == d.output_text
  <2>8. old \in Seq(Characters) /\ d2.output_text = old \o more /\ d2.min_offset <= Len(old)
        /\ \A k \in DOMAIN p.stop : StopsBehind(old, p.stop[k], d2.min_offset) = {}
    BY <1>9, <2>2, <2>6, <2>7
  <2> HIDE DEF old
  <2>9. \/ checked.matched = FALSE /\ checked.d = d2 /\ NoStops(d2, p)
        \/ checked.matched = TRUE /\ CutInText(d2, p, old, checked.d)
        \/ checked.matched = TRUE /\ CutInBytes(d2, checked.d)
    BY <1>6, <2>5, <2>8, CheckRight
  <2> HIDE DEF checked
  <2>10. result = checked
    BY <2>4 DEF checked
  <2>11. CASE checked.matched = TRUE /\ CutInText(d2, p, old, checked.d)
    <3>1. ~left
      <4> SUFFICES ASSUME left PROVE FALSE
        OBVIOUS
      <4>1. after = d
        BY DEF after
      <4>2. d2.output_text = d.output_text
        BY <1>6, <4>1
      <4>3. \A k \in DOMAIN p.stop : StopsBehind(d2.output_text, p.stop[k], d2.min_offset) = {}
        BY <2>6, <4>2
      <4> QED BY <2>11, <4>3 DEF CutInText
    <3>2. counting # tokens
      BY <1>4, <3>1
    <3>3. Outcome(d, p, tokens, counting, d2, result)
      <4> HIDE DEF counting
      <4> QED BY <1>6, <1>7, <1>8, <1>11, <2>1, <2>10, <2>11, <3>2 DEF Outcome, old
    <3> QED BY <3>3 DEF result
  <2>12. CASE checked.matched = TRUE /\ CutInBytes(d2, checked.d)
    <3>3. Outcome(d, p, tokens, counting, d2, result)
      <4> HIDE DEF counting
      <4> QED BY <1>6, <1>7, <1>8, <1>11, <2>10, <2>12 DEF Outcome
    <3> QED BY <3>3 DEF result
  <2>13. CASE checked.matched = FALSE /\ checked.d = d2 /\ NoStops(d2, p)
    <3>3. Outcome(d, p, tokens, counting, d2, result)
      <4> HIDE DEF counting
      <4> QED BY <1>6, <1>7, <1>8, <1>11, <2>10, <2>13 DEF Outcome
    <3> QED BY <3>3 DEF result
  <2> QED BY <2>9, <2>11, <2>12, <2>13
<1> QED BY <1>10, <1>11

(***************************************************************************)
(* What has been sent.                                                     *)
(***************************************************************************)
\* What is sent ends before the place at which a stop string may still begin.
HeldBack(d, p) ==
  /\ d.sent <= Len(d.output_text)
  /\ d.sent > 0 /\ ~p.include_stop =>
       \A k \in DOMAIN p.stop : d.sent + Len(p.stop[k]) <= Len(d.output_text) + 1


\* What is sent stays.
KeepsSent(d, after) ==
  /\ after \in Detokenizers /\ after.sent = d.sent /\ d.sent <= Len(after.output_text)
  /\ SubSeq(after.output_text, 1, d.sent) = SubSeq(d.output_text, 1, d.sent)

LEMMA ConcatText ==
  ASSUME NEW a \in Seq(Characters), NEW b \in Seq(Characters)
  PROVE  a \o b \in Seq(Characters)
OBVIOUS

LEMMA CutTwice ==
  ASSUME NEW s \in Seq(Characters), NEW n \in Nat, NEW m \in Nat, m <= n, n <= Len(s)
  PROVE  /\ SubSeq(SubSeq(s, 1, n), 1, m) = SubSeq(s, 1, m)
         /\ SubSeq(s, 1, n) \in Seq(Characters) /\ Len(SubSeq(s, 1, n)) = n
<1> DEFINE a == SubSeq(s, 1, n)
           x == SubSeq(a, 1, m)
           y == SubSeq(s, 1, m)
<1>0. n \in 0 .. Len(s) /\ m \in 0 .. Len(s) /\ Len(s) \in Nat
  OBVIOUS
<1>1. a \in Seq(Characters) /\ Len(a) = n
  BY <1>0, TextCut, CutInTwo
<1>2. \A i \in 1 .. n : a[i] = s[i]
  BY <1>0
<1>3. y \in Seq(Characters) /\ Len(y) = m /\ \A i \in 1 .. m : y[i] = s[i]
  BY <1>0, CutInTwo
<1> HIDE DEF a
<1>4. m \in 0 .. Len(a)
  BY <1>1
<1>5. x \in Seq(Characters) /\ Len(x) = m /\ \A i \in 1 .. m : x[i] = a[i]
  BY <1>1, <1>4, CutInTwo
<1> HIDE DEF x, y
<1>6. \A i \in 1 .. m : i \in 1 .. n
  OBVIOUS
<1>7. x = y
  BY <1>2, <1>3, <1>5, <1>6, SeqEqual
<1> QED BY <1>1, <1>7 DEF x, y, a

LEMMA CutKeepsSent ==
  ASSUME NEW p, ParamsOK(p), NEW d \in Detokenizers, HeldBack(d, p), NEW d2 \in Detokenizers,
         d2.sent = d.sent, NEW more \in Seq(Characters), d2.output_text = d.output_text \o more,
         NEW after, CutInText(d2, p, d.output_text, after)
  PROVE  KeepsSent(d, after)
<1> DEFINE text == d2.output_text
           old == d.output_text
<1>1. text \in Seq(Characters) /\ old \in Seq(Characters) /\ d.sent \in Nat /\ Len(old) \in Nat
      /\ Len(text) = Len(old) + Len(more) /\ Len(more) \in Nat /\ d.sent <= Len(old)
      /\ p.include_stop \in BOOLEAN
  BY DEF Detokenizers, HeldBack, ParamsOK
<1>2. PICK k \in DOMAIN p.stop :
        LET behind == StopsBehind(text, p.stop[k], d2.min_offset) IN
        /\ behind # {} /\ Min(behind) + Len(p.stop[k]) > Len(old)
        /\ after = [d2 EXCEPT !.output_text = SubSeq(@, 1, CutAt(p, k, Min(behind)))]
  BY DEF CutInText
<1> DEFINE behind == StopsBehind(text, p.stop[k], d2.min_offset)
           m == Min(behind)
           n == CutAt(p, k, m)
           stop == p.stop[k]
<1>3. Len(stop) \in Nat \ {0}
  BY MaxStopIs
<1>4. behind \in SUBSET (0 .. Len(text) - Len(stop))
  BY DEF StopsBehind, Places
<1>5. m \in behind
  <2>1. behind \in SUBSET Nat /\ behind # {}
    <3>1. 0 .. Len(text) - Len(stop) \in SUBSET Nat
      <4> DEFINE top == Len(text) - Len(stop)
      <4>1. top \in Int
        BY <1>1, <1>3
      <4> HIDE DEF top
      <4>2. \A z \in 0 .. top : z \in Nat
        BY <4>1
      <4> QED BY <4>2 DEF top
    <3> QED BY <1>2, <1>4, <3>1
  <2> HIDE DEF behind
  <2> QED BY <2>1, MinIs
<1>6. m + Len(stop) > Len(old) /\ after = [d2 EXCEPT !.output_text = SubSeq(@, 1, n)]
  BY <1>2
<1>7. n = m + (IF p.include_stop THEN Len(stop) ELSE 0)
  BY DEF CutAt
<1>8. d.sent > 0 /\ ~p.include_stop => d.sent + Len(stop) <= Len(old) + 1
  BY DEF HeldBack
<1> HIDE DEF n, m, behind, stop, text, old
<1>9. m \in 0 .. Len(text) - Len(stop)
  BY <1>4, <1>5
<1>10. n \in Nat /\ n <= Len(text) /\ d.sent <= n
  <2>1. m \in Nat /\ m + Len(stop) <= Len(text)
    BY <1>1, <1>3, <1>9
  <2>2. CASE p.include_stop
    BY <1>1, <1>3, <1>6, <1>7, <2>1, <2>2
  <2>3. CASE ~p.include_stop
    <3>1. n = m
      BY <1>7, <2>1, <2>3
    <3>2. CASE d.sent = 0
      BY <1>1, <1>3, <2>1, <3>1, <3>2
    <3>3. CASE d.sent > 0
      <4>1. d.sent + Len(stop) <= Len(old) + 1
        BY <1>8, <2>3, <3>3
      <4> QED BY <1>1, <1>3, <1>6, <2>1, <3>1, <4>1
    <3> QED BY <1>1, <3>2, <3>3
  <2> QED BY <2>2, <2>3
<1>11. /\ SubSeq(text, 1, n) \in Seq(Characters) /\ Len(SubSeq(text, 1, n)) = n
       /\ SubSeq(SubSeq(text, 1, n), 1, d.sent) = SubSeq(text, 1, d.sent)
  BY <1>1, <1>10, CutTwice
<1>12. after.output_text = SubSeq(text, 1, n) /\ after.sent = d.sent /\ after \in Detokenizers
  BY <1>6, <1>11 DEF Detokenizers, text
<1>13. SubSeq(text, 1, d.sent) = SubSeq(old, 1, d.sent)
  <2>1. SubSeq(old \o more, 0 + 1, 0 + d.sent) = SubSeq(old, 0 + 1, 0 + d.sent)
    BY <1>1, SamePart
  <2> QED BY <1>1, <2>1 DEF text, old
<1> QED BY <1>10, <1>11, <1>12, <1>13 DEF KeepsSent, old

LEMMA OutcomeKeepsSent ==
  ASSUME NEW p, ParamsOK(p), NEW tokens, NEW counting, NEW d \in Detokenizers, HeldBack(d, p),
         NEW d2, NEW result, Outcome(d, p, tokens, counting, d2, result)
  PROVE  /\ result.matched \in BOOLEAN /\ KeepsSent(d, result.d)
         /\ result.matched = FALSE => HeldBack(result.d, p)
<1>1. d2 \in Detokenizers /\ d2.sent = d.sent
  BY DEF Outcome, Follows
<1>2. PICK more \in Seq(Characters) : d2.output_text = d.output_text \o more
  BY DEF Outcome
<1>3. /\ d.output_text \in Seq(Characters) /\ d2.output_text \in Seq(Characters)
      /\ d.sent \in Nat /\ Len(d.output_text) \in Nat /\ d.sent <= Len(d.output_text)
      /\ Len(d2.output_text) = Len(d.output_text) + Len(more) /\ Len(more) \in Nat
  BY <1>1, <1>2 DEF Detokenizers, HeldBack
<1>4. ASSUME NEW x \in Seq(Characters)
      PROVE  SubSeq(d.output_text \o x, 1, d.sent) = SubSeq(d.output_text, 1, d.sent)
  <2>1. SubSeq(d.output_text \o x, 0 + 1, 0 + d.sent) = SubSeq(d.output_text, 0 + 1, 0 + d.sent)
    BY <1>3, SamePart
  <2> QED BY <1>3, <2>1
<1>5. CASE result.matched = FALSE /\ result.d = d2 /\ NoStops(d2, p)
  <2>1. KeepsSent(d, d2)
    BY <1>1, <1>2, <1>3, <1>4 DEF KeepsSent
  <2>2. HeldBack(d2, p)
    <3>1. d2.sent <= Len(d2.output_text)
      BY <1>1, <1>3
    <3>2. ASSUME d2.sent > 0, ~p.include_stop, NEW k \in DOMAIN p.stop
          PROVE  d2.sent + Len(p.stop[k]) <= Len(d2.output_text) + 1
      <4>1. d.sent + Len(p.stop[k]) <= Len(d.output_text) + 1
        BY <1>1, <3>2 DEF HeldBack
      <4>2. Len(p.stop[k]) \in Nat
        BY MaxStopIs
      <4> QED BY <1>1, <1>3, <4>1, <4>2
    <3> QED BY <3>1, <3>2 DEF HeldBack
  <2> QED BY <1>5, <2>1, <2>2
<1>6. CASE result.matched = TRUE /\ CutInText(d2, p, d.output_text, result.d)
  BY <1>1, <1>2, <1>6, CutKeepsSent
<1>7. CASE result.matched = TRUE /\ CutInBytes(d2, result.d)
  <2>1. PICK x \in Seq(Characters) :
          result.d = [d2 EXCEPT !.output_text = @ \o x, !.byte_buffer = <<>>]
    BY <1>7 DEF CutInBytes
  <2>2. d2.output_text \o x = d.output_text \o (more \o x) /\ more \o x \in Seq(Characters)
        /\ d2.output_text \o x \in Seq(Characters)
    <3> DEFINE a == d.output_text
    <3>1. a \in Seq(Characters)
      BY <1>3
    <3> HIDE DEF a
    <3>2. (a \o more) \o x = a \o (more \o x)
      BY <3>1, ConcatAssociative
    <3> QED BY <1>2, <1>3, <3>2, ConcatText DEF a
  <2>3. <<>> \in Seq(Bytes)
    OBVIOUS
  <2> DEFINE r == result.d
  <2>4. r = [d2 EXCEPT !.output_text = @ \o x, !.byte_buffer = <<>>]
    BY <2>1
  <2> HIDE DEF r
  <2>5. r.output_text = d.output_text \o (more \o x) /\ r.sent = d.sent /\ r \in Detokenizers
    BY <1>1, <2>2, <2>3, <2>4 DEF Detokenizers
  <2>6. Len(d.output_text \o (more \o x)) >= d.sent
    <3> DEFINE y == more \o x
    <3>1. y \in Seq(Characters)
      BY <2>2
    <3> HIDE DEF y
    <3>2. Len(d.output_text \o y) = Len(d.output_text) + Len(y) /\ Len(y) \in Nat
      BY <1>3, <3>1
    <3>3. Len(d.output_text \o y) >= d.sent
      BY <1>3, <3>2
    <3> QED BY <3>3 DEF y
  <2>7. KeepsSent(d, r)
    <3> DEFINE y == more \o x
    <3>3. y \in Seq(Characters) /\ r.output_text = d.output_text \o y
      BY <2>2, <2>5
    <3> HIDE DEF y
    <3>1. SubSeq(r.output_text, 1, d.sent) = SubSeq(d.output_text, 1, d.sent)
      <4>1. SubSeq(d.output_text \o y, 1, d.sent) = SubSeq(d.output_text, 1, d.sent)
        BY <1>4, <3>3, Zenon
      <4> QED BY <3>3, <4>1, Zenon
    <3>2. d.sent <= Len(r.output_text)
      <4>1. Len(r.output_text) >= d.sent /\ Len(r.output_text) \in Nat
        BY <2>5, <2>6 DEF Detokenizers
      <4> QED BY <1>3, <4>1
    <3> QED BY <2>5, <3>1, <3>2 DEF KeepsSent
  <2> QED BY <1>7, <2>7 DEF r
<1> QED BY <1>5, <1>6, <1>7 DEF Outcome

\* A reader gets, next, what is behind the sent.
AdvancesTo(d, p, fin, delta, a, next) ==
  /\ a \in Detokenizers /\ a.output_text = d.output_text /\ a.byte_buffer = d.byte_buffer
  /\ a.count = d.count /\ a.min_offset = d.min_offset
  /\ a.sent <= Len(d.output_text)
  /\ fin /\ delta => a.sent = Len(d.output_text)
  /\ ~fin /\ HeldBack(d, p) => HeldBack(a, p)
  /\ next \in Seq(Characters)
  /\ delta => SubSeq(d.output_text, 1, d.sent) \o next = SubSeq(d.output_text, 1, a.sent)
  /\ fin /\ ~delta => next = d.output_text

LEMMA AdvancedIs ==
  ASSUME NEW p, ParamsOK(p), NEW d \in Detokenizers, d.sent <= Len(d.output_text),
         NEW fin \in BOOLEAN, NEW delta \in BOOLEAN
  PROVE  AdvancesTo(d, p, fin, delta, Advanced(d, p, fin, delta), NextText(d, p, fin, delta))
<1> DEFINE a == Advanced(d, p, fin, delta)
           text == d.output_text
           shown == Shown(d, p, fin)
           next == NextText(d, p, fin, delta)
<1>1. text \in Seq(Characters) /\ d.sent \in Nat /\ Len(text) \in Nat /\ d.sent <= Len(text)
  BY DEF Detokenizers
<1>2. /\ StopBufferLength(p) \in Nat
      /\ ~p.include_stop => \A k \in DOMAIN p.stop : StopBufferLength(p) >= Len(p.stop[k]) - 1
  <2>1. CASE p.stop = <<>> \/ p.include_stop
    <3>1. StopBufferLength(p) = 0
      BY <2>1 DEF StopBufferLength
    <3>2. p.stop = <<>> => DOMAIN p.stop = {}
      OBVIOUS
    <3> QED BY <2>1, <3>1, <3>2
  <2>2. CASE ~(p.stop = <<>> \/ p.include_stop)
    <3>1. StopBufferLength(p) = MaxStop(p) - 1
      BY <2>2 DEF StopBufferLength
    <3>2. 1 \in DOMAIN p.stop
      BY <2>2 DEF ParamsOK
    <3>3. MaxStop(p) \in Nat /\ MaxStop(p) >= 1
      <4>1. MaxStop(p) \in Nat /\ Len(p.stop[1]) \in Nat \ {0} /\ Len(p.stop[1]) <= MaxStop(p)
        BY <3>2, MaxStopIs
      <4> QED BY <4>1
    <3>4. \A k \in DOMAIN p.stop : MaxStop(p) - 1 >= Len(p.stop[k]) - 1
      <4> SUFFICES ASSUME NEW k \in DOMAIN p.stop PROVE MaxStop(p) - 1 >= Len(p.stop[k]) - 1
        OBVIOUS
      <4>1. Len(p.stop[k]) \in Nat /\ Len(p.stop[k]) <= MaxStop(p)
        BY MaxStopIs
      <4> QED BY <3>3, <4>1
    <3> QED BY <3>1, <3>3, <3>4
  <2> QED BY <2>1, <2>2
<1>3. shown = Len(text) - (IF fin THEN 0 ELSE StopBufferLength(p))
  BY DEF Shown
<1>4. shown \in Int /\ shown <= Len(text)
  <2> DEFINE held == StopBufferLength(p)
  <2>1. held \in Nat /\ Len(text) \in Nat
    BY <1>1, <1>2
  <2>2. CASE fin
    <3>1. shown = Len(text) - 0
      BY <1>3, <2>2
    <3> HIDE DEF text, shown
    <3> QED BY <2>1, <3>1
  <2>3. CASE ~fin
    <3>1. shown = Len(text) - held
      BY <1>3, <2>3
    <3> HIDE DEF text, shown, held
    <3> QED BY <2>1, <3>1
  <2> QED BY <2>2, <2>3
<1>5. next = SubSeq(text, IF delta THEN d.sent + 1 ELSE 1, shown)
  BY DEF NextText
<1>6. a = IF delta THEN [d EXCEPT !.sent = Max({@, shown})] ELSE d
  BY DEF Advanced
<1> DEFINE sent == IF delta /\ d.sent <= shown THEN shown ELSE d.sent
<1>7. sent \in Nat /\ sent <= Len(text)
  <2> HIDE DEF shown, text
  <2> QED BY <1>1, <1>4
<1> HIDE DEF shown, a
<1>8. /\ a \in Detokenizers /\ a.output_text = text /\ a.byte_buffer = d.byte_buffer
      /\ a.count = d.count /\ a.min_offset = d.min_offset /\ a.sent = sent
  <2>1. CASE ~delta
    BY <1>6, <2>1
  <2>2. CASE delta
    <3>1. Max({d.sent, shown}) = IF d.sent <= shown THEN shown ELSE d.sent
      <4>1. d.sent \in Int
        BY <1>1
      <4> QED BY <1>4, <4>1, TwoInts
    <3>2. a = [d EXCEPT !.sent = sent]
      BY <1>6, <2>2, <3>1
    <3> HIDE DEF sent
    <3> QED BY <1>7, <3>2 DEF Detokenizers
  <2> QED BY <2>1, <2>2
<1>9. fin /\ delta => sent = Len(text)
  <2> HIDE DEF text
  <2> QED BY <1>1, <1>3
<1>10. ASSUME ~fin, HeldBack(d, p) PROVE HeldBack(a, p)
  <2>1. sent <= Len(text)
    BY <1>7
  <2>2. ASSUME sent > 0, ~p.include_stop, NEW k \in DOMAIN p.stop
        PROVE  sent + Len(p.stop[k]) <= Len(text) + 1
    <3>1. Len(p.stop[k]) \in Nat
      BY MaxStopIs
    <3>2. CASE delta /\ d.sent <= shown
      <4> DEFINE held == StopBufferLength(p)
                 n == Len(p.stop[k])
                 len == Len(text)
      <4>1. held \in Nat /\ held >= n - 1
        BY <1>2, <2>2
      <4>2. sent = shown /\ shown = len - held
        BY <1>3, <1>10, <3>2
      <4>3. n \in Nat /\ len \in Nat
        BY <1>1, <3>1
      <4> HIDE DEF sent, held, n, len
      <4>4. sent + n <= len + 1
        BY <4>1, <4>2, <4>3
      <4> QED BY <4>4 DEF n, len
    <3>3. CASE ~(delta /\ d.sent <= shown)
      <4>1. sent = d.sent
        BY <3>3
      <4> QED BY <1>10, <2>2, <4>1 DEF HeldBack
    <3> QED BY <3>2, <3>3
  <2> HIDE DEF sent, text
  <2> QED BY <1>8, <2>1, <2>2 DEF HeldBack
<1>11. /\ next \in Seq(Characters)
       /\ delta => SubSeq(text, 1, d.sent) \o next = SubSeq(text, 1, sent)
  <2> DEFINE from == IF delta THEN d.sent + 1 ELSE 1
  <2>1. from \in Nat \ {0}
    BY <1>1
  <2> HIDE DEF text
  <2>2. next \in Seq(Characters)
    <3>1. next = SubSeq(text, from, shown)
      BY <1>5
    <3> HIDE DEF from, next
    <3>2. \A i \in from .. shown : i \in 1 .. Len(text)
      BY <1>1, <1>4, <2>1
    <3> QED BY <1>1, <1>4, <2>1, <3>1, <3>2
  <2>3. ASSUME delta PROVE SubSeq(text, 1, d.sent) \o next = SubSeq(text, 1, sent)
    <3>1. next = SubSeq(text, d.sent + 1, shown)
      BY <1>5, <2>3
    <3>2. SubSeq(text, 1, d.sent) \in Seq(Characters)
      BY <1>1, TextCut
    <3>3. CASE d.sent <= shown
      <4> DEFINE b == SubSeq(text, 1, shown)
      <4>1. sent = shown /\ shown \in 0 .. Len(text) /\ shown \in Nat
        BY <1>1, <1>4, <2>3, <3>3
      <4>2. b \in Seq(Characters) /\ Len(b) = shown
        BY <1>1, <4>1, CutTwice
      <4>3. SubSeq(b, 1, d.sent) = SubSeq(text, 1, d.sent)
        BY <1>1, <1>4, <3>3, <4>1, CutTwice
      <4>4. SubSeq(b, d.sent + 1, Len(b)) = next
        <5> DEFINE x == SubSeq(b, d.sent + 1, shown)
        <5>1. \A i \in 1 .. shown : b[i] = text[i]
          BY <1>1, <4>1
        <5> HIDE DEF b
        <5>2. \A i \in d.sent + 1 .. shown : i \in 1 .. shown /\ i \in 1 .. Len(text)
          BY <1>1, <1>4, <4>1
        <5>3. x \in Seq(Characters) /\ Len(x) = shown - d.sent
              /\ \A i \in 1 .. shown - d.sent : x[i] = b[d.sent + i]
          <6> DEFINE n == d.sent
          <6>1. n \in Nat /\ shown \in Nat /\ n <= shown /\ n + 1 \in 1 .. shown + 1
            BY <1>1, <3>3, <4>1
          <6> HIDE DEF n
          <6>2. SubSeq(b, n + 1, shown) \in Seq(Characters) /\ Len(SubSeq(b, n + 1, shown)) = shown - n
                /\ \A i \in 1 .. shown - n : SubSeq(b, n + 1, shown)[i] = b[n + i]
            BY <4>2, <6>1
          <6> QED BY <6>2 DEF n
        <5>4. next \in Seq(Characters) /\ Len(next) = shown - d.sent
              /\ \A i \in 1 .. shown - d.sent : next[i] = text[d.sent + i]
          BY <1>1, <3>1, <3>3, <4>1, <5>2
        <5> HIDE DEF x, next
        <5>5. \A i \in 1 .. shown - d.sent : d.sent + i \in 1 .. shown
          BY <1>1, <4>1
        <5>6. x = next
          BY <5>1, <5>3, <5>4, <5>5, SeqEqual
        <5> QED BY <4>2, <5>6 DEF x
      <4>5. d.sent \in 0 .. Len(b)
        BY <1>1, <3>3, <4>1, <4>2
      <4> HIDE DEF b, next
      <4>6. b = SubSeq(b, 1, d.sent) \o SubSeq(b, d.sent + 1, Len(b))
        BY <4>2, <4>5, CutInTwo
      <4>7. b = SubSeq(text, 1, d.sent) \o next
        BY <4>3, <4>4, <4>6, Zenon
      <4> QED BY <4>1, <4>7 DEF b
    <3>4. CASE ~(d.sent <= shown)
      <4>1. next = <<>>
        <5>1. d.sent + 1 > shown
          BY <1>1, <1>4, <3>4
        <5> QED BY <1>1, <1>4, <3>1, <5>1
      <4>2. sent = d.sent
        BY <3>4
      <4> HIDE DEF next, sent
      <4> QED BY <3>2, <4>1, <4>2, ConcatEmptySeq
    <3> QED BY <3>3, <3>4
  <2> QED BY <2>2, <2>3
<1>12. fin /\ ~delta => next = text
  <2>1. ASSUME fin, ~delta PROVE next = SubSeq(text, 1, Len(text))
    <3>1. shown = Len(text)
      <4> HIDE DEF text
      <4> QED BY <1>1, <1>3, <2>1
    <3> QED BY <1>5, <2>1, <3>1
  <2>2. SubSeq(text, 1, Len(text)) = text
    BY <1>1
  <2> QED BY <2>1, <2>2
<1> HIDE DEF next, text, sent
<1>13. /\ a \in Detokenizers /\ a.output_text = text /\ a.byte_buffer = d.byte_buffer
       /\ a.count = d.count /\ a.min_offset = d.min_offset
       /\ a.sent <= Len(text)
       /\ fin /\ delta => a.sent = Len(text)
       /\ ~fin /\ HeldBack(d, p) => HeldBack(a, p)
       /\ next \in Seq(Characters)
       /\ delta => SubSeq(text, 1, d.sent) \o next = SubSeq(text, 1, a.sent)
       /\ fin /\ ~delta => next = text
  BY <1>7, <1>8, <1>9, <1>10, <1>11, <1>12
<1> QED BY <1>13 DEF a, next, text, AdvancesTo

(***************************************************************************)
(* A stop string ends the text with the token that completes it.           *)
(***************************************************************************)
AtOnce(counting, p, output, stopped) ==
  LET from == Len(TextOfFirst(counting, Min({p.min_tokens, Len(counting)})))
      whole == TextOfFirst(counting, Len(counting))
      rest == RestOf(Joined(SubSeq(counting, 1, Len(counting))))
  IN  rest \in {<<>>, <<Lead>>} =>
        IF stopped
        THEN /\ \A k \in DOMAIN p.stop :
                  StopsBehind(TextOfFirst(counting, Len(counting) - 1), p.stop[k], from) = {}
             /\ \E k \in DOMAIN p.stop :
                  /\ StopsBehind(whole, p.stop[k], from) # {}
                  /\ output = SubSeq(whole, 1, CutAt(p, k, Min(StopsBehind(whole, p.stop[k], from))))
        ELSE output = whole /\ \A k \in DOMAIN p.stop : StopsBehind(whole, p.stop[k], from) = {}

LEMMA FollowsAtOnce ==
  ASSUME NEW p, p.tokenizer, NEW counting \in Seq(Nat), NEW d, Follows(d, p, counting),
         NoStops(d, p)
  PROVE  AtOnce(counting, p, d.output_text, FALSE)
<1>1. SubSeq(counting, 1, Len(counting)) = counting
  BY FirstTokens
<1>2. /\ d.output_text = TextOfFirst(counting, Len(counting))
      /\ d.min_offset = Len(TextOfFirst(counting, Min({p.min_tokens, Len(counting)})))
  BY <1>1 DEF Follows, TextOfFirst
<1> QED BY <1>2 DEF AtOnce, NoStops

LEMMA OutcomeAtOnce ==
  ASSUME NEW p, ParamsOK(p), p.tokenizer, NEW tokens \in Seq(Nat), NEW t \in Nat,
         NEW d, Follows(d, p, tokens), NoStops(d, p),
         NEW counting, counting \in {tokens, tokens \o <<t>>},
         NEW d2, NEW result, Outcome(d, p, tokens, counting, d2, result)
  PROVE  AtOnce(counting, p, result.d.output_text, result.matched)
<1> DEFINE from == Len(TextOfFirst(counting, Min({p.min_tokens, Len(counting)})))
           whole == TextOfFirst(counting, Len(counting))
<1>1. counting \in Seq(Nat) /\ SubSeq(counting, 1, Len(counting)) = counting
  BY FirstTokens
<1>2. /\ Follows(d2, p, counting) /\ d2.output_text = whole /\ d2.min_offset = from
      /\ d2.byte_buffer = RestOf(Joined(SubSeq(counting, 1, Len(counting))))
  BY <1>1 DEF Outcome, Follows, TextOfFirst
<1>3. CASE result.matched = FALSE /\ result.d = d2 /\ NoStops(d2, p)
  <2>1. AtOnce(counting, p, d2.output_text, FALSE)
    BY <1>1, <1>2, <1>3, FollowsAtOnce
  <2> QED BY <1>3, <2>1
<1>4. CASE /\ result.matched = TRUE /\ p.tokenizer
           /\ counting # tokens /\ d2.min_offset = d.min_offset
           /\ Len(tokens) >= p.min_tokens
           /\ CutInText(d2, p, d.output_text, result.d)
  <2>1. counting = tokens \o <<t>>
    BY <1>4
  <2>2. /\ Len(counting) - 1 = Len(tokens) /\ SubSeq(counting, 1, Len(tokens)) = tokens
    BY <2>1, FirstTokens
  <2>3. TextOfFirst(counting, Len(counting) - 1) = d.output_text
    BY <2>2 DEF TextOfFirst, Follows
  <2>4. \A k \in DOMAIN p.stop : StopsBehind(d.output_text, p.stop[k], from) = {}
    BY <1>2, <1>4 DEF NoStops
  <2> DEFINE r == result.d
  <2>5. PICK k \in DOMAIN p.stop :
          /\ StopsBehind(whole, p.stop[k], from) # {}
          /\ r = [d2 EXCEPT !.output_text =
                    SubSeq(@, 1, CutAt(p, k, Min(StopsBehind(whole, p.stop[k], from))))]
    BY <1>2, <1>4 DEF CutInText
  <2>6. d2 \in Detokenizers
    BY <1>2 DEF Follows
  <2> HIDE DEF r, from, whole
  <2>7. r.output_text = SubSeq(whole, 1, CutAt(p, k, Min(StopsBehind(whole, p.stop[k], from))))
    BY <1>2, <2>5, <2>6 DEF Detokenizers
  <2> QED BY <1>4, <2>3, <2>4, <2>5, <2>7 DEF AtOnce, from, whole, r
<1>5. CASE result.matched = TRUE /\ CutInBytes(d2, result.d)
  BY <1>2, <1>5 DEF CutInBytes, AtOnce
<1> QED BY <1>3, <1>4, <1>5 DEF Outcome

LEMMA EmptyAtOnce ==
  ASSUME NEW p, p.min_tokens \in Int, p.stop \in Seq(Seq(Characters))
  PROVE  AtOnce(<<>>, p, <<>>, FALSE)
<1>1. \A n \in Int : n <= 0 => TextOfFirst(<<>>, n) = <<>>
  <2> SUFFICES ASSUME NEW n \in Int, n <= 0 PROVE TextOfFirst(<<>>, n) = <<>>
    OBVIOUS
  <2>1. SubSeq(<<>>, 1, n) = <<>>
    OBVIOUS
  <2>2. TextIn(<<>>) = <<>>
    <3>1. <<>> \in Seq(Bytes) /\ Len(<<>>) = 0
      OBVIOUS
    <3>2. ErrorStart(<<>>) = 0
      <4>1. ErrorStart(<<>>) \in 0 .. Len(<<>>)
        BY <3>1, ErrorStartIs
      <4> QED BY <3>1, <4>1
    <3>3. SubSeq(<<>>, 1, 0) = <<>>
      OBVIOUS
    <3> QED BY <3>2, <3>3, DecodingIs DEF TextIn
  <2> QED BY <2>1, <2>2, JoinedIs DEF TextOfFirst
<1>2. Min({p.min_tokens, 0}) \in Int /\ Min({p.min_tokens, 0}) <= 0
  <2>1. \E x \in {p.min_tokens, 0} : \A y \in {p.min_tokens, 0} : x <= y
    OBVIOUS
  <2>2. Min({p.min_tokens, 0}) \in {p.min_tokens, 0}
        /\ \A y \in {p.min_tokens, 0} : Min({p.min_tokens, 0}) <= y
    BY <2>1 DEF Min
  <2> QED BY <2>2
<1>3. Len(<<>>) = 0
  OBVIOUS
<1>4. ASSUME NEW k \in DOMAIN p.stop PROVE StopsBehind(<<>>, p.stop[k], 0) = {}
  <2>1. p.stop[k] \in Seq(Characters) /\ Len(p.stop[k]) \in Nat
    OBVIOUS
  <2>2. ASSUME NEW i \in StopsBehind(<<>>, p.stop[k], 0) PROVE FALSE
    <3>1. i \in 0 .. 0 - Len(p.stop[k]) /\ i + Len(p.stop[k]) > 0
      BY <1>3 DEF StopsBehind, Places
    <3> QED BY <2>1, <3>1
  <2> QED BY <2>2
<1>5. /\ TextOfFirst(<<>>, Min({p.min_tokens, Len(<<>>)})) = <<>>
      /\ TextOfFirst(<<>>, Len(<<>>)) = <<>>
  BY <1>1, <1>2, <1>3
<1> QED BY <1>3, <1>4, <1>5 DEF AtOnce

-----------------------------------------------------------------------------

(***************************************************************************)
(* The prompt.                                                             *)
(***************************************************************************)
LEMMA TwoOf ==
  ASSUME NEW m \in Nat, NEW n \in Nat
  PROVE  /\ Min({m, n}) = IF m <= n THEN m ELSE n
         /\ Max({m, n}) = IF m <= n THEN n ELSE m
<1> DEFINE T == {m, n}
<1>1. T \in SUBSET Nat /\ T # {} /\ m + n \in Nat /\ \A t \in T : t <= m + n
  OBVIOUS
<1>2. Min(T) \in T /\ \A t \in T : Min(T) <= t
  <2> HIDE DEF T
  <2> QED BY <1>1, MinIs
<1>3. Max(T) \in T /\ \A t \in T : t <= Max(T)
  <2> HIDE DEF T
  <2> QED BY <1>1, MaxIs
<1> QED BY <1>2, <1>3

LEMMA KeptType ==
  ASSUME NEW S, NEW s \in Seq(S), NEW places
  PROVE  Kept(s, places) \in Seq(S)
<1> DEFINE m == [i \in DOMAIN s |-> IF i \in places THEN <<s[i]>> ELSE <<>>]
<1>1. Len(s) \in Nat /\ DOMAIN s = 1 .. Len(s)
  OBVIOUS
<1>2. ASSUME NEW i \in 1 .. Len(s) PROVE m[i] \in Seq(S)
  BY <1>1
<1>3. m \in [1 .. Len(s) -> Seq(S)]
  <2>1. m = [i \in 1 .. Len(s) |-> m[i]]
    BY <1>1
  <2> HIDE DEF m
  <2> QED BY <1>2, <2>1
<1> HIDE DEF m
<1>4. m \in Seq(Seq(S))
  BY <1>1, <1>3, IsSeq
<1>5. FlattenSeq(m) \in Seq(S)
  BY <1>4, FlattenType
<1> QED BY <1>5 DEF Kept, m

\* A conversation becomes a text.
LEMMA TemplateIsText ==
  ASSUME NEW messages \in Seq([role : STRING, content : Seq(Bytes \ {Cont})])
  PROVE  ApplyChatTemplate(messages) \in Seq(Characters)
<1> DEFINE M == [role : STRING, content : Seq(Characters)]
           known == Kept(messages, {i \in DOMAIN messages : messages[i].role \in Roles})
           parts == [i \in DOMAIN known |-> (IF i = 1 THEN <<>> ELSE Template.separator)
                                            \o Prefix(known[i].role) \o known[i].content]
<1>1. known \in Seq(M)
  <2>1. messages \in Seq(M)
    BY DEF Characters
  <2> HIDE DEF M
  <2> QED BY <2>1, KeptType
<1>3. \A i \in DOMAIN known : known[i].role \in Roles
  <2> DEFINE R == {m \in M : m.role \in Roles}
             places == {i \in DOMAIN messages : messages[i].role \in Roles}
             m == [i \in DOMAIN messages |-> IF i \in places THEN <<messages[i]>> ELSE <<>>]
  <2>1. messages \in Seq(M) /\ Len(messages) \in Nat /\ DOMAIN messages = 1 .. Len(messages)
    BY DEF Characters
  <2>2. ASSUME NEW i \in 1 .. Len(messages) PROVE m[i] \in Seq(R)
    <3>1. m[i] = IF i \in places THEN <<messages[i]>> ELSE <<>>
      BY <2>1
    <3>2. messages[i] \in M
      <4> HIDE DEF M
      <4> QED BY <2>1
    <3>3. i \in places => messages[i] \in R
      BY <3>2
    <3> HIDE DEF R, M, m, places
    <3> QED BY <3>1, <3>3
  <2>3. m \in [1 .. Len(messages) -> Seq(R)]
    <3>1. m = [i \in 1 .. Len(messages) |-> m[i]]
      BY <2>1
    <3> HIDE DEF m, R
    <3> QED BY <2>2, <3>1
  <2> HIDE DEF m, R
  <2>4. m \in Seq(Seq(R))
    BY <2>1, <2>3, IsSeq
  <2>5. FlattenSeq(m) \in Seq(R)
    BY <2>4, FlattenType
  <2>6. known = FlattenSeq(m)
    BY DEF Kept, m
  <2>7. \A i \in DOMAIN known : known[i] \in R
    <3> HIDE DEF known
    <3> QED BY <2>5, <2>6
  <2> HIDE DEF known
  <2> QED BY <2>7 DEF R
<1> HIDE DEF known
<1>4. /\ Template.separator \in Seq(Characters) /\ Template.assistant_prefix \in Seq(Characters)
      /\ Template.thinking_tag \in Seq(Characters) /\ Template.system_prefix \in Seq(Characters)
      /\ Template.user_prefix \in Seq(Characters)
  BY TemplateAssumption DEF IsText, Characters
<1>5. ASSUME NEW role \in Roles PROVE Prefix(role) \in Seq(Characters)
  BY <1>4 DEF Roles, Prefix
<1>6. Len(known) \in Nat /\ DOMAIN known = 1 .. Len(known)
  <2> HIDE DEF M
  <2> QED BY <1>1
<1>7. ASSUME NEW i \in 1 .. Len(known) PROVE parts[i] \in Seq(Characters)
  <2>1. known[i].content \in Seq(Characters) /\ known[i].role \in Roles
    <3>1. known[i] \in M
      <4> HIDE DEF M
      <4> QED BY <1>1, <1>6
    <3>2. known[i].role \in Roles
      BY <1>3, <1>6
    <3> QED BY <3>1, <3>2
  <2> DEFINE a == IF i = 1 THEN <<>> ELSE Template.separator
             b == Prefix(known[i].role)
             c == known[i].content
  <2>2. a \in Seq(Characters) /\ b \in Seq(Characters) /\ c \in Seq(Characters)
    BY <1>4, <1>5, <2>1
  <2>3. parts[i] = a \o b \o c
    BY <1>6
  <2> HIDE DEF a, b, c, parts
  <2>4. a \o b \in Seq(Characters)
    BY <2>2, ConcatText
  <2>5. (a \o b) \o c \in Seq(Characters)
    BY <2>2, <2>4, ConcatText
  <2> QED BY <2>3, <2>5
<1>8. FlattenSeq(parts) \in Seq(Characters)
  <2>1. parts = [i \in 1 .. Len(known) |-> parts[i]]
    BY <1>6
  <2> HIDE DEF parts
  <2>2. parts \in [1 .. Len(known) -> Seq(Characters)]
    BY <1>7, <2>1
  <2>3. parts \in Seq(Seq(Characters))
    BY <1>6, <2>2, IsSeq
  <2> QED BY <2>3, FlattenType
<1>9. ApplyChatTemplate(messages) = FlattenSeq(parts) \o Template.separator \o Template.assistant_prefix
                                      \o Template.thinking_tag
  BY DEF ApplyChatTemplate, known
<1> DEFINE f == FlattenSeq(parts)
<1> HIDE DEF f
<1>10. f \o Template.separator \in Seq(Characters)
  BY <1>4, <1>8, ConcatText DEF f
<1>11. (f \o Template.separator) \o Template.assistant_prefix \in Seq(Characters)
  BY <1>4, <1>10, ConcatText
<1>12. ((f \o Template.separator) \o Template.assistant_prefix) \o Template.thinking_tag \in Seq(Characters)
  BY <1>4, <1>11, ConcatText
<1> QED BY <1>9, <1>12 DEF f

\* What the engine is given is what process_input makes of what the user sent.
PromptInv ==
  /\ call \in Calls
  /\ pc \in {"generate", "running"} => call.params_valid
  /\ pc = "running" => /\ ~EmptyPrompt(Prompt)
                       /\ request = ProcessInput(call.config, Prompt, Params)

LEMMA PromptType ==
  ASSUME call \in Calls
  PROVE  IF Prompt.is_text THEN Prompt.content \in Seq(Characters) ELSE Prompt.content \in Seq(Nat)
<1>1. CASE Chat
  <2>1. Prompt = [is_text |-> TRUE, content |-> ApplyChatTemplate(call.messages)]
    BY <1>1 DEF Prompt
  <2>2. ApplyChatTemplate(call.messages) \in Seq(Characters)
    BY CallsAssumption, TemplateIsText
  <2> QED BY <2>1, <2>2
<1>2. CASE ~Chat
  <2>1. Prompt = call.prompt
    BY <1>2 DEF Prompt
  <2> QED BY <2>1, CallsAssumption DEF IsText, Characters
<1> QED BY <1>1, <1>2

LEMMA PromptRight ==
  ASSUME call \in Calls, call.params_valid, ~EmptyPrompt(Prompt),
         pc = "running" => request = ProcessInput(call.config, Prompt, Params)
  PROVE  PromptExact
<1> SUFFICES ASSUME pc = "running" PROVE PromptExact
  BY DEF PromptExact
<1> DEFINE config == call.config
           limit == MaxPromptLen(config)
           content == Prompt.content
           all == IF Prompt.is_text THEN encode(content) ELSE content
           tokens == SubSeq(all, 1, Min({Len(all), limit}))
           rest == SubSeq(all, Min({Len(all), limit}) + 1, Len(all))
           budget == InferMaxTokens(config, call.max_tokens, tokens)
<1>1. limit \in Nat
  BY CallsAssumption, NoneAssumption DEF MaxPromptLen, Limits
<1>2. /\ request.prompt_token_ids = tokens /\ request.max_tokens = budget
  <2>1. PromptTokens(config, Prompt) = tokens
    BY DEF PromptTokens
  <2>2. Params.max_tokens = call.max_tokens
    BY DEF Params
  <2> HIDE DEF tokens, config
  <2>3. request = [prompt_token_ids |-> tokens,
                   max_tokens |-> InferMaxTokens(config, call.max_tokens, tokens),
                   eos |-> InjectEosTokenId(config, Params.eos)]
    BY <2>1, <2>2 DEF ProcessInput, config
  <2> QED BY <2>3
<1> HIDE DEF limit
<1>3. all \in Seq(Nat) /\ Len(all) \in Nat \ {0}
  <2>1. content # <<>>
    BY DEF EmptyPrompt
  <2>2. CASE Prompt.is_text
    <3>1. content \in Seq(Characters)
      BY <2>2, PromptType
    <3> HIDE DEF content
    <3>2. /\ encode(content) \in Seq(Nat) /\ Joined(encode(content)) = BytesOf(content)
          /\ Len(BytesOf(content)) >= Len(content) /\ Len(content) \in Nat \ {0}
      BY <2>1, <3>1, EncodeIs, EncodingValid
    <3>3. encode(content) # <<>>
      <4>1. Len(<<>>) = 0
        OBVIOUS
      <4>2. BytesOf(content) # <<>>
        BY <3>2, <4>1
      <4> QED BY <3>2, <4>2, JoinedIs
    <3>4. Len(encode(content)) \in Nat \ {0}
      BY <3>2, <3>3
    <3> QED BY <2>2, <3>2, <3>4
  <2>3. CASE ~Prompt.is_text
    <3>1. content \in Seq(Nat)
      BY <2>3, PromptType
    <3> HIDE DEF content
    <3>2. Len(content) \in Nat \ {0}
      BY <2>1, <3>1
    <3> QED BY <2>3, <3>1, <3>2
  <2> QED BY <2>2, <2>3
<1>4. IF Prompt.is_text THEN Joined(all) = BytesOf(content) ELSE all = content
  <2>1. Prompt.is_text => content \in Seq(Characters)
    BY PromptType
  <2> HIDE DEF content
  <2> QED BY <2>1, EncodeIs
<1> HIDE DEF all, budget, content, config
<1> DEFINE n == Min({Len(all), limit})
<1>5. n = (IF Len(all) <= limit THEN Len(all) ELSE limit) /\ n \in 0 .. Len(all)
      /\ Min({1, limit}) = (IF 1 <= limit THEN 1 ELSE limit)
  <2>1. n = IF Len(all) <= limit THEN Len(all) ELSE limit
    BY <1>1, <1>3, TwoOf
  <2>2. Min({1, limit}) = IF 1 <= limit THEN 1 ELSE limit
    BY <1>1, TwoOf
  <2> HIDE DEF n
  <2> QED BY <1>1, <1>3, <2>1, <2>2
<1>6. tokens \in Seq(Nat) /\ Len(tokens) = n /\ rest \in Seq(Nat) /\ all = tokens \o rest
  BY <1>3, <1>5, CutInTwo
<1>7. Len(tokens) < limit => tokens = all
  <2> SUFFICES ASSUME Len(tokens) < limit PROVE tokens = all
    OBVIOUS
  <2>1. n = Len(all)
    BY <1>1, <1>5, <1>6
  <2> QED BY <1>3, <2>1, SubSeqFull
<1> HIDE DEF tokens, rest, n
<1>8. Len(tokens) \in Min({1, limit}) .. limit
  BY <1>1, <1>3, <1>5, <1>6
<1>9. IF Prompt.is_text THEN IsPrefix(Joined(tokens), BytesOf(content)) ELSE IsPrefix(tokens, content)
  <2>1. \A S : \A a, b \in Seq(S) : IsPrefix(a, a \o b)
    <3> SUFFICES ASSUME NEW S, NEW a \in Seq(S), NEW b \in Seq(S) PROVE IsPrefix(a, a \o b)
      OBVIOUS
    <3>1. Len(a) <= Len(a \o b)
      OBVIOUS
    <3>2. SubSeq(a, 1, Len(a)) = SubSeq(a \o b, 1, Len(a))
      <4>1. SubSeq(a \o b, 1, Len(a) + 0) = a \o SubSeq(b, 1, 0)
        BY Parts
      <4>2. SubSeq(b, 1, 0) = <<>> /\ a \o <<>> = a /\ Len(a) + 0 = Len(a) /\ SubSeq(a, 1, Len(a)) = a
        BY SubSeqFull, ConcatEmptySeq
      <4> QED BY <4>1, <4>2
    <3> QED BY <3>1, <3>2 DEF IsPrefix
  <2>2. Joined(all) = Joined(tokens) \o Joined(rest) /\ Joined(tokens) \in Seq(Bytes) /\ Joined(rest) \in Seq(Bytes)
    BY <1>6, JoinedIs
  <2> QED BY <1>4, <1>6, <2>1, <2>2
<1>10. Len(tokens) < limit =>
         IF Prompt.is_text THEN Joined(tokens) = BytesOf(content) ELSE tokens = content
  BY <1>4, <1>7
<1>11. Len(tokens) \in Nat
  BY <1>6
<1> DEFINE left == limit - Len(tokens)
<1>12. Max({left, 1}) = IF left <= 1 THEN 1 ELSE left
  <2>1. left \in Nat
    BY <1>1, <1>5, <1>6
  <2> HIDE DEF left
  <2> QED BY <2>1, TwoOf
<1>13. config.default_max_tokens # 0 => budget >= 1
  <2>1. call.max_tokens \in Limits \ {0} /\ config.default_max_tokens \in Limits
    BY CallsAssumption DEF config
  <2> QED BY <1>1, <1>11, <1>12, <2>1 DEF budget, InferMaxTokens, limit, Limits
<1>14. call.max_tokens = None /\ config.default_max_tokens = None =>
         Len(tokens) + budget <= Max({limit, Len(tokens) + 1})
  <2>1. Max({limit, Len(tokens) + 1}) = IF limit <= Len(tokens) + 1 THEN Len(tokens) + 1 ELSE limit
    <3> DEFINE m == Len(tokens) + 1
    <3>1. m \in Nat
      BY <1>11
    <3> HIDE DEF m
    <3>2. Max({limit, m}) = IF limit <= m THEN m ELSE limit
      BY <1>1, <3>1, TwoOf
    <3> QED BY <3>2 DEF m
  <2> QED BY <1>1, <1>11, <1>12, <2>1 DEF budget, InferMaxTokens, limit
<1> QED BY <1>2, <1>8, <1>9, <1>10, <1>13, <1>14 DEF PromptExact, limit, content, config

LEMMA PromptStep ==
  ASSUME PromptInv, [Next]_vars
  PROVE  PromptInv'
<1>0. call' = call /\ (call' = call => Prompt' = Prompt /\ Params' = Params)
  BY DEF Next, vars, stateVars, Reject, Accept, GenerateRaises, AddRequest, EngineToken,
     EngineEnds, EngineFails, TakeOutput, TakeError, Prompt, Params, Chat, Stop
<1>1. CASE Reject
  BY <1>0, <1>1 DEF PromptInv, Reject, Answer
<1>2. CASE Accept
  BY <1>0, <1>2 DEF PromptInv, Accept
<1>3. CASE GenerateRaises
  BY <1>0, <1>3 DEF PromptInv, GenerateRaises, Raised, Answer
<1>4. CASE AddRequest
  BY <1>0, <1>4 DEF PromptInv, AddRequest
<1>5. CASE EngineToken \/ EngineEnds \/ EngineFails
  BY <1>0, <1>5 DEF PromptInv, EngineToken, EngineEnds, EngineFails
<1>6. CASE TakeOutput
  BY <1>0, <1>6 DEF PromptInv, TakeOutput
<1>7. CASE TakeError
  BY <1>0, <1>7 DEF PromptInv, TakeError, Raised, Answer
<1>8. CASE UNCHANGED vars
  BY <1>0, <1>8 DEF PromptInv, vars
<1> QED BY <1>1, <1>2, <1>3, <1>4, <1>5, <1>6, <1>7, <1>8 DEF Next

\* The engine gets the beginning of what the user sent, as tokens that stand for it.
THEOREM PromptIsExact == Spec => []PromptExact
<1>1. Init => PromptInv
  BY DEF Init, PromptInv
<1>2. PromptInv => PromptExact
  <2>1. pc # "running" => PromptExact
    BY DEF PromptExact
  <2> QED BY <2>1, PromptRight DEF PromptInv
<1> QED BY <1>1, <1>2, PromptStep, PTL DEF Spec
-----------------------------------------------------------------------------
(***************************************************************************)
(* The answer.                                                             *)
(***************************************************************************)
Reasons == {None, "eos", "length", "abort", "stop"}
Outputs == [kind : {"output"}, tokens : Nat, text : Seq(Characters), reason : Reasons]
Errors  == [kind : {"error"}, error : {"EngineDeadError", "Error"}]
Types   == {"role", "output", "chunk", "200", "usage", "[DONE]", "400", "500", "503",
            "ValueError", "EngineDeadError", "EngineGenerateError"}
Events  == [type : Types, text : Seq(Characters), reason : Reasons \cup {"error"}, tokens : Nat]

AnswerTypes ==
  /\ call \in Calls /\ pc \in States
  /\ token_ids \in Seq(Nat) /\ reason \in Reasons
  /\ sent_tokens \in Nat /\ sent_tokens <= Len(token_ids)
  /\ detokenizer \in Detokenizers /\ left_out \in BOOLEAN
  /\ collector \in {Nothing} \cup Outputs \cup Errors
  /\ taken \in Seq(Seq(Characters)) /\ response \in Seq(Events)

\* Nothing has come from the engine.
Fresh ==
  /\ token_ids = <<>> /\ reason = None /\ sent_tokens = 0 /\ ~left_out
  /\ detokenizer = NewDetokenizer /\ collector = Nothing /\ taken = <<>>

\* Until the end the detokenizer has the text of every token, and no stop string in it.
TextInv ==
  /\ pc \in {"new", "generate"} \/ ~call.params_valid => Fresh
  /\ ~call.params_valid => pc \in {"new", "done"}
  /\ call.params_valid /\ ~Ended =>
       /\ Follows(detokenizer, Params, token_ids) /\ detokenizer.count = Len(token_ids)
       /\ NoStops(detokenizer, Params) /\ HeldBack(detokenizer, Params) /\ ~left_out
  /\ Ended => StopAtOnce

\* The end is in the collector until it is taken, and before it no end is.
CollectorInv ==
  /\ collector.kind = "output" => pc = "running" /\ collector.reason = reason
  /\ collector.kind = "error" => pc = "running"
  /\ pc = "running" /\ Ended => collector.kind # "nothing"
  /\ pc = "running" => call.params_valid

StreamInv ==
  Kind = "DELTA" /\ pc = "running" =>
    /\ detokenizer.sent <= Len(detokenizer.output_text)
    /\ Ended => detokenizer.sent = Len(detokenizer.output_text)
    /\ collector.kind # "error" =>
         Streamed = SubSeq(detokenizer.output_text, 1, detokenizer.sent)

HeldTokens == IF collector.kind = "output" THEN collector.tokens ELSE 0

LEMMA CallRight ==
  ASSUME call \in Calls
  PROVE  /\ Stop \in Seq(Seq(Characters)) /\ Params.stop = Stop
         /\ Params.min_tokens = call.min_tokens /\ call.min_tokens \in Int
         /\ Params.include_stop = call.include_stop /\ call.include_stop \in BOOLEAN
         /\ Params.tokenizer = call.config.tokenizer /\ call.config.tokenizer \in BOOLEAN
         /\ Kind \in OutputKinds /\ call.stream \in BOOLEAN /\ call.endpoint \in Endpoints
         /\ call.params_valid \in BOOLEAN
         /\ call.params_valid => ParamsOK(Params)
<1>1. /\ call.min_tokens \in Int /\ call.include_stop \in BOOLEAN
      /\ call.config.tokenizer \in BOOLEAN /\ call.output_kind \in OutputKinds
      /\ call.stream \in BOOLEAN /\ call.endpoint \in Endpoints
      /\ call.params_valid \in BOOLEAN
      /\ call.stop = None \/ call.stop \in Seq(Seq(Characters))
      /\ call.params_valid => /\ call.min_tokens \in Nat
                              /\ call.stop # None => \A k \in DOMAIN call.stop : call.stop[k] # <<>>
  BY CallsAssumption DEF Characters
<1>2. Template.stop_tokens \in Seq(Seq(Characters) \ {<<>>})
  BY TemplateAssumption DEF Characters
<1>3. /\ Params.stop = Stop /\ Params.min_tokens = call.min_tokens
      /\ Params.include_stop = call.include_stop /\ Params.tokenizer = call.config.tokenizer
  BY DEF Params
<1>4. Kind \in OutputKinds
  BY <1>1 DEF Kind, OutputKinds
<1>5. Seq(Seq(Characters) \ {<<>>}) \subseteq Seq(Seq(Characters))
  <2>1. \A s \in Seq(Seq(Characters) \ {<<>>}) : s \in Seq(Seq(Characters))
    OBVIOUS
  <2> QED BY <2>1
<1>6. Stop \in Seq(Seq(Characters))
  <2>1. CASE call.stop # None
    BY <1>1, <2>1 DEF Stop
  <2>2. CASE call.stop = None /\ Chat
    BY <1>2, <1>5, <2>2 DEF Stop, GetDefaultStopTokens
  <2>3. CASE call.stop = None /\ ~Chat
    BY <2>3 DEF Stop
  <2> QED BY <2>1, <2>2, <2>3
<1>7. ASSUME call.params_valid PROVE Stop \in Seq(Seq(Characters) \ {<<>>})
  <2>1. CASE call.stop # None
    <3>1. Stop = call.stop
      BY <2>1 DEF Stop
    <3>2. \A k \in DOMAIN Stop : Stop[k] \in Seq(Characters) \ {<<>>}
      BY <1>1, <1>6, <1>7, <2>1, <3>1
    <3> DEFINE s == Stop
    <3>3. s \in Seq(Seq(Characters)) /\ \A k \in DOMAIN s : s[k] \in Seq(Characters) \ {<<>>}
      BY <1>6, <3>2
    <3> HIDE DEF s
    <3>4. Len(s) \in Nat /\ s \in [1 .. Len(s) -> Seq(Characters) \ {<<>>}]
      BY <3>3
    <3>5. s \in Seq(Seq(Characters) \ {<<>>})
      BY <3>4, IsSeq
    <3> QED BY <3>5 DEF s
  <2>2. CASE call.stop = None /\ Chat
    BY <1>2, <2>2 DEF Stop, GetDefaultStopTokens
  <2>3. CASE call.stop = None /\ ~Chat
    BY <2>3 DEF Stop
  <2> QED BY <2>1, <2>2, <2>3
<1>8. call.params_valid => ParamsOK(Params)
  BY <1>1, <1>3, <1>7 DEF ParamsOK
<1> QED BY <1>1, <1>3, <1>4, <1>6, <1>8

LEMMA CallSame ==
  ASSUME call' = call
  PROVE  Params' = Params /\ Kind' = Kind /\ Stop' = Stop /\ Chat' = Chat /\ Prompt' = Prompt
BY DEF Params, Kind, Stop, Chat, Prompt

LEMMA StopAtOnceIs ==
  StopAtOnce <=> (call.config.tokenizer =>
                    AtOnce(Counting, Params, detokenizer.output_text, reason = "stop"))
<1>1. Params.stop = Stop
  BY DEF Params
<1>2. \A n : TextAfter(n) = TextOfFirst(Counting, n)
  BY DEF TextAfter, BytesAfter, TextOfFirst, TextIn
<1>3. WellFormed <=> RestOf(Joined(SubSeq(Counting, 1, Len(Counting)))) \in {<<>>, <<Lead>>}
  BY DEF WellFormed, BytesAfter, RestOf
<1> DEFINE from == Len(TextOfFirst(Counting, Min({Params.min_tokens, Len(Counting)})))
<1>4. \A text, k : StopsIn(text, k) = StopsBehind(text, Params.stop[k], from)
  BY <1>1, <1>2 DEF StopsIn, StopsBehind
<1>5. \A k, m : CutAt(Params, k, m) = m + (IF Params.include_stop THEN Len(Stop[k]) ELSE 0)
  BY <1>1 DEF CutAt
<1> QED BY <1>1, <1>2, <1>3, <1>4, <1>5 DEF StopAtOnce, AtOnce

LEMMA StopAtOnceNext ==
  StopAtOnce' <=> (call'.config.tokenizer =>
                    AtOnce(Counting', Params', detokenizer'.output_text, reason' = "stop"))
<1>1. Params'.stop = Stop'
  BY DEF Params
<1>2. \A n : TextAfter(n)' = TextOfFirst(Counting', n)
  BY DEF TextAfter, BytesAfter, TextOfFirst, TextIn
<1>3. WellFormed' <=> RestOf(Joined(SubSeq(Counting', 1, Len(Counting')))) \in {<<>>, <<Lead>>}
  BY DEF WellFormed, BytesAfter, RestOf
<1> DEFINE from == Len(TextOfFirst(Counting', Min({Params'.min_tokens, Len(Counting')})))
<1>4. \A text, k : StopsIn(text, k)' = StopsBehind(text, Params'.stop[k], from)
  BY <1>1, <1>2 DEF StopsIn, StopsBehind
<1>5. \A k, m : CutAt(Params', k, m) = m + (IF Params'.include_stop THEN Len(Stop'[k]) ELSE 0)
  BY <1>1 DEF CutAt
<1> QED BY <1>1, <1>2, <1>3, <1>4, <1>5 DEF StopAtOnce, AtOnce

LEMMA TextUnchanged ==
  ASSUME call' = call, UNCHANGED stateVars
  PROVE  StopAtOnce' <=> StopAtOnce
BY CallSame, StopAtOnceIs, StopAtOnceNext DEF stateVars, Counting

\* What Process does to the text.
Processed(tokens, ended, update, why) ==
  /\ update.matched \in BOOLEAN /\ update.d \in Detokenizers /\ KeepsSent(detokenizer, update.d)
  /\ why \in Reasons
  /\ AdvancesTo(update.d, Params, why # None, Kind = "DELTA", detokenizer',
                NextText(update.d, Params, why # None, Kind = "DELTA"))
  /\ token_ids' = token_ids \o tokens /\ token_ids' \in Seq(Nat)
  /\ Len(token_ids') = Len(token_ids) + Len(tokens)
  /\ reason' = why /\ left_out' \in BOOLEAN
  /\ why = None => /\ Follows(detokenizer', Params, token_ids')
                   /\ detokenizer'.count = Len(token_ids') /\ NoStops(detokenizer', Params)
                   /\ HeldBack(detokenizer', Params) /\ ~left_out'
  /\ why # None => StopAtOnce'

LEMMA ProcessRight ==
  ASSUME AnswerTypes, TextInv, call.params_valid, reason = None, call' = call,
         NEW tokens, tokens = <<>> \/ \E t \in Nat : tokens = <<t>>,
         NEW ended \in Reasons \ {"stop"}, tokens = <<>> => ended # None,
         Process(tokens, ended)
  PROVE  LET update == Update(detokenizer, Params, tokens, ended # None)
         IN  Processed(tokens, ended, update, IF update.matched THEN "stop" ELSE ended)
<1> DEFINE update == Update(detokenizer, Params, tokens, ended # None)
           why == IF update.matched THEN "stop" ELSE ended
           f == ended # None
           left == f /\ ~Params.include_stop
           p == Params
           d == detokenizer
<1>1. /\ ParamsOK(p) /\ Params' = p /\ Kind \in OutputKinds
      /\ Params.include_stop = call.include_stop /\ call.include_stop \in BOOLEAN
      /\ Params.tokenizer = call.config.tokenizer /\ call.config.tokenizer \in BOOLEAN
  BY CallRight, CallSame DEF AnswerTypes
<1>2. /\ Follows(d, p, token_ids) /\ d.count = Len(token_ids) /\ NoStops(d, p) /\ HeldBack(d, p)
      /\ d \in Detokenizers /\ token_ids \in Seq(Nat)
  BY DEF TextInv, AnswerTypes, Ended
<1>3. /\ token_ids' = token_ids \o tokens /\ reason' = why
      /\ left_out' = (f /\ tokens # <<>> /\ ~call.include_stop)
      /\ detokenizer' = Advanced(update.d, p, why # None, Kind = "DELTA")
  BY DEF Process
<1>4. None \notin {"eos", "length", "abort", "stop", "error"}
  BY NoneAssumption
<1> HIDE DEF p, d
<1>5. /\ update.matched \in BOOLEAN /\ KeepsSent(d, update.d)
      /\ token_ids' \in Seq(Nat) /\ Len(token_ids') = Len(token_ids) + Len(tokens)
      /\ ~update.matched /\ ~f => /\ Follows(update.d, p, token_ids')
                                  /\ update.d.count = Len(token_ids')
                                  /\ NoStops(update.d, p) /\ HeldBack(update.d, p)
      /\ p.tokenizer => AtOnce(Counting', p, update.d.output_text, update.matched)
  <2>1. CASE tokens = <<>>
    <3>1. update = [matched |-> FALSE, d |-> d]
      BY <2>1, UpdateIs DEF p, d
    <3>2. token_ids' = token_ids /\ Len(tokens) = 0 /\ Len(token_ids) \in Nat
      BY <1>2, <1>3, <2>1
    <3>3. Counting' = token_ids
      BY <1>3, <2>1, <3>2 DEF Counting
    <3>4. KeepsSent(d, d)
      BY <1>2 DEF KeepsSent, HeldBack
    <3>5. p.tokenizer => AtOnce(token_ids, p, d.output_text, FALSE)
      BY <1>2, FollowsAtOnce
    <3>6. update.matched = FALSE /\ update.d = d /\ f
      BY <2>1, <3>1
    <3>7. Len(token_ids') = Len(token_ids) + Len(tokens)
      BY <3>2
    <3>8. p.tokenizer => AtOnce(Counting', p, update.d.output_text, update.matched)
      BY <3>3, <3>5, <3>6, Zenon
    <3> HIDE DEF update
    <3> QED BY <1>2, <3>2, <3>4, <3>6, <3>7, <3>8
  <2>2. CASE \E t \in Nat : tokens = <<t>>
    <3>1. PICK t \in Nat : tokens = <<t>>
      BY <2>2
    <3> DEFINE counting == IF f /\ ~p.include_stop THEN token_ids ELSE token_ids \o <<t>>
    <3>2. PICK d2 : Outcome(d, p, token_ids, counting, d2, Update(d, p, <<t>>, f))
      <4>1. f \in BOOLEAN
        OBVIOUS
      <4> HIDE DEF f
      <4> QED BY <1>1, <1>2, <4>1, UpdateRight
    <3>3. update = Update(d, p, <<t>>, f)
      BY <3>1 DEF p, d
    <3>4. /\ token_ids \o <<t>> \in Seq(Nat) /\ Len(token_ids \o <<t>>) = Len(token_ids) + 1
          /\ Len(tokens) = 1 /\ tokens # <<>> /\ Len(token_ids) \in Nat
      BY <1>2, <3>1, FirstTokens
    <3>5. Counting' = counting
      <4>1. left_out' = (f /\ ~p.include_stop)
        BY <1>1, <1>3, <3>4 DEF p
      <4>2. Front(token_ids \o <<t>>) = token_ids
        <5>1. SubSeq(token_ids \o <<t>>, 1, Len(token_ids)) = SubSeq(token_ids, 1, Len(token_ids))
              /\ SubSeq(token_ids, 1, Len(token_ids)) = token_ids
          BY <1>2, <3>4, FirstTokens
        <5>2. Len(token_ids \o <<t>>) - 1 = Len(token_ids)
          BY <3>4
        <5> QED BY <5>1, <5>2 DEF Front
      <4> QED BY <1>3, <3>1, <4>1, <4>2 DEF Counting
    <3> HIDE DEF update
    <3>6. Outcome(d, p, token_ids, counting, d2, update)
      BY <3>2, <3>3
    <3>7. counting \in {token_ids, token_ids \o <<t>>}
      OBVIOUS
    <3>8. p.tokenizer => AtOnce(counting, p, update.d.output_text, update.matched)
      <4> HIDE DEF counting
      <4> QED BY <1>1, <1>2, <3>6, <3>7, OutcomeAtOnce
    <3>9. /\ update.matched \in BOOLEAN /\ KeepsSent(d, update.d)
          /\ update.matched = FALSE => HeldBack(update.d, p)
      <4> HIDE DEF counting
      <4> QED BY <1>1, <1>2, <3>6, OutcomeKeepsSent
    <3>10. ASSUME ~update.matched, ~f
           PROVE  /\ Follows(update.d, p, token_ids') /\ update.d.count = Len(token_ids')
                  /\ NoStops(update.d, p) /\ HeldBack(update.d, p)
      <4>1. counting = token_ids'
        BY <1>3, <3>1, <3>10
      <4>2. update.d = d2 /\ NoStops(d2, p)
        BY <3>6, <3>9, <3>10 DEF Outcome
      <4>3. Follows(d2, p, counting) /\ d2.count = Len(token_ids) + 1
        BY <3>6 DEF Outcome
      <4> HIDE DEF counting
      <4> QED BY <1>3, <3>1, <3>4, <3>9, <3>10, <4>1, <4>2, <4>3
    <3> HIDE DEF counting
    <3> QED BY <1>3, <3>1, <3>4, <3>5, <3>8, <3>9, <3>10
  <2> QED BY <2>1, <2>2
<1> HIDE DEF update
<1>6. why \in Reasons /\ (why = None <=> ~update.matched /\ ~f) /\ (why = "stop" <=> update.matched)
  BY <1>4, <1>5 DEF Reasons
<1>7. update.d \in Detokenizers /\ update.d.sent <= Len(update.d.output_text)
  BY <1>5 DEF KeepsSent
<1> DEFINE next == NextText(update.d, p, why # None, Kind = "DELTA")
<1>8. AdvancesTo(update.d, p, why # None, Kind = "DELTA", detokenizer', next)
  <2> DEFINE fin == why # None
             delta == Kind = "DELTA"
             u == update.d
  <2>1. fin \in BOOLEAN /\ delta \in BOOLEAN /\ detokenizer' = Advanced(u, p, fin, delta)
        /\ u \in Detokenizers /\ u.sent <= Len(u.output_text)
    BY <1>3, <1>7
  <2> HIDE DEF fin, delta, u
  <2>2. AdvancesTo(u, p, fin, delta, detokenizer', NextText(u, p, fin, delta))
    BY <1>1, <2>1, AdvancedIs
  <2> QED BY <2>2 DEF fin, delta, u
<1>9. ASSUME why = None
      PROVE  /\ Follows(detokenizer', p, token_ids') /\ detokenizer'.count = Len(token_ids')
             /\ NoStops(detokenizer', p) /\ HeldBack(detokenizer', p) /\ ~left_out'
  <2>1. ~update.matched /\ ~f
    BY <1>6, <1>9
  <2>2. /\ Follows(update.d, p, token_ids') /\ update.d.count = Len(token_ids')
        /\ NoStops(update.d, p) /\ HeldBack(update.d, p)
    BY <1>5, <2>1
  <2>3. /\ detokenizer' \in Detokenizers /\ detokenizer'.output_text = update.d.output_text
        /\ detokenizer'.byte_buffer = update.d.byte_buffer
        /\ detokenizer'.count = update.d.count /\ detokenizer'.min_offset = update.d.min_offset
        /\ HeldBack(detokenizer', p)
    BY <1>8, <1>9, <2>2 DEF AdvancesTo
  <2>4. Follows(detokenizer', p, token_ids')
    BY <2>2, <2>3 DEF Follows
  <2>5. NoStops(detokenizer', p)
    BY <2>2, <2>3 DEF NoStops
  <2> QED BY <1>3, <2>1, <2>2, <2>3, <2>4, <2>5
<1>10. StopAtOnce'
  <2>1. detokenizer'.output_text = update.d.output_text
    BY <1>8 DEF AdvancesTo
  <2>2. (reason' = "stop") = update.matched
    BY <1>3, <1>5, <1>6
  <2>3. p.tokenizer => AtOnce(Counting', p, detokenizer'.output_text, reason' = "stop")
    BY <1>5, <2>1, <2>2
  <2> QED BY <1>1, <2>3, StopAtOnceNext DEF p
<1>11. left_out' \in BOOLEAN
  BY <1>1, <1>3
<1> HIDE DEF why, next
<1>12. Processed(tokens, ended, update, why)
  BY <1>3, <1>5, <1>6, <1>7, <1>8, <1>9, <1>10, <1>11 DEF Processed, p, d, next
<1> QED BY <1>12 DEF update, why

\* A token, or the end without one.
EngineStep(tokens, ended) ==
  /\ pc = "running" /\ reason = None /\ collector.kind # "error"
  /\ tokens = <<>> \/ \E t \in Nat : tokens = <<t>>
  /\ ended \in Reasons \ {"stop"} /\ (tokens = <<>> => ended # None)
  /\ Process(tokens, ended)
  /\ UNCHANGED <<call, pc, request, taken, response>>

LEMMA EngineSteps ==
  ASSUME EngineToken \/ EngineEnds
  PROVE  \E tokens, ended : EngineStep(tokens, ended)
<1>0. None \notin {"eos", "length", "abort", "stop", "error"}
  BY NoneAssumption
<1>1. CASE EngineEnds
  <2>1. PICK ended \in {"abort", "length"} : Process(<<>>, ended)
    BY <1>1 DEF EngineEnds
  <2>2. ended \in Reasons \ {"stop"} /\ ended # None
    BY <1>0 DEF Reasons
  <2>3. EngineStep(<<>>, ended)
    BY <1>1, <2>1, <2>2 DEF EngineStep, EngineEnds
  <2> QED BY <2>3
<1>2. CASE EngineToken
  <2>1. PICK token \in DOMAIN Vocab :
          \E ended \in CASE token = request.eos -> {"eos"}
                         [] token # request.eos /\ Len(token_ids) + 1 >= request.max_tokens -> {"length"}
                         [] OTHER -> {None, "length"} :
            Process(<<token>>, ended)
    BY <1>2 DEF EngineToken
  <2>2. PICK ended \in {"eos", "length", None} : Process(<<token>>, ended)
    <3>1. CASE token = request.eos
      BY <2>1, <3>1
    <3>2. CASE token # request.eos /\ Len(token_ids) + 1 >= request.max_tokens
      BY <2>1, <3>2
    <3>3. CASE ~(token = request.eos) /\ ~(token # request.eos /\ Len(token_ids) + 1 >= request.max_tokens)
      BY <2>1, <3>3
    <3> QED BY <3>1, <3>2, <3>3
  <2>3. token \in Nat
    BY VocabAssumption
  <2>4. ended \in Reasons \ {"stop"}
    BY <1>0 DEF Reasons
  <2>5. <<token>> # <<>>
    OBVIOUS
  <2>6. EngineStep(<<token>>, ended)
    BY <1>2, <2>2, <2>3, <2>4, <2>5 DEF EngineStep, EngineToken
  <2> QED BY <2>6
<1> QED BY <1>1, <1>2

LEMMA PutRight ==
  ASSUME collector \in {Nothing} \cup Outputs, collector.kind = "output" => collector.reason = None,
         NEW new \in Outputs, Put(new)
  PROVE  /\ collector' \in Outputs /\ collector'.reason = new.reason
         /\ Kind = "DELTA" => /\ collector'.tokens = HeldTokens + new.tokens
                              /\ collector'.text = Held \o new.text
         /\ Kind # "DELTA" => collector'.tokens = new.tokens /\ collector'.text = new.text
<1>1. CASE collector = Nothing
  <2>1. collector.kind = "nothing"
    BY <1>1 DEF Nothing
  <2>2. collector' = new
    BY <2>1 DEF Put
  <2>3. Held = <<>> /\ HeldTokens = 0
    BY <2>1 DEF Held, HeldTokens
  <2>4. new.text \in Seq(Characters) /\ new.tokens \in Nat
    BY DEF Outputs
  <2>5. <<>> \o new.text = new.text
    BY <2>4, ConcatEmptySeq
  <2> QED BY <2>2, <2>3, <2>4, <2>5
<1>2. CASE collector \in Outputs
  <2>1. collector.kind = "output" /\ new.kind = "output" /\ collector.reason = None
    BY <1>2 DEF Outputs
  <2>2. collector' = Merge(collector, new)
    BY <2>1 DEF Put
  <2>3. Held = collector.text /\ HeldTokens = collector.tokens
    BY <2>1 DEF Held, HeldTokens
  <2>4. new.text \in Seq(Characters) /\ new.tokens \in Nat /\ new.reason \in Reasons
        /\ collector.text \in Seq(Characters) /\ collector.tokens \in Nat
    BY <1>2 DEF Outputs
  <2> DEFINE both == collector.text \o new.text
             sum == collector.tokens + new.tokens
  <2>5. both \in Seq(Characters) /\ sum \in Nat
    BY <2>4, ConcatText
  <2>6. (IF new.reason = None THEN collector.reason ELSE new.reason) = new.reason
    BY <2>1
  <2>7. CASE Kind = "DELTA"
    <3>1. collector' = [new EXCEPT !.text = both, !.tokens = sum, !.reason = new.reason]
      BY <2>1, <2>2, <2>6, <2>7 DEF Merge
    <3> HIDE DEF both, sum
    <3>2. collector' \in Outputs /\ collector'.text = both /\ collector'.tokens = sum
          /\ collector'.reason = new.reason
      BY <2>4, <2>5, <3>1 DEF Outputs
    <3> QED BY <2>3, <2>7, <3>2 DEF both, sum
  <2>8. CASE Kind # "DELTA"
    <3>1. collector' = [new EXCEPT !.reason = new.reason]
      BY <2>1, <2>2, <2>6, <2>8 DEF Merge
    <3>2. collector' = new
      BY <3>1 DEF Outputs
    <3> QED BY <2>8, <3>2
  <2> QED BY <2>7, <2>8
<1> QED BY <1>1, <1>2

\* What a step of the engine does to the collector.
Collected(update, why, next) ==
  \/ /\ Kind = "FINAL_ONLY" /\ why = None
     /\ collector' = collector /\ sent_tokens' = sent_tokens
  \/ /\ ~(Kind = "FINAL_ONLY" /\ why = None)
     /\ sent_tokens' = (IF why = None THEN Len(token_ids') ELSE sent_tokens)
     /\ collector' \in Outputs /\ collector'.reason = why
     /\ Kind = "DELTA" => /\ collector'.tokens = HeldTokens + (Len(token_ids') - sent_tokens)
                          /\ collector'.text = Held \o next
     /\ Kind # "DELTA" => collector'.tokens = Len(token_ids') /\ collector'.text = next

LEMMA EngineRight ==
  ASSUME AnswerTypes, TextInv, CollectorInv, NEW tokens, NEW ended, EngineStep(tokens, ended)
  PROVE  \E update, why :
           /\ Processed(tokens, ended, update, why)
           /\ Collected(update, why, NextText(update.d, Params, why # None, Kind = "DELTA"))
<1> DEFINE update == Update(detokenizer, Params, tokens, ended # None)
           why == IF update.matched THEN "stop" ELSE ended
           next == NextText(update.d, Params, why # None, Kind = "DELTA")
           all == token_ids \o tokens
           new == MakeRequestOutput(all, sent_tokens, update.d, why)
<1>1. call.params_valid /\ reason = None /\ call' = call /\ Process(tokens, ended)
  BY DEF EngineStep, CollectorInv
<1>2. Processed(tokens, ended, update, why)
  <2>1. /\ tokens = <<>> \/ \E t \in Nat : tokens = <<t>>
        /\ ended \in Reasons \ {"stop"} /\ (tokens = <<>> => ended # None)
    BY DEF EngineStep
  <2> QED BY <1>1, <2>1, ProcessRight
<1>3. collector \in {Nothing} \cup Outputs /\ (collector.kind = "output" => collector.reason = None)
  <2>1. collector \in {Nothing} \cup Outputs \cup Errors /\ collector.kind # "error"
    BY DEF AnswerTypes, EngineStep
  <2>2. \A e \in Errors : e.kind = "error"
    BY DEF Errors
  <2> QED BY <1>1, <2>1, <2>2 DEF CollectorInv
<1>4. IF Kind = "FINAL_ONLY" /\ why = None THEN UNCHANGED <<collector, sent_tokens>>
      ELSE /\ Put(new)
           /\ sent_tokens' = IF why = None THEN Len(all) ELSE sent_tokens
  BY <1>1 DEF Process
<1>5. new = [kind |-> "output", tokens |-> Len(all) - (IF Kind = "DELTA" THEN sent_tokens ELSE 0),
             text |-> next, reason |-> why]
  BY DEF MakeRequestOutput
<1>6. token_ids' = all /\ why \in Reasons /\ next \in Seq(Characters) /\ Len(all) \in Nat
      /\ sent_tokens \in Nat /\ sent_tokens <= Len(all)
  <2>1. token_ids' = all /\ why \in Reasons /\ next \in Seq(Characters)
        /\ Len(all) = Len(token_ids) + Len(tokens) /\ Len(all) \in Nat
    BY <1>2 DEF Processed, AdvancesTo
  <2>2. Len(tokens) \in Nat
    BY DEF EngineStep
  <2>3. sent_tokens \in Nat /\ sent_tokens <= Len(token_ids) /\ Len(token_ids) \in Nat
    BY DEF AnswerTypes
  <2> HIDE DEF all, next, why
  <2>4. sent_tokens <= Len(all)
    BY <2>1, <2>2, <2>3
  <2> QED BY <2>1, <2>3, <2>4
<1> HIDE DEF update, why, next, all
<1>7. CASE Kind = "FINAL_ONLY" /\ why = None
  <2>1. Collected(update, why, next)
    BY <1>4, <1>7 DEF Collected
  <2> QED BY <1>2, <2>1 DEF next
<1>8. CASE ~(Kind = "FINAL_ONLY" /\ why = None)
  <2>1. Put(new) /\ sent_tokens' = (IF why = None THEN Len(all) ELSE sent_tokens)
    BY <1>4, <1>8
  <2> DEFINE count == Len(all) - (IF Kind = "DELTA" THEN sent_tokens ELSE 0)
  <2>2. count \in Nat
    <3>1. CASE Kind = "DELTA"
      BY <1>6, <3>1
    <3>2. CASE Kind # "DELTA"
      BY <1>6, <3>2
    <3> QED BY <3>1, <3>2
  <2>3. new = [kind |-> "output", tokens |-> count, text |-> next, reason |-> why]
    BY <1>5
  <2> HIDE DEF new, count
  <2>4. new \in Outputs /\ new.tokens = count /\ new.text = next /\ new.reason = why
    BY <1>6, <2>2, <2>3 DEF Outputs
  <2>5. /\ collector' \in Outputs /\ collector'.reason = new.reason
        /\ Kind = "DELTA" => /\ collector'.tokens = HeldTokens + new.tokens
                             /\ collector'.text = Held \o new.text
        /\ Kind # "DELTA" => collector'.tokens = new.tokens /\ collector'.text = new.text
    BY <1>3, <2>1, <2>4, PutRight
  <2>6. Kind = "DELTA" => count = Len(all) - sent_tokens
    BY DEF count
  <2>7. Kind # "DELTA" => count = Len(all)
    BY <1>6 DEF count
  <2>8. Collected(update, why, next)
    BY <1>6, <1>8, <2>1, <2>4, <2>5, <2>6, <2>7 DEF Collected
  <2> QED BY <1>2, <2>8 DEF next
<1> QED BY <1>7, <1>8

\* What ends an answer that does not end well.
Broken(events) ==
  /\ events \in Seq(Events)
  /\ call.endpoint # "library" =>
       \A i \in DOMAIN events : /\ events[i].type \in {"chunk", "400", "500", "503"}
                                /\ events[i].reason \in {None, "error"}

LEMMA OneEvent ==
  ASSUME NEW type \in Types, NEW why \in {None, "error"},
         call.endpoint # "library" => type \in {"chunk", "400", "500", "503"}
  PROVE  Event(type, <<>>, why) \in Events /\ Broken(<<Event(type, <<>>, why)>>)
<1> DEFINE e == Event(type, <<>>, why)
<1>1. e \in Events /\ e.type = type /\ e.reason = why
  <2>1. <<>> \in Seq(Characters) /\ why \in Reasons \cup {"error"}
    BY DEF Reasons
  <2> QED BY <2>1 DEF Event, Events
<1> HIDE DEF e
<1>2. <<e>> \in Seq(Events) /\ \A i \in DOMAIN <<e>> : <<e>>[i] = e
  BY <1>1
<1> QED BY <1>1, <1>2 DEF Broken, e

LEMMA NoEvents == Broken(<<>>)
BY DEF Broken

LEMMA RaisedIs ==
  ASSUME NEW e \in {"ValueError", "EngineDeadError", "EngineGenerateError"}, Raised(e)
  PROVE  pc' = "done" /\ \E events : Broken(events) /\ response' = response \o events
<1>1. CASE call.endpoint = "library"
  <2>1. Answer(<<Status(e)>>)
    BY <1>1 DEF Raised
  <2>2. Broken(<<Status(e)>>)
    BY <1>1, OneEvent DEF Status, Types
  <2> QED BY <2>1, <2>2 DEF Answer
<1>2. CASE call.endpoint # "library" /\ call.stream
  <2>1. Answer(IF e = "ValueError" THEN <<>> ELSE <<Event("chunk", <<>>, "error")>>)
    BY <1>2 DEF Raised
  <2>2. Broken(<<Event("chunk", <<>>, "error")>>)
    BY OneEvent DEF Types
  <2> QED BY <2>1, <2>2, NoEvents DEF Answer
<1>3. CASE call.endpoint # "library" /\ ~call.stream
  <2>1. Answer(<<Status(IF e = "EngineDeadError" THEN "503" ELSE "500")>>)
    BY <1>3 DEF Raised
  <2>2. Broken(<<Status("503")>>) /\ Broken(<<Status("500")>>)
    BY OneEvent DEF Status, Types
  <2> QED BY <2>1, <2>2 DEF Answer
<1> QED BY <1>1, <1>2, <1>3

LEMMA RejectIs ==
  ASSUME Reject
  PROVE  pc' = "done" /\ \E events : Broken(events) /\ response' = response \o events
<1>1. CASE Chat /\ Answer(<<Status("400")>>)
  <2>1. Broken(<<Status("400")>>)
    BY OneEvent DEF Status, Types
  <2> QED BY <1>1, <2>1 DEF Answer
<1>2. CASE Answer(<<Status(IF call.endpoint = "library" THEN "ValueError" ELSE "500")>>)
  <2> DEFINE type == IF call.endpoint = "library" THEN "ValueError" ELSE "500"
  <2>1. type \in Types /\ (call.endpoint # "library" => type \in {"chunk", "400", "500", "503"})
    BY DEF Types
  <2> HIDE DEF type
  <2>2. Broken(<<Status(type)>>)
    BY <2>1, OneEvent DEF Status
  <2> QED BY <1>2, <2>2 DEF Answer, type
<1> QED BY <1>1, <1>2 DEF Reject

LEMMA PassedType ==
  ASSUME NEW out \in Outputs
  PROVE  /\ Passed(out) \in Seq(Events)
         /\ \A type \in Types : Chunk(type, out) \in Events
         /\ Usage(out) \in Events /\ Done \in Events
<1>1. out.text \in Seq(Characters) /\ out.reason \in Reasons \cup {"error"} /\ out.tokens \in Nat
  BY DEF Outputs
<1>2. \A type \in Types : Chunk(type, out) \in Events
  BY <1>1 DEF Chunk, Event, Events
<1>3. <<>> \in Seq(Characters) /\ None \in Reasons
  BY DEF Reasons
<1>4. Usage(out) \in Events
  BY <1>1, <1>3 DEF Usage, Event, Events, Types
<1>5. Done \in Events
  BY <1>3 DEF Done, Event, Events, Types
<1>6. Chunk("output", out) \in Events /\ Chunk("chunk", out) \in Events /\ Chunk("200", out) \in Events
  BY <1>2 DEF Types
<1> DEFINE a == Chunk("output", out)
           b == Chunk("chunk", out)
           c == Chunk("200", out)
           u == Usage(out)
           done == Done
<1>7. a \in Events /\ b \in Events /\ c \in Events /\ u \in Events /\ done \in Events
  BY <1>4, <1>5, <1>6
<1> HIDE DEF a, b, c, u, done
<1>8. <<a>> \in Seq(Events) /\ <<b>> \in Seq(Events) /\ <<c>> \in Seq(Events)
      /\ <<u, done>> \in Seq(Events) /\ <<>> \in Seq(Events)
  BY <1>7
<1>9. <<b>> \o (IF out.reason = None THEN <<>> ELSE <<u, done>>) \in Seq(Events)
  BY <1>8
<1>10. Passed(out) \in Seq(Events)
  <2>1. CASE call.endpoint = "library"
    BY <1>8, <2>1 DEF Passed, a
  <2>2. CASE call.endpoint # "library" /\ call.stream
    BY <1>9, <2>2 DEF Passed, b, u, done
  <2>3. CASE call.endpoint # "library" /\ ~call.stream
    BY <1>8, <2>3 DEF Passed, Returned, c
  <2> QED BY <2>1, <2>2, <2>3
<1> QED BY <1>2, <1>4, <1>5, <1>10

LEMMA TypesStep ==
  ASSUME AnswerTypes, TextInv, CollectorInv, [Next]_vars
  PROVE  AnswerTypes'
<1> USE DEF AnswerTypes
<1>0. None \notin {"eos", "length", "abort", "stop", "error"}
  BY NoneAssumption
<1>1. CASE Reject
  <2>1. PICK events : Broken(events) /\ response' = response \o events /\ pc' = "done"
    BY <1>1, RejectIs
  <2>2. events \in Seq(Events) /\ "done" \in States
    BY <2>1 DEF Broken, States
  <2>3. response' \in Seq(Events)
    BY <2>1, <2>2
  <2> QED BY <1>1, <2>1, <2>2, <2>3 DEF Reject, stateVars
<1>2. CASE Accept
  <2>1. Role \in Events
    <3>1. <<>> \in Seq(Characters) /\ None \in Reasons
      BY DEF Reasons
    <3> QED BY <3>1 DEF Role, Event, Events, Types
  <2>2. response' \in Seq(Events) /\ "generate" \in States
    BY <1>2, <2>1 DEF Accept, States
  <2> QED BY <1>2, <2>2 DEF Accept, stateVars
<1>3. CASE GenerateRaises
  <2>1. \E e \in {"ValueError", "EngineDeadError", "EngineGenerateError"} : Raised(e)
    BY <1>3 DEF GenerateRaises
  <2>2. PICK events : Broken(events) /\ response' = response \o events /\ pc' = "done"
    BY <2>1, RaisedIs
  <2>3. events \in Seq(Events) /\ "done" \in States
    BY <2>2 DEF Broken, States
  <2>4. response' \in Seq(Events)
    BY <2>2, <2>3
  <2> QED BY <1>3, <2>2, <2>3, <2>4 DEF GenerateRaises, stateVars
<1>4. CASE AddRequest
  BY <1>4 DEF AddRequest, stateVars, States
<1>5. CASE EngineToken \/ EngineEnds
  <2>1. PICK tokens, ended : EngineStep(tokens, ended)
    BY <1>5, EngineSteps
  <2>2. PICK update, why :
           /\ Processed(tokens, ended, update, why)
           /\ Collected(update, why, NextText(update.d, Params, why # None, Kind = "DELTA"))
    BY <2>1, EngineRight
  <2>3. /\ token_ids' \in Seq(Nat) /\ reason' \in Reasons /\ detokenizer' \in Detokenizers
        /\ left_out' \in BOOLEAN /\ Len(token_ids') = Len(token_ids) + Len(tokens)
    BY <2>2 DEF Processed, AdvancesTo
  <2>4. Len(tokens) \in Nat /\ Len(token_ids) \in Nat /\ UNCHANGED <<call, pc, request, taken, response>>
    BY <2>1 DEF EngineStep
  <2>5. sent_tokens' \in Nat /\ sent_tokens' <= Len(token_ids')
    <3>1. sent_tokens' = sent_tokens \/ sent_tokens' = Len(token_ids')
      BY <2>2 DEF Collected
    <3> QED BY <2>3, <2>4, <3>1
  <2>6. collector' \in {Nothing} \cup Outputs \cup Errors
    BY <2>2 DEF Collected
  <2> QED BY <2>3, <2>4, <2>5, <2>6
<1>6. CASE EngineFails
  <2>1. PICK e \in {"EngineDeadError", "Error"} : Put(Error(e))
    BY <1>6 DEF EngineFails
  <2>2. collector' = Error(e)
    BY <2>1 DEF Put, Error
  <2>3. collector' \in Errors
    BY <2>2 DEF Error, Errors
  <2> QED BY <1>6, <2>3 DEF EngineFails, stateVars
<1>7. CASE TakeOutput
  <2>1. collector \in Outputs
    BY <1>7 DEF TakeOutput, Nothing, Errors
  <2>2. collector.text \in Seq(Characters) /\ Passed(collector) \in Seq(Events)
    BY <2>1, PassedType DEF Outputs
  <2>3. taken' \in Seq(Seq(Characters)) /\ response' \in Seq(Events) /\ pc' \in States
        /\ collector' = Nothing
    BY <1>7, <2>2 DEF TakeOutput, States
  <2> QED BY <1>7, <2>3 DEF TakeOutput, stateVars
<1>8. CASE TakeError
  <2>1. Raised(IF collector.error = "EngineDeadError" THEN collector.error ELSE "EngineGenerateError")
    BY <1>8 DEF TakeError
  <2>5. (IF collector.error = "EngineDeadError" THEN collector.error ELSE "EngineGenerateError")
          \in {"ValueError", "EngineDeadError", "EngineGenerateError"}
    OBVIOUS
  <2>2. PICK events : Broken(events) /\ response' = response \o events /\ pc' = "done"
    BY <2>1, <2>5, RaisedIs
  <2>3. events \in Seq(Events) /\ "done" \in States
    BY <2>2 DEF Broken, States
  <2>4. response' \in Seq(Events)
    BY <2>2, <2>3
  <2> QED BY <1>8, <2>2, <2>3, <2>4 DEF TakeError, stateVars
<1>9. CASE UNCHANGED vars
  BY <1>9 DEF vars, stateVars
<1> QED BY <1>1, <1>2, <1>3, <1>4, <1>5, <1>6, <1>7, <1>8, <1>9 DEF Next

LEMMA NewFollows ==
  ASSUME NEW p, ParamsOK(p)
  PROVE  /\ Follows(NewDetokenizer, p, <<>>) /\ NewDetokenizer.count = Len(<<>>)
         /\ NoStops(NewDetokenizer, p) /\ HeldBack(NewDetokenizer, p)
<1> DEFINE d == NewDetokenizer
<1>1. /\ d.output_text = <<>> /\ d.byte_buffer = <<>> /\ d.count = 0 /\ d.sent = 0
      /\ d.min_offset = 0 /\ d \in Detokenizers
  BY DEF NewDetokenizer, Detokenizers
<1>2. <<>> \in Seq(Bytes) /\ <<>> \in Seq(Characters) /\ Len(<<>>) = 0 /\ SubSeq(<<>>, 1, 0) = <<>>
  OBVIOUS
<1>3. ErrorStart(<<>>) = 0
  <2>1. ErrorStart(<<>>) \in 0 .. Len(<<>>)
    BY <1>2, ErrorStartIs
  <2> QED BY <1>2, <2>1
<1>4. TextIn(<<>>) = <<>> /\ RestOf(<<>>) = <<>>
  <2>1. SubSeq(<<>>, 1, 0) = <<>>
    OBVIOUS
  <2>2. TextIn(<<>>) = <<>>
    BY <1>3, <2>1, DecodingIs DEF TextIn
  <2>3. SubSeq(<<>>, 0 + 1, 0) = <<>>
    OBVIOUS
  <2>4. RestOf(<<>>) = <<>>
    BY <1>2, <1>3, <2>3, Zenon DEF RestOf
  <2> QED BY <2>2, <2>4
<1>5. TextOfFirst(<<>>, Min({p.min_tokens, Len(<<>>)})) = <<>>
  <2>1. Min({p.min_tokens, 0}) = 0
    <3>1. p.min_tokens \in Nat
      BY DEF ParamsOK
    <3> QED BY <3>1, MinOfTwo
  <2> QED BY <1>2, <1>4, <2>1, JoinedIs DEF TextOfFirst
<1> HIDE DEF d
<1>6. Follows(d, p, <<>>)
  BY <1>1, <1>2, <1>4, <1>5, JoinedIs DEF Follows
<1>7. NoStops(d, p)
  <2>1. \A k \in DOMAIN p.stop : StopsBehind(<<>>, p.stop[k], Len(<<>>)) = {}
    BY <1>2, NothingBehind
  <2> QED BY <1>1, <1>2, <2>1 DEF NoStops
<1>8. HeldBack(d, p)
  BY <1>1, <1>2 DEF HeldBack
<1> QED BY <1>1, <1>2, <1>6, <1>7, <1>8 DEF d

LEMMA TextStep ==
  ASSUME AnswerTypes, TextInv, CollectorInv, [Next]_vars
  PROVE  TextInv'
<1>0. "new" # "done" /\ "new" # "running" /\ "generate" # "running" /\ "done" # "running"
  OBVIOUS
\* The steps that leave the text.
<1>1. ASSUME call' = call, UNCHANGED stateVars,
             pc' \in {"new", "generate"} => pc \in {"new", "generate"} /\ UNCHANGED <<collector, taken>>,
             ~call.params_valid => pc' \in {"new", "done"} /\ UNCHANGED <<collector, taken>>
      PROVE  TextInv'
  <2>1. Params' = Params
    BY <1>1, CallSame
  <2>2. StopAtOnce' <=> StopAtOnce
    BY <1>1, TextUnchanged
  <2>3. /\ token_ids' = token_ids /\ reason' = reason /\ sent_tokens' = sent_tokens
        /\ detokenizer' = detokenizer /\ left_out' = left_out /\ call' = call
    BY <1>1 DEF stateVars
  <2>4. pc' \in {"new", "generate"} \/ ~call'.params_valid => Fresh'
    <3>1. ASSUME pc' \in {"new", "generate"} \/ ~call'.params_valid PROVE Fresh'
      <4>1. Fresh /\ collector' = collector /\ taken' = taken
        BY <1>1, <2>3, <3>1 DEF TextInv
      <4> QED BY <2>3, <4>1 DEF Fresh
    <3> QED BY <3>1
  <2>5. call'.params_valid /\ ~Ended' =>
          /\ Follows(detokenizer', Params', token_ids') /\ detokenizer'.count = Len(token_ids')
          /\ NoStops(detokenizer', Params') /\ HeldBack(detokenizer', Params') /\ ~left_out'
    BY <2>1, <2>3 DEF TextInv, Ended
  <2>6. Ended' => StopAtOnce'
    BY <2>2, <2>3 DEF TextInv, Ended
  <2>7. ~call'.params_valid => pc' \in {"new", "done"}
    BY <1>1
  <2> QED BY <2>4, <2>5, <2>6, <2>7 DEF TextInv
<1>2. CASE Reject
  <2>1. pc' = "done"
    BY <1>2, RejectIs
  <2> QED BY <1>0, <1>1, <1>2, <2>1 DEF Reject
<1>3. CASE Accept
  BY <1>0, <1>1, <1>3 DEF Accept
<1>4. CASE GenerateRaises
  <2>1. \E e \in {"ValueError", "EngineDeadError", "EngineGenerateError"} : Raised(e)
    BY <1>4 DEF GenerateRaises
  <2>2. pc' = "done"
    BY <2>1, RaisedIs
  <2> QED BY <1>0, <1>1, <1>4, <2>2 DEF GenerateRaises
<1>5. CASE AddRequest
  <2>1. call.params_valid
    BY <1>5 DEF AddRequest, TextInv
  <2> QED BY <1>0, <1>1, <1>5, <2>1 DEF AddRequest
<1>6. CASE EngineToken \/ EngineEnds
  <2>1. PICK tokens, ended : EngineStep(tokens, ended)
    BY <1>6, EngineSteps
  <2>2. PICK update, why :
           /\ Processed(tokens, ended, update, why)
           /\ Collected(update, why, NextText(update.d, Params, why # None, Kind = "DELTA"))
    BY <2>1, EngineRight
  <2>3. pc' = "running" /\ call' = call /\ call.params_valid /\ pc = "running"
    BY <2>1 DEF EngineStep, CollectorInv
  <2>4. Params' = Params
    BY <2>3, CallSame
  <2>5. /\ reason' = why
        /\ why = None => /\ Follows(detokenizer', Params, token_ids')
                         /\ detokenizer'.count = Len(token_ids') /\ NoStops(detokenizer', Params)
                         /\ HeldBack(detokenizer', Params) /\ ~left_out'
        /\ why # None => StopAtOnce'
    BY <2>2 DEF Processed
  <2> QED BY <1>0, <2>3, <2>4, <2>5 DEF TextInv, Ended
<1>7. CASE EngineFails
  <2>1. call.params_valid
    BY <1>7 DEF EngineFails, CollectorInv
  <2> QED BY <1>0, <1>1, <1>7, <2>1 DEF EngineFails
<1>8. CASE TakeOutput
  <2>1. call.params_valid /\ pc' \in {"running", "done"}
    BY <1>8 DEF TakeOutput, CollectorInv
  <2> QED BY <1>0, <1>1, <1>8, <2>1 DEF TakeOutput
<1>9. CASE TakeError
  <2>1. call.params_valid
    BY <1>9 DEF TakeError, CollectorInv
  <2>2. pc' = "done"
    BY <1>9 DEF TakeError, Raised, Answer
  <2> QED BY <1>0, <1>1, <1>9, <2>1, <2>2 DEF TakeError
<1>10. CASE UNCHANGED vars
  <2>1. pc' = pc /\ call' = call /\ UNCHANGED stateVars /\ UNCHANGED <<collector, taken>>
    BY <1>10 DEF vars
  <2>2. ~call.params_valid => pc \in {"new", "done"}
    BY DEF TextInv
  <2> QED BY <1>1, <2>1, <2>2
<1> QED BY <1>2, <1>3, <1>4, <1>5, <1>6, <1>7, <1>8, <1>9, <1>10 DEF Next

LEMMA CollectorStep ==
  ASSUME AnswerTypes, TextInv, CollectorInv, [Next]_vars
  PROVE  CollectorInv'
<1>1. CASE Reject
  <2>1. pc' = "done" /\ pc = "new"
    BY <1>1, RejectIs DEF Reject
  <2> QED BY <1>1, <2>1 DEF Reject, stateVars, CollectorInv, Ended
<1>2. CASE Accept
  BY <1>2 DEF Accept, stateVars, CollectorInv, Ended
<1>3. CASE GenerateRaises
  <2>1. \E e \in {"ValueError", "EngineDeadError", "EngineGenerateError"} : Raised(e)
    BY <1>3 DEF GenerateRaises
  <2>2. pc' = "done" /\ pc = "generate"
    BY <1>3, <2>1, RaisedIs DEF GenerateRaises
  <2> QED BY <1>3, <2>2 DEF GenerateRaises, stateVars, CollectorInv, Ended
<1>4. CASE AddRequest
  <2>1. Fresh /\ call.params_valid
    BY <1>4 DEF AddRequest, TextInv
  <2>2. reason' = None /\ collector' = Nothing /\ call' = call
    BY <1>4, <2>1 DEF AddRequest, Fresh, stateVars
  <2> QED BY <2>1, <2>2 DEF CollectorInv, Ended, Nothing
<1>5. CASE EngineToken \/ EngineEnds
  <2>1. PICK tokens, ended : EngineStep(tokens, ended)
    BY <1>5, EngineSteps
  <2>2. PICK update, why :
           /\ Processed(tokens, ended, update, why)
           /\ Collected(update, why, NextText(update.d, Params, why # None, Kind = "DELTA"))
    BY <2>1, EngineRight
  <2>3. pc' = "running" /\ call' = call /\ call.params_valid /\ pc = "running" /\ reason = None
        /\ collector.kind # "error"
    BY <2>1 DEF EngineStep, CollectorInv
  <2>4. reason' = why
    BY <2>2 DEF Processed
  <2>5. CASE Kind = "FINAL_ONLY" /\ why = None /\ collector' = collector
    BY <2>3, <2>4, <2>5 DEF CollectorInv, Ended
  <2>6. CASE collector' \in Outputs /\ collector'.reason = why
    <3>1. collector'.kind = "output"
      BY <2>6 DEF Outputs
    <3> QED BY <2>3, <2>4, <2>6, <3>1 DEF CollectorInv, Ended
  <2> QED BY <2>2, <2>5, <2>6 DEF Collected
<1>6. CASE EngineFails
  <2>1. PICK e \in {"EngineDeadError", "Error"} : Put(Error(e))
    BY <1>6 DEF EngineFails
  <2>2. collector' = Error(e)
    BY <2>1 DEF Put, Error
  <2>3. collector'.kind = "error"
    BY <2>2 DEF Error
  <2> QED BY <1>6, <2>3 DEF EngineFails, CollectorInv, Ended, stateVars
<1>7. CASE TakeOutput
  <2>1. collector' = Nothing /\ collector.reason = reason /\ reason' = reason /\ call' = call
        /\ pc' = (IF collector.reason = None THEN pc ELSE "done") /\ pc = "running"
    BY <1>7 DEF TakeOutput, CollectorInv, stateVars
  <2>2. pc' = "running" => reason' = None
    BY <2>1
  <2> QED BY <2>1, <2>2 DEF CollectorInv, Ended, Nothing
<1>8. CASE TakeError
  <2>1. pc' = "done" /\ collector' = Nothing
    BY <1>8 DEF TakeError, Raised, Answer
  <2> QED BY <2>1 DEF CollectorInv, Nothing
<1>9. CASE UNCHANGED vars
  BY <1>9 DEF vars, stateVars, CollectorInv, Ended
<1> QED BY <1>1, <1>2, <1>3, <1>4, <1>5, <1>6, <1>7, <1>8, <1>9 DEF Next

LEMMA HeldType ==
  ASSUME AnswerTypes
  PROVE  /\ FlattenSeq(taken) \in Seq(Characters) /\ Held \in Seq(Characters)
         /\ HeldTokens \in Nat /\ Streamed \in Seq(Characters)
<1>1. FlattenSeq(taken) \in Seq(Characters)
  BY FlattenType DEF AnswerTypes
<1>2. Held \in Seq(Characters) /\ HeldTokens \in Nat
  <2>1. CASE collector.kind = "output"
    <3>1. collector \in Outputs
      BY <2>1 DEF AnswerTypes, Nothing, Errors
    <3> QED BY <2>1, <3>1 DEF Held, HeldTokens, Outputs
  <2>2. CASE collector.kind # "output"
    BY <2>2 DEF Held, HeldTokens
  <2> QED BY <2>1, <2>2
<1> QED BY <1>1, <1>2, ConcatText DEF Streamed

LEMMA StreamStep ==
  ASSUME AnswerTypes, TextInv, CollectorInv, StreamInv, [Next]_vars
  PROVE  StreamInv'
<1>1. CASE Reject
  <2>1. pc' = "done"
    BY <1>1, RejectIs
  <2> QED BY <2>1 DEF StreamInv
<1>2. CASE Accept
  <2>1. pc' = "generate"
    BY <1>2 DEF Accept
  <2> QED BY <2>1 DEF StreamInv
<1>3. CASE GenerateRaises
  <2>1. \E e \in {"ValueError", "EngineDeadError", "EngineGenerateError"} : Raised(e)
    BY <1>3 DEF GenerateRaises
  <2>2. pc' = "done"
    BY <2>1, RaisedIs
  <2> QED BY <2>2 DEF StreamInv
<1>4. CASE AddRequest
  <2>1. Fresh
    BY <1>4 DEF AddRequest, TextInv
  <2>2. reason' = None /\ collector' = Nothing /\ taken' = <<>> /\ detokenizer' = NewDetokenizer
    BY <1>4, <2>1 DEF AddRequest, Fresh, stateVars
  <2>3. detokenizer'.sent = 0 /\ detokenizer'.output_text = <<>>
    BY <2>2 DEF NewDetokenizer
  <2>4. Held' = <<>>
    BY <2>2 DEF Held, Nothing
  <2>5. Streamed' = <<>>
    <3>1. Streamed' = FlattenSeq(<<>>) \o <<>>
      BY <2>2, <2>4 DEF Streamed
    <3> QED BY <3>1, FlattenEmpty
  <2>6. SubSeq(<<>>, 1, 0) = <<>> /\ Len(<<>>) = 0
    OBVIOUS
  <2> QED BY <2>2, <2>3, <2>5, <2>6 DEF StreamInv, Ended
<1>5. CASE EngineToken \/ EngineEnds
  <2>1. PICK tokens, ended : EngineStep(tokens, ended)
    BY <1>5, EngineSteps
  <2>2. PICK update, why :
           /\ Processed(tokens, ended, update, why)
           /\ Collected(update, why, NextText(update.d, Params, why # None, Kind = "DELTA"))
    BY <2>1, EngineRight
  <2>3. call' = call /\ pc = "running" /\ collector.kind # "error" /\ taken' = taken
    BY <2>1 DEF EngineStep
  <2>4. Kind' = Kind
    BY <2>3, CallSame
  <2> SUFFICES ASSUME Kind = "DELTA" PROVE StreamInv'
    BY <2>4 DEF StreamInv
  <2> DEFINE next == NextText(update.d, Params, why # None, Kind = "DELTA")
             flat == FlattenSeq(taken)
             text == update.d.output_text
             sent == detokenizer.sent
  <2>5. /\ detokenizer'.output_text = text /\ detokenizer'.sent <= Len(text)
        /\ why # None => detokenizer'.sent = Len(text)
        /\ next \in Seq(Characters)
        /\ SubSeq(text, 1, update.d.sent) \o next = SubSeq(text, 1, detokenizer'.sent)
        /\ reason' = why
    BY <2>2 DEF Processed, AdvancesTo
  <2>6. update.d.sent = sent /\ SubSeq(text, 1, sent) = SubSeq(detokenizer.output_text, 1, sent)
    BY <2>2 DEF Processed, KeepsSent
  <2>7. Streamed = SubSeq(detokenizer.output_text, 1, sent)
    BY <2>3 DEF StreamInv
  <2>8. collector'.text = Held \o next /\ collector'.kind = "output"
    <3>1. ~(Kind = "FINAL_ONLY" /\ why = None)
      OBVIOUS
    <3> QED BY <2>2, <3>1 DEF Collected, Outputs
  <2> HIDE DEF next, text, sent
  <2>9. Streamed' = flat \o (Held \o next)
    BY <2>3, <2>8 DEF Streamed, Held
  <2>10. Streamed' = Streamed \o next
    <3>1. flat \in Seq(Characters) /\ Held \in Seq(Characters)
      BY HeldType
    <3>2. Streamed = flat \o Held
      BY DEF Streamed
    <3> HIDE DEF flat
    <3>3. (flat \o Held) \o next = flat \o (Held \o next)
      BY <2>5, <3>1, ConcatAssociative
    <3> QED BY <2>9, <3>2, <3>3, Zenon
  <2>11. Streamed' = SubSeq(text, 1, detokenizer'.sent)
    BY <2>5, <2>6, <2>7, <2>10, Zenon
  <2> QED BY <2>5, <2>11 DEF StreamInv, Ended
<1>6. CASE EngineFails
  <2>1. PICK e \in {"EngineDeadError", "Error"} : Put(Error(e))
    BY <1>6 DEF EngineFails
  <2>2. collector' = Error(e)
    BY <2>1 DEF Put, Error
  <2>3. collector'.kind = "error"
    BY <2>2 DEF Error
  <2>4. Kind' = Kind /\ detokenizer' = detokenizer /\ reason' = reason /\ pc' = pc
    BY <1>6, CallSame DEF EngineFails, stateVars
  <2> QED BY <2>3, <2>4 DEF StreamInv, Ended
<1>7. CASE TakeOutput
  <2>1. /\ collector' = Nothing /\ taken' = Append(taken, collector.text) /\ collector.kind = "output"
        /\ Kind' = Kind /\ detokenizer' = detokenizer /\ reason' = reason /\ pc = "running"
    BY <1>7, CallSame DEF TakeOutput, stateVars
  <2>2. collector \in Outputs
    BY <2>1 DEF AnswerTypes, Nothing, Errors
  <2>3. collector.text \in Seq(Characters) /\ taken \in Seq(Seq(Characters)) /\ Held = collector.text
    BY <2>1, <2>2 DEF Outputs, AnswerTypes, Held
  <2>4. FlattenSeq(Append(taken, collector.text)) = FlattenSeq(taken) \o collector.text
    BY <2>3, FlattenAppend
  <2>5. Held' = <<>>
    BY <2>1 DEF Held, Nothing
  <2>6. Streamed' = FlattenSeq(taken') \o <<>>
    BY <2>5 DEF Streamed
  <2>7. FlattenSeq(taken') = Streamed
    BY <2>1, <2>3, <2>4 DEF Streamed
  <2>8. Streamed \o <<>> = Streamed
    BY HeldType, ConcatEmptySeq
  <2>9. Streamed' = Streamed
    BY <2>6, <2>7, <2>8, Zenon
  <2> QED BY <2>1, <2>9 DEF StreamInv, Ended
<1>8. CASE TakeError
  <2>1. pc' = "done"
    BY <1>8 DEF TakeError, Raised, Answer
  <2> QED BY <2>1 DEF StreamInv
<1>9. CASE UNCHANGED vars
  <2>1. Kind' = Kind /\ Streamed' = Streamed
    BY <1>9, CallSame DEF vars, Streamed, Held
  <2> QED BY <1>9, <2>1 DEF vars, stateVars, StreamInv, Ended
<1> QED BY <1>1, <1>2, <1>3, <1>4, <1>5, <1>6, <1>7, <1>8, <1>9 DEF Next

LEMMA AnswerBegins ==
  ASSUME Init
  PROVE  AnswerTypes /\ TextInv /\ CollectorInv /\ StreamInv
<1>1. /\ call \in Calls /\ pc = "new" /\ token_ids = <<>> /\ reason = None /\ sent_tokens = 0
      /\ detokenizer = NewDetokenizer /\ left_out = FALSE /\ collector = Nothing
      /\ taken = <<>> /\ response = <<>>
  BY DEF Init
<1>2. AnswerTypes
  <2>1. NewDetokenizer \in Detokenizers
    BY DEF NewDetokenizer, Detokenizers
  <2>2. token_ids \in Seq(Nat) /\ Len(token_ids) = 0 /\ taken \in Seq(Seq(Characters))
        /\ response \in Seq(Events)
    BY <1>1
  <2>3. reason \in Reasons /\ pc \in States
    BY <1>1 DEF Reasons, States
  <2>4. sent_tokens \in Nat /\ sent_tokens <= Len(token_ids) /\ left_out \in BOOLEAN
    <3>1. sent_tokens = 0 /\ Len(token_ids) = 0
      BY <1>1, <2>2
    <3>2. left_out \in BOOLEAN
      BY <1>1
    <3> QED BY <3>1, <3>2, SMT
  <2>5. collector \in {Nothing} \cup Outputs \cup Errors /\ detokenizer \in Detokenizers
    BY <1>1, <2>1
  <2> QED BY <1>1, <2>2, <2>3, <2>4, <2>5 DEF AnswerTypes
<1>3. TextInv
  <2>1. Fresh
    BY <1>1 DEF Fresh
  <2>2. call.params_valid => ParamsOK(Params)
    BY <1>1, CallRight
  <2>3. call.params_valid =>
          /\ Follows(detokenizer, Params, token_ids) /\ detokenizer.count = Len(token_ids)
          /\ NoStops(detokenizer, Params) /\ HeldBack(detokenizer, Params)
    BY <1>1, <2>2, NewFollows
  <2> QED BY <1>1, <2>1, <2>3 DEF TextInv, Ended
<1>4. CollectorInv /\ StreamInv
  BY <1>1 DEF CollectorInv, StreamInv, Nothing, Ended
<1> QED BY <1>2, <1>3, <1>4

\* What the first four parts of the invariant say of any state.
LEMMA StreamedRight ==
  ASSUME AnswerTypes, StreamInv
  PROVE  StreamedIsWhole
<1> SUFFICES ASSUME Kind = "DELTA", collector.kind # "error", pc = "running"
             PROVE  /\ IsPrefix(Streamed, detokenizer.output_text)
                    /\ Ended => Streamed = detokenizer.output_text
  BY DEF StreamedIsWhole
<1> DEFINE text == detokenizer.output_text
           sent == detokenizer.sent
<1>1. text \in Seq(Characters) /\ sent \in Nat /\ Len(text) \in Nat
  BY DEF AnswerTypes, Detokenizers
<1>2. sent <= Len(text) /\ (Ended => sent = Len(text)) /\ Streamed = SubSeq(text, 1, sent)
  BY DEF StreamInv
<1> HIDE DEF text, sent
<1>3. SubSeq(text, 1, sent) \in Seq(Characters) /\ Len(SubSeq(text, 1, sent)) = sent
  BY <1>1, <1>2, CutInTwo
<1>4. IsPrefix(Streamed, text)
  BY <1>1, <1>2, <1>3 DEF IsPrefix
<1>5. Ended => Streamed = text
  BY <1>1, <1>2, SubSeqFull
<1> QED BY <1>4, <1>5 DEF text

LEMMA StopRight ==
  ASSUME AnswerTypes, TextInv
  PROVE  StopAtOnce
<1>1. CASE Ended
  BY <1>1 DEF TextInv
<1>2. CASE ~Ended
  <2>1. reason = None /\ reason # "stop"
    BY <1>2, NoneAssumption DEF Ended
  <2>2. (reason = "stop") = FALSE
    BY <2>1
  <2>3. CASE call.params_valid
    <3>1. /\ Follows(detokenizer, Params, token_ids) /\ NoStops(detokenizer, Params)
          /\ ~left_out
      BY <1>2, <2>3 DEF TextInv
    <3>2. Counting = token_ids /\ token_ids \in Seq(Nat)
      BY <3>1 DEF Counting, AnswerTypes
    <3>3. Params.tokenizer = call.config.tokenizer
      BY DEF Params
    <3>4. call.config.tokenizer => AtOnce(token_ids, Params, detokenizer.output_text, FALSE)
      BY <3>1, <3>2, <3>3, FollowsAtOnce
    <3> QED BY <2>2, <3>2, <3>4, StopAtOnceIs
  <2>4. CASE ~call.params_valid
    <3>1. Counting = <<>> /\ detokenizer.output_text = <<>>
      BY <2>4 DEF TextInv, Fresh, Counting, NewDetokenizer
    <3>2. Params.min_tokens \in Int /\ Params.stop \in Seq(Seq(Characters))
      BY CallRight DEF AnswerTypes
    <3>3. AtOnce(<<>>, Params, <<>>, FALSE)
      BY <3>2, EmptyAtOnce
    <3> QED BY <2>2, <3>1, <3>3, StopAtOnceIs
  <2> QED BY <2>3, <2>4
<1> QED BY <1>1, <1>2

\* The reader of a stream has the beginning of the text at all times, and all of it at the end.
THEOREM StreamedIsWholeHolds == Spec => []StreamedIsWhole
<1> DEFINE Inv == AnswerTypes /\ TextInv /\ CollectorInv /\ StreamInv
<1>1. Init => Inv
  BY AnswerBegins
<1>2. Inv /\ [Next]_vars => Inv'
  BY TypesStep, TextStep, CollectorStep, StreamStep
<1>3. Inv => StreamedIsWhole
  BY StreamedRight
<1> QED BY <1>1, <1>2, <1>3, PTL DEF Spec

\* A stop string ends the text with the token that completes it, and is found nowhere before.
THEOREM StopAtOnceHolds == Spec => []StopAtOnce
<1> DEFINE Inv == AnswerTypes /\ TextInv /\ CollectorInv
<1>1. Init => Inv
  BY AnswerBegins
<1>2. Inv /\ [Next]_vars => Inv'
  BY TypesStep, TextStep, CollectorStep
<1>3. Inv => StopAtOnce
  BY StopRight
<1> QED BY <1>1, <1>2, <1>3, PTL DEF Spec

-----------------------------------------------------------------------------

(***************************************************************************)
(* Events of some types, their texts and their tokens.                     *)
(***************************************************************************)
Picked(types, events) == Kept(events, {i \in DOMAIN events : events[i].type \in types})
Texts(events) == [i \in DOMAIN events |-> events[i].text]

LEMMA PickedIs ==
  ASSUME NEW types
  PROVE  /\ Picked(types, <<>>) = <<>>
         /\ \A e \in Events : Picked(types, <<e>>) = IF e.type \in types THEN <<e>> ELSE <<>>
         /\ \A s \in Seq(Events) : Picked(types, s) \in Seq(Events)
         /\ \A s, t \in Seq(Events) : Picked(types, s \o t) = Picked(types, s) \o Picked(types, t)
<1> DEFINE g == [e \in Events |-> IF e.type \in types THEN <<e>> ELSE <<>>]
<1>1. g \in [Events -> Seq(Events)]
  <2>1. ASSUME NEW e \in Events PROVE (IF e.type \in types THEN <<e>> ELSE <<>>) \in Seq(Events)
    <3> DEFINE E == Events
    <3>1. e \in E
      OBVIOUS
    <3> HIDE DEF E
    <3>2. <<e>> \in Seq(E) /\ <<>> \in Seq(E)
      BY <3>1
    <3>3. <<e>> \in Seq(Events) /\ <<>> \in Seq(Events)
      BY <3>2 DEF E
    <3> QED BY <3>3
  <2> QED BY <2>1
<1>2. ASSUME NEW s \in Seq(Events) PROVE Picked(types, s) = Spread(g, s)
  <2>1. \A i \in DOMAIN s : s[i] \in Events
    OBVIOUS
  <2>2. \A i \in DOMAIN s :
          g[s[i]] = IF i \in {j \in DOMAIN s : s[j].type \in types} THEN <<s[i]>> ELSE <<>>
    BY <2>1
  <2>3. [i \in DOMAIN s |-> IF i \in {j \in DOMAIN s : s[j].type \in types} THEN <<s[i]>> ELSE <<>>]
          = [i \in DOMAIN s |-> g[s[i]]]
    BY <2>2
  <2> HIDE DEF g
  <2> QED BY <2>3 DEF Picked, Kept, Spread
<1>3. \A e \in Events : g[e] = IF e.type \in types THEN <<e>> ELSE <<>>
  OBVIOUS
<1> HIDE DEF g
<1>4. \A s, t \in Seq(Events) : s \o t \in Seq(Events)
  OBVIOUS
<1>5. <<>> \in Seq(Events) /\ \A e \in Events : <<e>> \in Seq(Events)
  OBVIOUS
<1>6. /\ Spread(g, <<>>) = <<>>
      /\ \A e \in Events : Spread(g, <<e>>) = g[e]
      /\ \A s \in Seq(Events) : Spread(g, s) \in Seq(Events)
      /\ \A s, t \in Seq(Events) : Spread(g, s \o t) = Spread(g, s) \o Spread(g, t)
  <2>1. Spreads(g, Events, Events)
    BY <1>1, SpreadOf
  <2> QED BY <2>1 DEF Spreads
<1>7. Picked(types, <<>>) = <<>>
  BY <1>2, <1>5, <1>6
<1>8. ASSUME NEW e \in Events PROVE Picked(types, <<e>>) = IF e.type \in types THEN <<e>> ELSE <<>>
  <2>1. Picked(types, <<e>>) = Spread(g, <<e>>)
    BY <1>2, <1>5
  <2> QED BY <2>1, <1>3, <1>6
<1>9. ASSUME NEW s \in Seq(Events) PROVE Picked(types, s) \in Seq(Events)
  BY <1>2, <1>6
<1>10. ASSUME NEW s \in Seq(Events), NEW t \in Seq(Events)
       PROVE  Picked(types, s \o t) = Picked(types, s) \o Picked(types, t)
  <2>1. Picked(types, s \o t) = Spread(g, s \o t)
    BY <1>2, <1>4
  <2>2. Picked(types, s) = Spread(g, s) /\ Picked(types, t) = Spread(g, t)
    BY <1>2
  <2>3. Spread(g, s \o t) = Spread(g, s) \o Spread(g, t)
    BY <1>6
  <2> QED BY <2>1, <2>2, <2>3
<1> QED BY <1>7, <1>8, <1>9, <1>10

LEMMA PickedConcat ==
  ASSUME NEW types, NEW s \in Seq(Events), NEW t \in Seq(Events)
  PROVE  Picked(types, s \o t) = Picked(types, s) \o Picked(types, t)
BY PickedIs

LEMMA PickedOne ==
  ASSUME NEW types, NEW e \in Events, e.type \in types
  PROVE  Picked(types, <<e>>) = <<e>>
BY PickedIs

\* What holds of every event holds of those picked, and there may be none.
LEMMA PickedFrom ==
  ASSUME NEW types, NEW S, NEW s \in Seq(S)
  PROVE  /\ Picked(types, s) \in Seq(S)
         /\ (\A e \in S : e.type \notin types) => Picked(types, s) = <<>>
<1>1. Picked(types, s) \in Seq(S)
  BY KeptType DEF Picked
<1>2. ASSUME \A e \in S : e.type \notin types PROVE Picked(types, s) = <<>>
  <2> DEFINE m == [i \in DOMAIN s |-> IF i \in {j \in DOMAIN s : s[j].type \in types}
                                      THEN <<s[i]>> ELSE <<>>]
  <2>1. DOMAIN s = 1 .. Len(s) /\ Len(s) \in Nat /\ \A i \in DOMAIN s : s[i] \in S
    OBVIOUS
  <2>2. m = [i \in 1 .. Len(s) |-> <<>>]
    BY <1>2, <2>1
  <2>3. [i \in 1 .. Len(s) |-> <<>>] \in [1 .. Len(s) -> Seq({})]
    OBVIOUS
  <2>4. m \in Seq(Seq({}))
    <3> HIDE DEF m
    <3> QED BY <2>1, <2>2, <2>3, IsSeq
  <2>5. FlattenSeq(m) \in Seq({})
    <3> HIDE DEF m
    <3> QED BY <2>4, FlattenType
  <2>6. \A x \in Seq({}) : x = <<>>
    OBVIOUS
  <2>7. FlattenSeq(m) = <<>>
    <3> HIDE DEF m
    <3> QED BY <2>5, <2>6
  <2> QED BY <2>7 DEF Picked, Kept
<1> QED BY <1>1, <1>2

LEMMA TextsIs ==
  ASSUME NEW s \in Seq(Events)
  PROVE  /\ Texts(s) \in Seq(Seq(Characters)) /\ Len(Texts(s)) = Len(s)
         /\ Texts(<<>>) = <<>>
         /\ \A e \in Events : Texts(s \o <<e>>) = Append(Texts(s), e.text)
<1>1. ASSUME NEW t \in Seq(Events)
      PROVE  Texts(t) \in Seq(Seq(Characters)) /\ Len(Texts(t)) = Len(t)
  <2>1. DOMAIN t = 1 .. Len(t) /\ Len(t) \in Nat /\ \A i \in 1 .. Len(t) : t[i] \in Events
    OBVIOUS
  <2>2. \A e \in Events : e.text \in Seq(Characters)
    BY DEF Events
  <2>3. Texts(t) = [i \in 1 .. Len(t) |-> t[i].text]
    BY <2>1 DEF Texts
  <2>4. Texts(t) \in [1 .. Len(t) -> Seq(Characters)]
    BY <2>1, <2>2, <2>3
  <2> QED BY <2>1, <2>4, IsSeq
<1>2. Texts(<<>>) = <<>>
  <2>1. DOMAIN <<>> = 1 .. 0
    OBVIOUS
  <2>2. Texts(<<>>) = [i \in 1 .. 0 |-> <<>>[i].text]
    BY <2>1 DEF Texts
  <2>3. [i \in 1 .. 0 |-> <<>>[i].text] = <<>>
    OBVIOUS
  <2> QED BY <2>2, <2>3
<1>3. ASSUME NEW e \in Events PROVE Texts(s \o <<e>>) = Append(Texts(s), e.text)
  <2> DEFINE t == s \o <<e>>
             a == Append(Texts(s), e.text)
             L == Texts(s)
             x == e.text
  <2>1. /\ t \in Seq(Events) /\ Len(t) = Len(s) + 1 /\ Len(s) \in Nat
        /\ \A i \in 1 .. Len(s) : t[i] = s[i]
        /\ t[Len(s) + 1] = e
    OBVIOUS
  <2>2. x \in Seq(Characters) /\ L \in Seq(Seq(Characters)) /\ Len(L) = Len(s)
    BY <1>1 DEF Events
  <2>3. \A i \in 1 .. Len(s) : L[i] = s[i].text
    BY DEF Texts
  <2> HIDE DEF t
  <2>4. /\ Texts(t) \in Seq(Seq(Characters)) /\ Len(Texts(t)) = Len(s) + 1
        /\ \A i \in 1 .. Len(s) + 1 : Texts(t)[i] = t[i].text
    <3>1. DOMAIN t = 1 .. Len(s) + 1
      BY <2>1
    <3> QED BY <1>1, <2>1, <3>1 DEF Texts
  <2> HIDE DEF L, x
  <2>5. /\ Append(L, x) \in Seq(Seq(Characters)) /\ Len(Append(L, x)) = Len(s) + 1
        /\ \A i \in 1 .. Len(s) : Append(L, x)[i] = L[i]
        /\ Append(L, x)[Len(s) + 1] = x
    BY <2>2
  <2>6. \A i \in 1 .. Len(s) + 1 : Texts(t)[i] = Append(L, x)[i]
    <3> SUFFICES ASSUME NEW i \in 1 .. Len(s) + 1 PROVE Texts(t)[i] = Append(L, x)[i]
      OBVIOUS
    <3>1. CASE i \in 1 .. Len(s)
      BY <2>1, <2>3, <2>4, <2>5, <3>1
    <3>2. CASE i = Len(s) + 1
      BY <2>1, <2>4, <2>5, <3>2 DEF x
    <3>3. i \in 1 .. Len(s) \/ i = Len(s) + 1
      <4>1. Len(s) \in Nat
        BY <2>1
      <4> QED BY <4>1
    <3> QED BY <3>1, <3>2, <3>3
  <2>7. Texts(t) = Append(L, x)
    BY <2>4, <2>5, <2>6, SeqEqual
  <2> QED BY <2>7 DEF t, L, x
<1> QED BY <1>1, <1>2, <1>3

SumsTo(events, n, f) == f = [i \in 0 .. n |-> IF i = 0 THEN 0 ELSE f[i - 1] + events[i].tokens]

LEMMA SumsExist ==
  ASSUME NEW s, NEW N \in Nat
  PROVE  \E f : SumsTo(s, N, f)
<1> DEFINE Good == {n \in Nat : \E f : SumsTo(s, n, f)}
<1>1. 0 \in Good
  <2> DEFINE f == [i \in 0 .. 0 |-> 0]
  <2>1. f = [i \in 0 .. 0 |-> IF i = 0 THEN 0 ELSE f[i - 1] + s[i].tokens]
    OBVIOUS
  <2> HIDE DEF f
  <2> QED BY <2>1 DEF SumsTo
<1>2. ASSUME NEW n \in Nat, n \in Good PROVE n + 1 \in Good
  <2>1. PICK g : SumsTo(s, n, g)
    BY <1>2
  <2> DEFINE f == [i \in 0 .. n + 1 |-> IF i <= n THEN g[i] ELSE g[n] + s[i].tokens]
             h == [i \in 0 .. n + 1 |-> IF i = 0 THEN 0 ELSE f[i - 1] + s[i].tokens]
  <2>2. ASSUME NEW i \in 0 .. n + 1 PROVE f[i] = h[i]
    <3>1. CASE i = 0
      BY <1>2, <2>1, <3>1 DEF SumsTo
    <3>2. CASE i \in 1 .. n
      <4>1. g[i] = g[i - 1] + s[i].tokens
        BY <2>1, <3>2 DEF SumsTo
      <4>2. i - 1 \in 0 .. n + 1 /\ i - 1 <= n
        BY <3>2
      <4> QED BY <3>2, <4>1, <4>2
    <3>3. CASE i = n + 1
      <4>1. i - 1 \in 0 .. n + 1 /\ i - 1 = n /\ i # 0 /\ ~(i <= n)
        BY <1>2, <3>3
      <4> QED BY <4>1
    <3> QED BY <1>2, <3>1, <3>2, <3>3
  <2>3. f = h
    <3>1. DOMAIN f = DOMAIN h
      OBVIOUS
    <3> QED BY <2>2
  <2> HIDE DEF f
  <2> QED BY <2>3 DEF SumsTo
<1>3. \A i \in 0 .. N : i \in Good
  <2> HIDE DEF Good
  <2> QED BY <1>1, <1>2, Induction
<1> QED BY <1>3

LEMMA SumIs ==
  ASSUME NEW s, Len(s) \in Nat
  PROVE  \E f : /\ SumOfTokens(s) = f[Len(s)] /\ f[0] = 0
                /\ \A i \in 1 .. Len(s) : f[i] = f[i - 1] + s[i].tokens
<1> DEFINE g == CHOOSE h : SumsTo(s, Len(s), h)
<1>1. SumsTo(s, Len(s), g)
  BY SumsExist
<1>2. SumOfTokens(s) = g[Len(s)]
  BY DEF SumOfTokens, SumsTo
<1> HIDE DEF g
<1>3. g[0] = 0 /\ \A i \in 1 .. Len(s) : g[i] = g[i - 1] + s[i].tokens
  BY <1>1 DEF SumsTo
<1> QED BY <1>2, <1>3

LEMMA SumAppend ==
  ASSUME NEW s \in Seq(Events), NEW e \in Events
  PROVE  SumOfTokens(s \o <<e>>) = SumOfTokens(s) + e.tokens
<1> DEFINE t == s \o <<e>>
<1>1. /\ Len(t) = Len(s) + 1 /\ Len(s) \in Nat
      /\ \A i \in 1 .. Len(s) : t[i] = s[i]
      /\ t[Len(s) + 1] = e
  OBVIOUS
<1> HIDE DEF t
<1>2. PICK f : /\ SumOfTokens(s) = f[Len(s)] /\ f[0] = 0
               /\ \A i \in 1 .. Len(s) : f[i] = f[i - 1] + s[i].tokens
  BY <1>1, SumIs
<1>3. PICK g : /\ SumOfTokens(t) = g[Len(t)] /\ g[0] = 0
               /\ \A i \in 1 .. Len(t) : g[i] = g[i - 1] + t[i].tokens
  BY <1>1, SumIs
<1> DEFINE Good == {i \in 0 .. Len(s) : f[i] = g[i]}
<1>4. 0 \in Good
  BY <1>1, <1>2, <1>3
<1>5. ASSUME NEW i \in 0 .. Len(s), i + 1 <= Len(s), i \in Good PROVE i + 1 \in Good
  <2>1. i + 1 \in 1 .. Len(s) /\ i + 1 \in 1 .. Len(t) /\ (i + 1) - 1 = i
    BY <1>1, <1>5
  <2>2. f[i + 1] = f[i] + s[i + 1].tokens /\ g[i + 1] = g[i] + t[i + 1].tokens
    BY <1>2, <1>3, <2>1
  <2> QED BY <1>1, <1>5, <2>1, <2>2
<1>6. \A i \in 0 .. Len(s) : i \in Good
  <2> HIDE DEF Good
  <2> QED BY <1>1, <1>4, <1>5, Induction
<1>7. f[Len(s)] = g[Len(s)]
  BY <1>1, <1>6
<1>8. g[Len(t)] = g[Len(s)] + e.tokens
  <2>1. Len(t) \in 1 .. Len(t) /\ Len(t) - 1 = Len(s)
    BY <1>1
  <2> QED BY <1>1, <1>3, <2>1
<1> QED BY <1>2, <1>3, <1>7, <1>8 DEF t

LEMMA SumType ==
  SumOfTokens(<<>>) = 0 /\ \A s \in Seq(Events) : SumOfTokens(s) \in Nat
<1>1. SumOfTokens(<<>>) = 0
  <2>1. Len(<<>>) = 0
    OBVIOUS
  <2> QED BY <2>1, SumIs
<1> DEFINE Good == {s \in Seq(Events) : SumOfTokens(s) \in Nat}
<1>2. <<>> \in Good
  BY <1>1
<1>3. ASSUME NEW s \in Seq(Events), NEW e \in Events, s \in Good PROVE s \o <<e>> \in Good
  <2>1. s \o <<e>> \in Seq(Events) /\ SumOfTokens(s) \in Nat
    BY <1>3
  <2>2. e.tokens \in Nat
    BY DEF Events
  <2>3. SumOfTokens(s \o <<e>>) = SumOfTokens(s) + e.tokens
    BY SumAppend
  <2> QED BY <2>1, <2>2, <2>3
<1>4. \A s \in Seq(Events) : s \in Good
  <2> HIDE DEF Good
  <2> QED BY <1>2, <1>3, SeqInduction
<1> QED BY <1>1, <1>4

-----------------------------------------------------------------------------

(***************************************************************************)
(* An answer that is done, well or not.                                    *)
(***************************************************************************)
\* What a stream has sent before its end.
Open == {e \in Events : e.type \in {"role", "chunk"} /\ e.reason = None}

TrueAnswer(events, stream, why, n, text) ==
  LET chunks == Picked({"chunk", "200"}, events)
      good == Done \in Range(events) \/ Picked({"200"}, events) # <<>>
  IN  /\ good => /\ why # None
                 /\ Last(chunks).reason = why
                 /\ \A i \in 1 .. Len(chunks) - 1 : chunks[i].reason = None
                 /\ SumOfTokens(chunks) = n
                 /\ FlattenSeq(Texts(chunks)) = text
                 /\ stream => Len(Picked({"usage"}, events)) = 1 /\ Last(events) = Done
      /\ ~good => \A i \in DOMAIN chunks : chunks[i].reason \in {None, "error"}

LEMMA AnswerIs ==
  AnswerIsTrue <=> (pc = "done" /\ call.endpoint # "library" =>
                      TrueAnswer(response, call.stream, reason, Len(token_ids), detokenizer.output_text))
BY DEF AnswerIsTrue, TrueAnswer, EventsOf, Picked, Texts, Ended

LEMMA AnswerNext ==
  AnswerIsTrue' <=> (pc' = "done" /\ call'.endpoint # "library" =>
                      TrueAnswer(response', call'.stream, reason', Len(token_ids'), detokenizer'.output_text))
BY DEF AnswerIsTrue, TrueAnswer, EventsOf, Picked, Texts, Ended

LEMMA OpenAreEvents ==
  ASSUME NEW s \in Seq(Open)
  PROVE  /\ s \in Seq(Events)
         /\ \A i \in DOMAIN s : s[i] \in Open
<1>1. \A e \in Open : e \in Events
  BY DEF Open
<1> HIDE DEF Open, Events
<1> QED BY <1>1

\* A stream to its end.
LEMMA GoodStream ==
  ASSUME NEW pre \in Seq(Open), NEW e \in Events, e.type = "chunk", e.reason # None,
         NEW u \in Events, u.type = "usage",
         NEW n \in Nat, NEW text,
         SumOfTokens(Picked({"chunk", "200"}, pre)) + e.tokens = n,
         FlattenSeq(Texts(Picked({"chunk", "200"}, pre))) \o e.text = text
  PROVE  TrueAnswer(pre \o (<<e>> \o <<u, Done>>), TRUE, e.reason, n, text)
<1> DEFINE types == {"chunk", "200"}
           end == <<e>> \o <<u, Done>>
           events == pre \o end
           before == Picked(types, pre)
<1>0. /\ Done \in Events /\ Done.type = "[DONE]"
      /\ pre \in Seq(Events) /\ \A i \in DOMAIN pre : pre[i] \in Open
  <2>1. <<>> \in Seq(Characters) /\ None \in Reasons
    BY DEF Reasons
  <2>2. Done \in Events /\ Done.type = "[DONE]"
    BY <2>1 DEF Done, Event, Events, Types
  <2> QED BY <2>2, OpenAreEvents
<1> DEFINE E == Events
           done == Done
<1>1. /\ <<e>> \in Seq(E) /\ <<u>> \in Seq(E) /\ <<done>> \in Seq(E) /\ <<u, done>> = <<u>> \o <<done>>
      /\ <<u, done>> \in Seq(E) /\ Len(<<e>>) = 1 /\ Len(<<u, done>>) = 2 /\ <<u, done>>[2] = done
  <2>1. e \in E /\ u \in E /\ done \in E
    BY <1>0
  <2> HIDE DEF E, done
  <2>2. <<e>> \in Seq(E) /\ <<u>> \in Seq(E) /\ <<done>> \in Seq(E)
    BY <2>1
  <2>3. <<u, done>> \in Seq(E) /\ Len(<<e>>) = 1 /\ Len(<<u, done>>) = 2 /\ <<u, done>>[2] = done
    BY <2>1
  <2>4. <<u, done>> = <<u>> \o <<done>>
    BY <2>1
  <2> QED BY <2>2, <2>3, <2>4
<1>2. end \in Seq(E) /\ Len(end) = 3 /\ end[3] = done
  <2>1. <<e>> \o <<u, done>> \in Seq(E) /\ Len(<<e>> \o <<u, done>>) = 3
        /\ (<<e>> \o <<u, done>>)[1 + 2] = <<u, done>>[2]
    <3> HIDE DEF E, done
    <3> QED BY <1>1, ConcatOf
  <2> QED BY <1>1, <2>1
<1>3. ASSUME NEW ts
      PROVE  Picked(ts, events) = Picked(ts, pre) \o (Picked(ts, <<e>>) \o (Picked(ts, <<u>>) \o Picked(ts, <<done>>)))
  <2>1. Picked(ts, events) = Picked(ts, pre) \o Picked(ts, end)
    <3>1. pre \in Seq(Events) /\ end \in Seq(Events)
      BY <1>0, <1>2
    <3> HIDE DEF end
    <3> QED BY <3>1, PickedIs
  <2>2. Picked(ts, end) = Picked(ts, <<e>>) \o Picked(ts, <<u, done>>)
    <3> DEFINE x == <<e>>
               y == <<u, done>>
    <3>1. x \in Seq(Events) /\ y \in Seq(Events) /\ end = x \o y
      BY <1>1
    <3> HIDE DEF x, y, end
    <3>2. Picked(ts, x \o y) = Picked(ts, x) \o Picked(ts, y)
      BY <3>1, PickedConcat
    <3> QED BY <3>1, <3>2 DEF x, y
  <2>3. Picked(ts, <<u>> \o <<done>>) = Picked(ts, <<u>>) \o Picked(ts, <<done>>)
    <3> DEFINE x == <<u>>
               y == <<done>>
    <3>1. x \in Seq(Events) /\ y \in Seq(Events)
      BY <1>1
    <3> HIDE DEF x, y, done
    <3>2. Picked(ts, x \o y) = Picked(ts, x) \o Picked(ts, y)
      BY <3>1, PickedConcat
    <3> QED BY <3>2 DEF x, y
  <2> QED BY <1>1, <2>1, <2>2, <2>3
<1>4. ASSUME NEW ts
      PROVE  /\ Picked(ts, <<e>>) = IF "chunk" \in ts THEN <<e>> ELSE <<>>
             /\ Picked(ts, <<u>>) = IF "usage" \in ts THEN <<u>> ELSE <<>>
             /\ Picked(ts, <<done>>) = IF "[DONE]" \in ts THEN <<done>> ELSE <<>>
  <2>1. done \in Events /\ done.type = "[DONE]"
    BY <1>0
  <2>2. \A x \in Events : Picked(ts, <<x>>) = IF x.type \in ts THEN <<x>> ELSE <<>>
    BY PickedIs
  <2> HIDE DEF done
  <2> QED BY <2>1, <2>2
<1>5. before \in Seq(Open) /\ before \in Seq(E)
  BY PickedFrom, OpenAreEvents
<1>6. Picked(types, events) = before \o <<e>>
  <2>1. Picked(types, <<e>>) = <<e>> /\ Picked(types, <<u>>) = <<>> /\ Picked(types, <<done>>) = <<>>
    BY <1>4
  <2>2. <<e>> \o (<<>> \o <<>>) = <<e>>
    OBVIOUS
  <2>3. Picked(types, events) = before \o (<<e>> \o (<<>> \o <<>>))
    BY <1>3, <2>1
  <2> HIDE DEF events, types, before
  <2> QED BY <2>2, <2>3, Zenon
<1>7. Len(Picked({"usage"}, events)) = 1
  <2>1. /\ Picked({"usage"}, <<e>>) = <<>> /\ Picked({"usage"}, <<u>>) = <<u>>
        /\ Picked({"usage"}, <<done>>) = <<>>
    BY <1>4
  <2>2. Picked({"usage"}, pre) = <<>>
    <3>1. \A x \in Open : x.type \notin {"usage"}
      BY DEF Open
    <3> HIDE DEF Open
    <3> QED BY <3>1, PickedFrom
  <2>3. <<>> \o (<<>> \o (<<u>> \o <<>>)) = <<u>> /\ Len(<<u>>) = 1
    OBVIOUS
  <2>4. Picked({"usage"}, events) = <<>> \o (<<>> \o (<<u>> \o <<>>))
    BY <1>3, <2>1, <2>2
  <2> HIDE DEF events
  <2> QED BY <2>3, <2>4
<1>8. Last(events) = done /\ done \in Range(events)
  <2>1. /\ Len(events) = Len(pre) + 3 /\ events[Len(pre) + 3] = done /\ Len(pre) \in Nat
        /\ events \in Seq(E)
    <3> HIDE DEF E, end, done
    <3>1. pre \in Seq(E) /\ end \in Seq(E)
      BY <1>0, <1>2 DEF E
    <3>2. /\ Len(pre \o end) = Len(pre) + Len(end) /\ pre \o end \in Seq(E) /\ Len(pre) \in Nat
          /\ \A i \in 1 .. Len(end) : (pre \o end)[Len(pre) + i] = end[i]
      BY <3>1, ConcatOf
    <3>3. 3 \in 1 .. Len(end)
      BY <1>2
    <3> QED BY <1>2, <3>2, <3>3
  <2> HIDE DEF events, done
  <2>2. Len(pre) + 3 \in DOMAIN events
    BY <2>1
  <2> QED BY <2>1, <2>2 DEF Last, Range
<1> DEFINE chunks == Picked(types, events)
<1>9. /\ Len(chunks) = Len(before) + 1 /\ Len(before) \in Nat
      /\ \A i \in 1 .. Len(before) : chunks[i] = before[i]
      /\ chunks[Len(before) + 1] = e
  <2>1. chunks = before \o <<e>> /\ <<e>> \in Seq(E) /\ Len(<<e>>) = 1 /\ <<e>>[1] = e
    BY <1>1, <1>6
  <2> HIDE DEF chunks, before, E
  <2> QED BY <1>5, <2>1, ConcatOf
<1>10. Last(chunks).reason = e.reason
  BY <1>9 DEF Last
<1>11. \A i \in 1 .. Len(chunks) - 1 : chunks[i].reason = None
  <2> SUFFICES ASSUME NEW i \in 1 .. Len(chunks) - 1 PROVE chunks[i].reason = None
    OBVIOUS
  <2> HIDE DEF chunks, before
  <2>1. i \in 1 .. Len(before)
    BY <1>9
  <2>2. before[i] \in Open
    BY <1>5, <2>1, OpenAreEvents
  <2> QED BY <1>9, <2>1, <2>2 DEF Open
<1>12. SumOfTokens(chunks) = n
  <2>1. SumOfTokens(before \o <<e>>) = SumOfTokens(before) + e.tokens
    <3> HIDE DEF before
    <3> QED BY <1>5, SumAppend
  <2> QED BY <1>6, <2>1
<1>13. FlattenSeq(Texts(chunks)) = text
  <2>1. Texts(before \o <<e>>) = Append(Texts(before), e.text) /\ Texts(before) \in Seq(Seq(Characters))
    <3> HIDE DEF before
    <3> QED BY <1>5, TextsIs
  <2>2. e.text \in Seq(Characters)
    BY DEF Events
  <2>3. FlattenSeq(Append(Texts(before), e.text)) = FlattenSeq(Texts(before)) \o e.text
    <3> HIDE DEF before
    <3> QED BY <2>1, <2>2, FlattenAppend
  <2> QED BY <1>6, <2>1, <2>3
<1> HIDE DEF chunks, events
<1>14. TrueAnswer(events, TRUE, e.reason, n, text)
  BY <1>7, <1>8, <1>10, <1>11, <1>12, <1>13 DEF TrueAnswer, chunks
<1> QED BY <1>14 DEF events

\* A plain answer.
LEMMA GoodPlain ==
  ASSUME NEW e \in Events, e.type = "200", e.reason # None
  PROVE  TrueAnswer(<<e>>, FALSE, e.reason, e.tokens, e.text)
<1>1. Picked({"chunk", "200"}, <<e>>) = <<e>>
  BY PickedIs
<1>2. /\ <<e>> \in Seq(Events) /\ Len(<<e>>) = 1 /\ <<e>>[1] = e /\ <<>> \in Seq(Events)
      /\ <<>> \o <<e>> = <<e>> /\ e.tokens \in Nat /\ e.text \in Seq(Characters)
  <2>1. e.tokens \in Nat /\ e.text \in Seq(Characters)
    BY DEF Events
  <2>2. /\ <<e>> \in Seq(Events) /\ Len(<<e>>) = 1 /\ <<e>>[1] = e /\ <<>> \in Seq(Events)
        /\ <<>> \o <<e>> = <<e>>
    OBVIOUS
  <2> QED BY <2>1, <2>2
<1>3. SumOfTokens(<<e>>) = e.tokens
  <2>1. SumOfTokens(<<>> \o <<e>>) = SumOfTokens(<<>>) + e.tokens
    BY <1>2, SumAppend
  <2>2. SumOfTokens(<<e>>) = 0 + e.tokens
    BY <1>2, <2>1, SumType
  <2> QED BY <1>2, <2>2
<1>4. FlattenSeq(Texts(<<e>>)) = e.text
  <2>1. Texts(<<>> \o <<e>>) = Append(Texts(<<>>), e.text) /\ Texts(<<>>) = <<>>
    BY <1>2, TextsIs
  <2>2. <<>> \in Seq(Seq(Characters))
    OBVIOUS
  <2>3. FlattenSeq(Append(<<>>, e.text)) = FlattenSeq(<<>>) \o e.text
    BY <1>2, <2>2, FlattenAppend
  <2>4. <<>> \o e.text = e.text
    BY <1>2, ConcatEmptySeq
  <2> QED BY <1>2, <2>1, <2>3, <2>4, FlattenEmpty
<1>5. Picked({"200"}, <<e>>) # <<>>
  <2>1. Picked({"200"}, <<e>>) = <<e>>
    BY PickedIs
  <2>2. <<e>> # <<>>
    OBVIOUS
  <2> QED BY <2>1, <2>2
<1> DEFINE chunks == Picked({"chunk", "200"}, <<e>>)
<1>6. /\ Last(chunks).reason = e.reason /\ SumOfTokens(chunks) = e.tokens
      /\ FlattenSeq(Texts(chunks)) = e.text
  BY <1>1, <1>2, <1>3, <1>4 DEF Last
<1>7. \A i \in 1 .. Len(chunks) - 1 : chunks[i].reason = None
  <2>1. Len(chunks) = 1
    BY <1>1, <1>2
  <2> HIDE DEF chunks
  <2> QED BY <2>1
<1> HIDE DEF chunks
<1> QED BY <1>5, <1>6, <1>7 DEF TrueAnswer, chunks

\* An answer that breaks off.
LEMMA BrokenEnd ==
  ASSUME NEW pre \in Seq(Open), NEW events, Broken(events), call.endpoint # "library",
         NEW stream, NEW why, NEW n, NEW text
  PROVE  TrueAnswer(pre \o events, stream, why, n, text)
<1> DEFINE Sent == {e \in Events : /\ e.type \in {"role", "chunk", "400", "500", "503"}
                                   /\ e.reason \in {None, "error"}}
           all == pre \o events
<1>1. all \in Seq(Sent)
  <2>1. pre \in Seq(Sent)
    <3>1. \A e \in Open : e \in Sent
      BY DEF Open
    <3> HIDE DEF Open, Sent
    <3> QED BY <3>1
  <2>2. events \in Seq(Sent)
    <3>1. events \in Seq(Events) /\ \A i \in DOMAIN events : events[i] \in Sent
      <4>1. events \in Seq(Events)
        BY DEF Broken
      <4>2. \A i \in DOMAIN events : events[i] \in Events
        BY <4>1
      <4> QED BY <4>1, <4>2 DEF Broken
    <3> HIDE DEF Sent
    <3>2. Len(events) \in Nat /\ events \in [1 .. Len(events) -> Sent]
      BY <3>1
    <3> QED BY <3>2, IsSeq
  <2> HIDE DEF Sent
  <2> QED BY <2>1, <2>2, ConcatOf
<1>2. Done \notin Range(all)
  <2> SUFFICES ASSUME Done \in Range(all) PROVE FALSE
    OBVIOUS
  <2>1. PICK i \in DOMAIN all : all[i] = Done
    BY DEF Range
  <2>2. all[i] \in Sent
    <3> HIDE DEF all, Sent
    <3> QED BY <1>1
  <2>3. Done.type = "[DONE]"
    BY DEF Done, Event
  <2> HIDE DEF all
  <2> QED BY <2>1, <2>2, <2>3
<1>3. Picked({"200"}, all) = <<>>
  <2>1. \A e \in Sent : e.type \notin {"200"}
    OBVIOUS
  <2> HIDE DEF Sent, all
  <2> QED BY <1>1, <2>1, PickedFrom
<1> DEFINE chunks == Picked({"chunk", "200"}, all)
<1>4. \A i \in DOMAIN chunks : chunks[i].reason \in {None, "error"}
  <2>1. chunks \in Seq(Sent)
    <3> HIDE DEF Sent, all
    <3> QED BY <1>1, PickedFrom
  <2>2. \A i \in DOMAIN chunks : chunks[i] \in Sent
    <3> HIDE DEF Sent, chunks
    <3> QED BY <2>1
  <2> HIDE DEF chunks
  <2> QED BY <2>2
<1> HIDE DEF all
<1>5. TrueAnswer(all, stream, why, n, text)
  BY <1>2, <1>3, <1>4 DEF TrueAnswer
<1> QED BY <1>5 DEF all

-----------------------------------------------------------------------------

Chunks == EventsOf({"chunk", "200"})

\* A stream under way has sent chunks without a reason: all of the text and the tokens
\* that generate() has yielded.  What waits in the collector is the rest.
StreamUnderWay ==
  /\ response \in Seq(Open)
  /\ Texts(Chunks) = taken
  /\ ~Ended => sent_tokens = Len(token_ids)
  /\ collector.kind # "error" => SumOfTokens(Chunks) + HeldTokens = Len(token_ids)

\* A plain answer waits for the final output, which is all there is.
PlainUnderWay ==
  /\ response = <<>>
  /\ collector.kind = "output" => /\ Ended /\ collector.tokens = Len(token_ids)
                                  /\ collector.text = detokenizer.output_text

AnswerInv ==
  /\ pc = "new" => response = <<>>
  /\ pc = "generate" => response = IF Chat /\ call.stream THEN <<Role>> ELSE <<>>
  /\ pc = "running" /\ call.endpoint # "library" =>
       IF call.stream THEN StreamUnderWay ELSE PlainUnderWay
  /\ AnswerIsTrue

LEMMA ChunksAre ==
  Chunks = Picked({"chunk", "200"}, response) /\ Chunks' = Picked({"chunk", "200"}, response')
BY DEF Chunks, EventsOf, Picked

LEMMA OpenType ==
  ASSUME AnswerInv, pc # "done", call.endpoint # "library", pc \in States
  PROVE  response \in Seq(Open)
<1>1. <<>> \in Seq(Open)
  OBVIOUS
<1>2. Role \in Open
  <2>1. <<>> \in Seq(Characters) /\ None \in Reasons
    BY DEF Reasons
  <2> QED BY <2>1 DEF Role, Event, Open, Events, Types
<1>3. <<Role>> \in Seq(Open)
  <2> DEFINE r == Role
             O == Open
  <2>1. r \in O
    BY <1>2
  <2> HIDE DEF r, O
  <2>2. <<r>> \in Seq(O)
    BY <2>1
  <2> QED BY <2>2 DEF r, O
<1> QED BY <1>1, <1>3 DEF AnswerInv, StreamUnderWay, PlainUnderWay, States

\* A step that breaks the answer off.
LEMMA BreakStep ==
  ASSUME AnswerTypes, AnswerInv, pc # "done", pc' = "done", call' = call,
         NEW events, Broken(events), response' = response \o events
  PROVE  AnswerInv'
<1>1. AnswerIsTrue'
  <2>1. CASE call.endpoint # "library"
    <3>1. response \in Seq(Open)
      BY <2>1, OpenType DEF AnswerTypes
    <3>2. TrueAnswer(response \o events, call'.stream, reason', Len(token_ids'), detokenizer'.output_text)
      BY <2>1, <3>1, BrokenEnd
    <3>3. TrueAnswer(response', call'.stream, reason', Len(token_ids'), detokenizer'.output_text)
      BY <3>2
    <3> QED BY <3>3, AnswerNext
  <2>2. CASE call.endpoint = "library"
    BY <2>2, AnswerNext
  <2> QED BY <2>1, <2>2
<1> QED BY <1>1 DEF AnswerInv

LEMMA KindIs ==
  ASSUME call.endpoint # "library"
  PROVE  Kind = IF call.stream THEN "DELTA" ELSE "FINAL_ONLY"
BY DEF Kind

\* The chunk with the final output ends a stream, and the final output a plain answer.
LEMMA TakeStep ==
  ASSUME AnswerTypes, CollectorInv, StreamInv, AnswerInv, TakeOutput, call.endpoint # "library"
  PROVE  AnswerInv'
<1> DEFINE out == collector
           e == Chunk("chunk", collector)
<1>1. /\ pc = "running" /\ out.kind = "output" /\ out.reason = reason
      /\ collector' = Nothing /\ taken' = Append(taken, out.text)
      /\ response' = response \o Passed(out)
      /\ pc' = (IF out.reason = None THEN pc ELSE "done")
      /\ call' = call /\ UNCHANGED stateVars
  BY DEF TakeOutput, CollectorInv
<1>2. out \in Outputs
  BY <1>1 DEF AnswerTypes, Nothing, Errors
<1>3. out.text \in Seq(Characters) /\ out.tokens \in Nat /\ out.reason \in Reasons
  BY <1>2 DEF Outputs
<1>4. /\ token_ids' = token_ids /\ reason' = reason /\ sent_tokens' = sent_tokens
      /\ detokenizer' = detokenizer
  BY <1>1 DEF stateVars
<1>5. CASE call.stream
  <2>1. StreamUnderWay /\ Kind = "DELTA"
    BY <1>1, <1>5, KindIs DEF AnswerInv
  <2>2. /\ e \in Events /\ e.type = "chunk" /\ e.reason = out.reason /\ e.text = out.text
        /\ e.tokens = out.tokens
    <3>1. e \in Events
      BY <1>2, PassedType DEF Types
    <3>2. e.type = "chunk" /\ e.reason = out.reason /\ e.text = out.text /\ e.tokens = out.tokens
      BY DEF Chunk, Event
    <3> QED BY <3>1, <3>2
  <2>3. SumOfTokens(Chunks) + out.tokens = Len(token_ids) /\ HeldTokens = out.tokens
    BY <1>1, <2>1 DEF StreamUnderWay, HeldTokens
  <2>4. response \in Seq(Open) /\ response \in Seq(Events) /\ Texts(Chunks) = taken
    BY <2>1, OpenAreEvents DEF StreamUnderWay
  <2> DEFINE cs == Picked({"chunk", "200"}, response)
  <2>5. Chunks = cs /\ cs \in Seq(Events)
    BY <2>4, ChunksAre, PickedIs
  <2>6. CASE out.reason = None
    <3>1. response' = response \o <<e>>
      <4>1. Passed(out) = <<e>> \o <<>>
        BY <1>5, <2>6 DEF Passed
      <4>2. <<e>> \o <<>> = <<e>>
        OBVIOUS
      <4> HIDE DEF e
      <4> QED BY <1>1, <4>1, <4>2, Zenon
    <3>2. e \in Open
      BY <2>2, <2>6 DEF Open
    <3> HIDE DEF e
    <3>3. response \o <<e>> \in Seq(Open) /\ <<e>> \in Seq(Events)
      <4> DEFINE O == Open
                 V == Events
      <4>1. e \in O /\ response \in Seq(O) /\ e \in V
        BY <2>2, <2>4, <3>2
      <4> HIDE DEF O, V
      <4>2. response \o <<e>> \in Seq(O) /\ <<e>> \in Seq(V)
        BY <4>1
      <4> QED BY <4>2 DEF O, V
    <3>4. Picked({"chunk", "200"}, response \o <<e>>) = cs \o <<e>>
      <4>1. Picked({"chunk", "200"}, <<e>>) = <<e>>
        <5>1. e \in Events /\ e.type \in {"chunk", "200"}
          BY <2>2
        <5> QED BY <5>1, PickedOne
      <4> DEFINE r == response
                 s == <<e>>
      <4>2. r \in Seq(Events) /\ s \in Seq(Events)
        BY <2>4, <3>3
      <4> HIDE DEF r, s
      <4>3. Picked({"chunk", "200"}, r \o s) = Picked({"chunk", "200"}, r) \o Picked({"chunk", "200"}, s)
        BY <4>2, PickedConcat
      <4> QED BY <4>1, <4>3 DEF r, s
    <3>5. Chunks' = cs \o <<e>>
      BY <3>1, <3>4, ChunksAre
    <3> HIDE DEF cs
    <3>6. Texts(Chunks') = taken'
      BY <1>1, <2>2, <2>4, <2>5, <3>5, TextsIs
    <3>7. SumOfTokens(Chunks') = SumOfTokens(Chunks) + out.tokens
      BY <2>2, <2>5, <3>5, SumAppend
    <3>8. HeldTokens' = 0
      BY <1>1 DEF HeldTokens, Nothing
    <3>9. SumOfTokens(Chunks') + HeldTokens' = Len(token_ids')
      <4>1. Len(token_ids) \in Nat
        BY DEF AnswerTypes
      <4> QED BY <1>4, <2>3, <3>7, <3>8, <4>1
    <3>10. StreamUnderWay'
      BY <1>4, <2>1, <3>1, <3>3, <3>6, <3>9 DEF StreamUnderWay, Ended
    <3>11. pc' = "running"
      BY <1>1, <2>6
    <3> QED BY <1>1, <1>5, <3>10, <3>11, AnswerNext DEF AnswerInv
  <2>7. CASE out.reason # None
    <3> DEFINE u == Usage(out)
    <3>1. response' = response \o (<<e>> \o <<u, Done>>)
      <4>1. Passed(out) = <<e>> \o <<u, Done>>
        BY <1>5, <2>7 DEF Passed
      <4> HIDE DEF e, u
      <4> QED BY <1>1, <4>1
    <3>2. u \in Events /\ u.type = "usage"
      <4>1. u \in Events
        BY <1>2, PassedType
      <4>2. u.type = "usage"
        BY DEF Usage, Event
      <4> QED BY <4>1, <4>2
    <3>3. FlattenSeq(taken) \o out.text = detokenizer.output_text
      <4>1. Ended /\ collector.kind # "error"
        BY <1>1, <2>7 DEF Ended
      <4>2. Streamed = detokenizer.output_text
        BY <1>1, <2>1, <4>1, StreamedRight DEF StreamedIsWhole
      <4> QED BY <1>1, <4>2 DEF Streamed, Held
    <3>4. /\ SumOfTokens(cs) + e.tokens = Len(token_ids)
          /\ FlattenSeq(Texts(cs)) \o e.text = detokenizer.output_text
      BY <2>2, <2>3, <2>4, <2>5, <3>3
    <3>5. Len(token_ids) \in Nat /\ e.reason # None
      BY <2>2, <2>7 DEF AnswerTypes
    <3> HIDE DEF e, u
    <3>6. TrueAnswer(response \o (<<e>> \o <<u, Done>>), TRUE, e.reason, Len(token_ids),
                     detokenizer.output_text)
      BY <2>2, <2>4, <3>2, <3>4, <3>5, GoodStream
    <3>7. e.reason = reason' /\ call'.stream = TRUE
      <4>1. call.stream \in BOOLEAN
        BY CallRight DEF AnswerTypes
      <4> QED BY <1>1, <1>4, <1>5, <2>2, <4>1
    <3>8. TrueAnswer(response', call'.stream, reason', Len(token_ids'), detokenizer'.output_text)
      BY <1>4, <3>1, <3>6, <3>7, Zenon
    <3>9. pc' = "done"
      BY <1>1, <2>7
    <3> QED BY <3>8, <3>9, AnswerNext DEF AnswerInv
  <2> QED BY <2>6, <2>7
<1>6. CASE ~call.stream
  <2>1. PlainUnderWay
    BY <1>1, <1>6 DEF AnswerInv
  <2> DEFINE f == Chunk("200", collector)
  <2>2. out.reason # None /\ response = <<>> /\ out.tokens = Len(token_ids)
        /\ out.text = detokenizer.output_text
    BY <1>1, <2>1 DEF PlainUnderWay, Ended
  <2>3. /\ f \in Events /\ f.type = "200" /\ f.reason = out.reason /\ f.text = out.text
        /\ f.tokens = out.tokens
    <3>1. f \in Events
      BY <1>2, PassedType DEF Types
    <3>2. f.type = "200" /\ f.reason = out.reason /\ f.text = out.text /\ f.tokens = out.tokens
      BY DEF Chunk, Event
    <3> QED BY <3>1, <3>2
  <2>4. response' = <<f>>
    <3>1. Passed(out) = <<f>>
      BY <1>6, <2>2 DEF Passed, Returned
    <3>2. <<>> \o <<f>> = <<f>>
      OBVIOUS
    <3> HIDE DEF f
    <3> QED BY <1>1, <2>2, <3>1, <3>2, Zenon
  <2> HIDE DEF f
  <2>5. TrueAnswer(<<f>>, FALSE, f.reason, f.tokens, f.text)
    BY <2>2, <2>3, GoodPlain
  <2>6. call'.stream = FALSE
    <3>1. call.stream \in BOOLEAN
      BY CallRight DEF AnswerTypes
    <3> QED BY <1>1, <1>6, <3>1
  <2>7. f.reason = reason' /\ f.tokens = Len(token_ids') /\ f.text = detokenizer'.output_text
    BY <1>1, <1>4, <2>2, <2>3
  <2>8. TrueAnswer(response', call'.stream, reason', Len(token_ids'), detokenizer'.output_text)
    BY <2>4, <2>5, <2>6, <2>7, Zenon
  <2>9. pc' = "done"
    BY <1>1, <2>2
  <2> QED BY <2>8, <2>9, AnswerNext DEF AnswerInv
<1> QED BY <1>5, <1>6

LEMMA AnswerStep ==
  ASSUME AnswerTypes, TextInv, CollectorInv, StreamInv, AnswerInv, [Next]_vars
  PROVE  AnswerInv'
<1>1. CASE Reject
  <2>1. PICK events : Broken(events) /\ response' = response \o events /\ pc' = "done"
    BY <1>1, RejectIs
  <2>2. pc # "done" /\ call' = call
    BY <1>1 DEF Reject
  <2> QED BY <2>1, <2>2, BreakStep
<1>2. CASE Accept
  <2>1. Chat' = Chat /\ call' = call
    BY <1>2, CallSame DEF Accept
  <2> QED BY <1>2, <2>1, AnswerNext DEF Accept, AnswerInv
<1>3. CASE GenerateRaises
  <2>1. \E e \in {"ValueError", "EngineDeadError", "EngineGenerateError"} : Raised(e)
    BY <1>3 DEF GenerateRaises
  <2>2. PICK events : Broken(events) /\ response' = response \o events /\ pc' = "done"
    BY <2>1, RaisedIs
  <2>3. pc # "done" /\ call' = call
    BY <1>3 DEF GenerateRaises
  <2> QED BY <2>2, <2>3, BreakStep
<1>4. CASE AddRequest
  <2>1. Fresh /\ pc = "generate" /\ pc' = "running" /\ call' = call /\ response' = response
    BY <1>4 DEF AddRequest, TextInv
  <2>2. /\ token_ids' = <<>> /\ reason' = None /\ sent_tokens' = 0 /\ collector' = Nothing
        /\ taken' = <<>>
    BY <1>4, <2>1 DEF AddRequest, Fresh, stateVars
  <2>3. Nothing.kind # "output" /\ Len(<<>>) = 0
    BY DEF Nothing
  <2>4. CASE call.endpoint # "library" /\ call.stream
    <3>1. response \in Seq(Open)
      BY <2>1, <2>4, OpenType DEF AnswerTypes
    <3>2. Chunks' = <<>>
      <4>1. response = <<Role>> \/ response = <<>>
        BY <2>1 DEF AnswerInv
      <4>2. Picked({"chunk", "200"}, <<>>) = <<>>
        BY PickedIs
      <4>3. Picked({"chunk", "200"}, <<Role>>) = <<>>
        <5>1. Role \in Events /\ Role.type = "role"
          <6>1. <<>> \in Seq(Characters) /\ None \in Reasons
            BY DEF Reasons
          <6> QED BY <6>1 DEF Role, Event, Events, Types
        <5>2. Picked({"chunk", "200"}, <<Role>>)
                = IF Role.type \in {"chunk", "200"} THEN <<Role>> ELSE <<>>
          BY <5>1, PickedIs
        <5> QED BY <5>1, <5>2
      <4> QED BY <2>1, <4>1, <4>2, <4>3, ChunksAre
    <3>3. HeldTokens' = 0
      BY <2>2, <2>3 DEF HeldTokens
    <3>4. Texts(<<>>) = <<>> /\ SumOfTokens(<<>>) = 0
      <4>1. <<>> \in Seq(Events)
        OBVIOUS
      <4> QED BY <4>1, TextsIs, SumType
    <3>5. StreamUnderWay'
      <4>1. Texts(Chunks') = taken'
        BY <2>2, <3>2, <3>4
      <4>2. SumOfTokens(Chunks') + HeldTokens' = Len(token_ids')
        BY <2>2, <2>3, <3>2, <3>3, <3>4
      <4>3. sent_tokens' = Len(token_ids')
        BY <2>2, <2>3
      <4> QED BY <2>1, <3>1, <4>1, <4>2, <4>3 DEF StreamUnderWay
    <3> QED BY <2>1, <2>4, <3>5, AnswerNext DEF AnswerInv
  <2>5. CASE call.endpoint # "library" /\ ~call.stream
    <3>1. PlainUnderWay'
      BY <2>1, <2>2, <2>3, <2>5 DEF PlainUnderWay, AnswerInv
    <3> QED BY <2>1, <2>5, <3>1, AnswerNext DEF AnswerInv
  <2>6. CASE call.endpoint = "library"
    BY <2>1, <2>6, AnswerNext DEF AnswerInv
  <2> QED BY <2>4, <2>5, <2>6
<1>5. CASE EngineToken \/ EngineEnds
  <2>1. PICK tokens, ended : EngineStep(tokens, ended)
    BY <1>5, EngineSteps
  <2>2. PICK update, why :
           /\ Processed(tokens, ended, update, why)
           /\ Collected(update, why, NextText(update.d, Params, why # None, Kind = "DELTA"))
    BY <2>1, EngineRight
  <2>3. /\ call' = call /\ pc = "running" /\ pc' = pc /\ reason = None /\ collector.kind # "error"
        /\ taken' = taken /\ response' = response
    BY <2>1 DEF EngineStep
  <2>4. reason' = why /\ Len(token_ids') \in Nat
    BY <2>2 DEF Processed
  <2>5. CASE call.endpoint # "library" /\ call.stream
    <3>1. StreamUnderWay /\ Kind = "DELTA"
      BY <2>3, <2>5, KindIs DEF AnswerInv
    <3>2. /\ sent_tokens' = (IF why = None THEN Len(token_ids') ELSE sent_tokens)
          /\ collector' \in Outputs
          /\ collector'.tokens = HeldTokens + (Len(token_ids') - sent_tokens)
      BY <2>2, <3>1 DEF Collected
    <3>3. HeldTokens' = collector'.tokens
      BY <3>2 DEF HeldTokens, Outputs
    <3>4. Chunks' = Chunks
      BY <2>3, ChunksAre
    <3>5. sent_tokens = Len(token_ids) /\ SumOfTokens(Chunks) + HeldTokens = Len(token_ids)
      BY <2>3, <3>1 DEF StreamUnderWay, Ended
    <3>6. SumOfTokens(Chunks) \in Nat /\ HeldTokens \in Nat /\ Len(token_ids) \in Nat
      <4>1. response \in Seq(Events)
        BY DEF AnswerTypes
      <4>2. Chunks \in Seq(Events)
        BY <4>1, ChunksAre, PickedIs
      <4> QED BY <4>2, SumType, HeldType DEF AnswerTypes
    <3>7. SumOfTokens(Chunks') + HeldTokens' = Len(token_ids')
      BY <2>4, <3>2, <3>3, <3>4, <3>5, <3>6
    <3>8. ~Ended' => sent_tokens' = Len(token_ids')
      BY <2>4, <3>2 DEF Ended
    <3>9. StreamUnderWay'
      BY <2>3, <3>1, <3>4, <3>7, <3>8 DEF StreamUnderWay
    <3> QED BY <2>3, <2>5, <3>9, AnswerNext DEF AnswerInv
  <2>6. CASE call.endpoint # "library" /\ ~call.stream
    <3>1. PlainUnderWay /\ Kind = "FINAL_ONLY" /\ collector.kind # "output"
      BY <2>3, <2>6, KindIs DEF AnswerInv, PlainUnderWay, Ended
    <3>2. CASE why = None
      <4>1. collector' = collector
        BY <2>2, <3>1, <3>2 DEF Collected
      <4>2. PlainUnderWay'
        BY <2>3, <3>1, <4>1 DEF PlainUnderWay
      <4> QED BY <2>3, <2>6, <4>2, AnswerNext DEF AnswerInv
    <3>3. CASE why # None
      <4> DEFINE next == NextText(update.d, Params, why # None, Kind = "DELTA")
      <4>1. collector'.tokens = Len(token_ids') /\ collector'.text = next
        BY <2>2, <3>1, <3>3 DEF Collected
      <4>2. next = update.d.output_text /\ detokenizer'.output_text = update.d.output_text
        <5>1. AdvancesTo(update.d, Params, why # None, Kind = "DELTA", detokenizer', next)
          BY <2>2 DEF Processed
        <5> HIDE DEF next
        <5> QED BY <3>1, <3>3, <5>1 DEF AdvancesTo
      <4> HIDE DEF next
      <4>3. PlainUnderWay'
        BY <2>3, <2>4, <3>1, <3>3, <4>1, <4>2 DEF PlainUnderWay, Ended
      <4> QED BY <2>3, <2>6, <4>3, AnswerNext DEF AnswerInv
    <3> QED BY <3>2, <3>3
  <2>7. CASE call.endpoint = "library"
    BY <2>3, <2>7, AnswerNext DEF AnswerInv
  <2> QED BY <2>5, <2>6, <2>7
<1>6. CASE EngineFails
  <2>1. PICK e \in {"EngineDeadError", "Error"} : Put(Error(e))
    BY <1>6 DEF EngineFails
  <2>2. collector' = Error(e)
    BY <2>1 DEF Put, Error
  <2>3. collector'.kind = "error"
    BY <2>2 DEF Error
  <2>4. /\ call' = call /\ pc' = pc /\ pc = "running" /\ response' = response /\ taken' = taken
        /\ UNCHANGED stateVars
    BY <1>6 DEF EngineFails
  <2>5. StreamUnderWay => StreamUnderWay'
    BY <2>3, <2>4, ChunksAre DEF StreamUnderWay, stateVars, Ended
  <2>6. PlainUnderWay => PlainUnderWay'
    BY <2>3, <2>4 DEF PlainUnderWay
  <2> QED BY <2>4, <2>5, <2>6, AnswerNext DEF AnswerInv
<1>7. CASE TakeOutput
  <2>1. CASE call.endpoint # "library"
    BY <1>7, <2>1, TakeStep
  <2>2. CASE call.endpoint = "library"
    <3>1. call' = call /\ pc' \in {"running", "done"}
      BY <1>7 DEF TakeOutput
    <3> QED BY <2>2, <3>1, AnswerNext DEF AnswerInv
  <2> QED BY <2>1, <2>2
<1>8. CASE TakeError
  <2>1. Raised(IF collector.error = "EngineDeadError" THEN collector.error ELSE "EngineGenerateError")
    BY <1>8 DEF TakeError
  <2>2. (IF collector.error = "EngineDeadError" THEN collector.error ELSE "EngineGenerateError")
          \in {"ValueError", "EngineDeadError", "EngineGenerateError"}
    OBVIOUS
  <2>3. PICK events : Broken(events) /\ response' = response \o events /\ pc' = "done"
    BY <2>1, <2>2, RaisedIs
  <2>4. pc # "done" /\ call' = call
    BY <1>8 DEF TakeError
  <2> QED BY <2>3, <2>4, BreakStep
<1>9. CASE UNCHANGED vars
  <2>1. /\ call' = call /\ pc' = pc /\ response' = response /\ collector' = collector
        /\ taken' = taken /\ UNCHANGED stateVars
    BY <1>9 DEF vars
  <2>2. Chat' = Chat /\ Chunks' = Chunks /\ HeldTokens' = HeldTokens
    BY <2>1, CallSame, ChunksAre DEF HeldTokens
  <2>3. StreamUnderWay => StreamUnderWay'
    BY <2>1, <2>2 DEF StreamUnderWay, stateVars, Ended
  <2>4. PlainUnderWay => PlainUnderWay'
    BY <2>1 DEF PlainUnderWay, stateVars, Ended
  <2>5. AnswerIsTrue => AnswerIsTrue'
    BY <2>1, AnswerIs, AnswerNext DEF stateVars
  <2> QED BY <2>1, <2>2, <2>3, <2>4, <2>5 DEF AnswerInv
<1> QED BY <1>1, <1>2, <1>3, <1>4, <1>5, <1>6, <1>7, <1>8, <1>9 DEF Next

\* An answer that ends well has every token and all the text; any other ends with an error,
\* or breaks off.
THEOREM AnswerIsTrueHolds == Spec => []AnswerIsTrue
<1> DEFINE Inv == AnswerTypes /\ TextInv /\ CollectorInv /\ StreamInv /\ AnswerInv
<1>1. Init => Inv
  <2> SUFFICES ASSUME Init PROVE Inv
    OBVIOUS
  <2>1. AnswerInv
    BY AnswerIs DEF Init, AnswerInv
  <2> QED BY <2>1, AnswerBegins
<1>2. Inv /\ [Next]_vars => Inv'
  BY TypesStep, TextStep, CollectorStep, StreamStep, AnswerStep
<1>3. Inv => AnswerIsTrue
  BY DEF AnswerInv
<1> QED BY <1>1, <1>2, <1>3, PTL DEF Spec
=============================================================================
