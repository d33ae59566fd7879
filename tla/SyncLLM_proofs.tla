-------------------------- MODULE SyncLLM_proofs ---------------------------
(***************************************************************************)
(* A call of the synchronous front end gives its own results, for any      *)
(* requests, calls and scenario: OwnResults.                               *)
(*                                                                         *)
(* SyncInv follows each request through the client.  What the frames on    *)
(* their way have for it (Coming) completes the tokens registered for it   *)
(* (Held), comes to an end at most once and only after the engine has let  *)
(* go of it (Travels); what the caller has got of it, or the loop has      *)
(* still to come to (Got), is what was registered when it was taken        *)
(* (Accounts).  All of these are sequences of outputs filtered out of      *)
(* others, so a step on a queue adds one element to them or takes one      *)
(* away: Spreads.                                                          *)
(***************************************************************************)
EXTENDS SyncLLM, TLAPS, SequenceTheorems, FiniteSetTheorems

(***************************************************************************)
(* Induction, and sequences made of sequences.                             *)
(***************************************************************************)
LEMMA NatMin ==
  ASSUME NEW T \in SUBSET Nat, T # {}
  PROVE  \E n \in T : \A m \in T : n <= m
<1> DEFINE R == OpToRel(<, Nat)
<1>1. IsWellFoundedOn(R, Nat)
  BY NatLessThanWellFounded
<1>2. \E m \in T : \A y \in T : ~ (<<y, m>> \in R)
  <2> HIDE DEF R
  <2> QED BY <1>1, WFMin
<1>3. \A m, y \in T : y < m => <<y, m>> \in R
  <2> SUFFICES ASSUME NEW m \in T, NEW y \in T, y < m PROVE <<y, m>> \in R
    OBVIOUS
  <2> QED BY DEF OpToRel
<1> HIDE DEF R
<1>4. PICK m \in T : \A y \in T : ~ (<<y, m>> \in R)
  BY <1>2
<1>5. \A y \in T : ~(y < m)
  BY <1>3, <1>4
<1>6. m \in Nat /\ \A y \in T : y \in Nat
  OBVIOUS
<1>7. \A y \in T : m <= y
  BY <1>5, <1>6
<1> QED BY <1>7

\* If a set of natural numbers does not hold n, but some number, a least one is there with
\* its predecessor outside: induction on an interval.
LEMMA Induction ==
  ASSUME NEW low \in Nat, NEW high \in Nat, NEW Good, low \in Good,
         \A i \in low .. high : i + 1 <= high /\ i \in Good => i + 1 \in Good
  PROVE  \A i \in low .. high : i \in Good
<1> DEFINE Bad == {i \in low .. high : i \notin Good}
<1> SUFFICES ASSUME Bad # {} PROVE FALSE
  OBVIOUS
<1>1. Bad \in SUBSET Nat
  OBVIOUS
<1>2. PICK n \in Bad : \A m \in Bad : n <= m
  <2> HIDE DEF Bad
  <2> QED BY <1>1, NatMin
<1>3. n \in low .. high /\ n \notin Good /\ n # low
  BY <1>2
<1>4. n - 1 \in low .. high /\ n - 1 \notin Bad
  BY <1>2, <1>3
<1> QED BY <1>3, <1>4

\* What FlattenSeq computes, concatenation left unexpanded.
Glue(a, b) == a \o b

Flattens(s, f) == f = [i \in 1 .. Len(s) |-> IF i = 1 THEN s[i] ELSE Glue(f[i - 1], s[i])]

FlattensTo(s, n, f) == f = [i \in 1 .. n |-> IF i = 1 THEN s[i] ELSE Glue(f[i - 1], s[i])]

LEMMA FlattensExist ==
  ASSUME NEW s, NEW N \in Nat \ {0}
  PROVE  \E f : FlattensTo(s, N, f)
<1> DEFINE Good == {n \in Nat : \E f : FlattensTo(s, n, f)}
<1>1. 1 \in Good
  <2> DEFINE f == [i \in 1 .. 1 |-> s[i]]
  <2>1. f = [i \in 1 .. 1 |-> IF i = 1 THEN s[i] ELSE Glue(f[i - 1], s[i])]
    OBVIOUS
  <2> HIDE DEF f
  <2> QED BY <2>1 DEF FlattensTo
<1>2. ASSUME NEW n \in Nat, n >= 1, n \in Good PROVE n + 1 \in Good
  <2>1. PICK g : FlattensTo(s, n, g)
    BY <1>2
  <2> DEFINE f == [i \in 1 .. n + 1 |-> IF i <= n THEN g[i] ELSE Glue(g[n], s[i])]
             h == [i \in 1 .. n + 1 |-> IF i = 1 THEN s[i] ELSE Glue(f[i - 1], s[i])]
  <2>2. ASSUME NEW i \in 1 .. n + 1 PROVE f[i] = h[i]
    <3>1. CASE i = 1
      BY <1>2, <2>1, <3>1 DEF FlattensTo
    <3>2. CASE i \in 2 .. n
      <4>1. g[i] = Glue(g[i - 1], s[i])
        BY <2>1, <3>2 DEF FlattensTo
      <4>2. i - 1 \in 1 .. n + 1 /\ i - 1 <= n
        BY <3>2
      <4> QED BY <3>2, <4>1, <4>2
    <3>3. CASE i = n + 1
      <4>1. i - 1 \in 1 .. n + 1 /\ i - 1 = n /\ i # 1 /\ ~(i <= n)
        BY <1>2, <3>3
      <4> QED BY <4>1
    <3> QED BY <1>2, <3>1, <3>2, <3>3
  <2>3. f = h
    <3>1. DOMAIN f = DOMAIN h
      OBVIOUS
    <3> QED BY <2>2
  <2> HIDE DEF f
  <2> QED BY <2>3 DEF FlattensTo
<1>3. \A i \in 1 .. N : i \in Good
  <2> HIDE DEF Good
  <2> QED BY <1>1, <1>2, Induction
<1> QED BY <1>3

LEMMA FlattenIs ==
  ASSUME NEW s, Len(s) \in Nat \ {0}
  PROVE  \E f : /\ FlattenSeq(s) = f[Len(s)]
                /\ f[1] = s[1]
                /\ \A i \in 2 .. Len(s) : f[i] = Glue(f[i - 1], s[i])
<1>1. PICK f : FlattensTo(s, Len(s), f)
  BY FlattensExist
<1> DEFINE g == CHOOSE h : Flattens(s, h)
<1>2. Flattens(s, g)
  <2>1. Flattens(s, f)
    BY <1>1 DEF Flattens, FlattensTo
  <2> QED BY <2>1
<1>3. FlattenSeq(s) = g[Len(s)]
  BY DEF FlattenSeq, Flattens, Glue
<1> HIDE DEF g
<1>4. g[1] = s[1]
  BY <1>2 DEF Flattens
<1>5. \A i \in 2 .. Len(s) : g[i] = Glue(g[i - 1], s[i])
  BY <1>2 DEF Flattens
<1> QED BY <1>3, <1>4, <1>5

LEMMA FlattenEmpty ==
  FlattenSeq(<<>>) = <<>>
BY DEF FlattenSeq

LEMMA FlattenType ==
  ASSUME NEW T, NEW s \in Seq(Seq(T))
  PROVE  FlattenSeq(s) \in Seq(T)
<1>1. CASE s = <<>>
  <2>1. <<>> \in Seq(T)
    OBVIOUS
  <2> QED BY <1>1, <2>1, FlattenEmpty
<1>2. CASE s # <<>>
  <2>1. Len(s) \in Nat \ {0} /\ \A i \in 1 .. Len(s) : s[i] \in Seq(T)
    BY <1>2
  <2>2. PICK f : /\ FlattenSeq(s) = f[Len(s)]
                 /\ f[1] = s[1]
                 /\ \A i \in 2 .. Len(s) : f[i] = Glue(f[i - 1], s[i])
    BY <2>1, FlattenIs
  <2> DEFINE Good == {i \in 1 .. Len(s) : f[i] \in Seq(T)}
  <2>3. 1 \in Good
    BY <2>1, <2>2
  <2>4. ASSUME NEW i \in 1 .. Len(s), i + 1 <= Len(s), i \in Good PROVE i + 1 \in Good
    <3>1. f[i + 1] = Glue(f[i], s[i + 1]) /\ i + 1 \in 1 .. Len(s)
      <4>1. i + 1 \in 2 .. Len(s) /\ (i + 1) - 1 = i
        BY <2>1, <2>4
      <4> QED BY <4>1, <2>2
    <3>2. Glue(f[i], s[i + 1]) \in Seq(T)
      BY <2>1, <2>4, <3>1 DEF Glue
    <3> QED BY <3>1, <3>2
  <2>5. \A i \in 1 .. Len(s) : i \in Good
    <3> HIDE DEF Good
    <3> QED BY <2>1, <2>3, <2>4, Induction
  <2> QED BY <2>1, <2>2, <2>5
<1> QED BY <1>1, <1>2

LEMMA FlattenAppend ==
  ASSUME NEW T, NEW s \in Seq(Seq(T)), NEW e \in Seq(T)
  PROVE  FlattenSeq(Append(s, e)) = FlattenSeq(s) \o e
<1> DEFINE t == Append(s, e)
<1>1. /\ t \in Seq(Seq(T)) /\ Len(t) = Len(s) + 1 /\ Len(s) \in Nat
      /\ \A i \in 1 .. Len(s) : t[i] = s[i]
      /\ t[Len(s) + 1] = e
  OBVIOUS
<1> HIDE DEF t
<1>2. PICK g : /\ FlattenSeq(t) = g[Len(t)]
               /\ g[1] = t[1]
               /\ \A i \in 2 .. Len(t) : g[i] = Glue(g[i - 1], t[i])
  <2>1. Len(t) \in Nat \ {0}
    BY <1>1
  <2> QED BY <2>1, FlattenIs
<1>3. CASE s = <<>>
  <2>1. g[Len(t)] = e
    BY <1>1, <1>2, <1>3
  <2> QED BY <1>2, <1>3, <2>1, FlattenEmpty DEF t
<1>4. CASE s # <<>>
  <2>1. Len(s) \in Nat \ {0}
    BY <1>4
  <2>2. PICK f : /\ FlattenSeq(s) = f[Len(s)]
                 /\ f[1] = s[1]
                 /\ \A i \in 2 .. Len(s) : f[i] = Glue(f[i - 1], s[i])
    BY <2>1, FlattenIs
  <2> DEFINE Good == {i \in 1 .. Len(s) : f[i] = g[i]}
  <2>3. 1 \in Good
    BY <1>1, <1>2, <2>1, <2>2
  <2>4. ASSUME NEW i \in 1 .. Len(s), i + 1 <= Len(s), i \in Good PROVE i + 1 \in Good
    <3>1. i + 1 \in 2 .. Len(s) /\ i + 1 \in 2 .. Len(t) /\ (i + 1) - 1 = i
      BY <1>1, <2>4
    <3>2. f[i + 1] = Glue(f[i], s[i + 1]) /\ g[i + 1] = Glue(g[i], t[i + 1])
      BY <3>1, <1>2, <2>2
    <3> QED BY <1>1, <2>4, <3>1, <3>2
  <2>5. \A i \in 1 .. Len(s) : i \in Good
    <3> HIDE DEF Good
    <3> QED BY <2>1, <2>3, <2>4, Induction
  <2>6. g[Len(t)] = Glue(g[Len(s)], e)
    <3>1. Len(t) \in 2 .. Len(t) /\ Len(t) - 1 = Len(s)
      BY <1>1, <2>1
    <3> QED BY <1>1, <1>2, <3>1
  <2>7. Len(s) \in 1 .. Len(s) /\ f[Len(s)] = g[Len(s)]
    BY <2>1, <2>5
  <2> QED BY <1>2, <2>2, <2>6, <2>7 DEF t, Glue
<1> QED BY <1>3, <1>4

LEMMA ConcatOf ==
  ASSUME NEW S, NEW a \in Seq(S), NEW b \in Seq(S)
  PROVE  /\ a \o b \in Seq(S) /\ Len(a \o b) = Len(a) + Len(b) /\ Len(a) \in Nat /\ Len(b) \in Nat
         /\ \A i \in 1 .. Len(a) : (a \o b)[i] = a[i]
         /\ \A i \in 1 .. Len(b) : (a \o b)[Len(a) + i] = b[i]
OBVIOUS

LEMMA FlattenConcat ==
  ASSUME NEW T, NEW s \in Seq(Seq(T)), NEW t \in Seq(Seq(T))
  PROVE  FlattenSeq(s \o t) = FlattenSeq(s) \o FlattenSeq(t)
<1> DEFINE u(n) == SubSeq(t, 1, n)
           Good == {n \in 0 .. Len(t) : FlattenSeq(s \o u(n)) = FlattenSeq(s) \o FlattenSeq(u(n))}
<1>1. 0 \in Good
  <2>1. u(0) = <<>> /\ FlattenSeq(s) \in Seq(T) /\ Len(t) \in Nat
    BY FlattenType
  <2>2. FlattenSeq(s) \o <<>> = FlattenSeq(s) /\ s \o <<>> = s
    BY <2>1, ConcatEmptySeq
  <2>3. s \o u(0) = s /\ FlattenSeq(u(0)) = <<>> /\ 0 \in 0 .. Len(t)
    <3> HIDE DEF u
    <3> QED BY <2>1, <2>2, FlattenEmpty
  <2> HIDE DEF u
  <2> QED BY <2>2, <2>3
<1>2. ASSUME NEW n \in 0 .. Len(t), n + 1 <= Len(t), n \in Good PROVE n + 1 \in Good
  <2>1. /\ u(n) \in Seq(Seq(T)) /\ t[n + 1] \in Seq(T) /\ n + 1 \in 0 .. Len(t)
        /\ u(n + 1) = Append(u(n), t[n + 1])
    BY <1>2
  <2>2. s \o Append(u(n), t[n + 1]) = Append(s \o u(n), t[n + 1]) /\ s \o u(n) \in Seq(Seq(T))
    <3> DEFINE v == u(n)
               x == t[n + 1]
               X == Seq(T)
    <3>1. v \in Seq(X) /\ x \in X /\ s \in Seq(X)
      BY <2>1
    <3> HIDE DEF u, v, x, X
    <3>2. s \o Append(v, x) = Append(s \o v, x) /\ s \o v \in Seq(X)
      BY <3>1
    <3> QED BY <3>2 DEF v, x, X
  <2>3. FlattenSeq(s \o u(n + 1)) = FlattenSeq(s \o u(n)) \o t[n + 1]
    <3> HIDE DEF u
    <3> QED BY <2>1, <2>2, FlattenAppend
  <2>4. FlattenSeq(u(n + 1)) = FlattenSeq(u(n)) \o t[n + 1]
    <3> HIDE DEF u
    <3> QED BY <2>1, FlattenAppend
  <2>5. FlattenSeq(s) \in Seq(T) /\ FlattenSeq(u(n)) \in Seq(T)
    <3> HIDE DEF u
    <3> QED BY <2>1, FlattenType
  <2>6. (FlattenSeq(s) \o FlattenSeq(u(n))) \o t[n + 1] = FlattenSeq(s) \o (FlattenSeq(u(n)) \o t[n + 1])
    <3> DEFINE a == FlattenSeq(s)
               b == FlattenSeq(u(n))
               c == t[n + 1]
    <3>1. a \in Seq(T) /\ b \in Seq(T) /\ c \in Seq(T)
      BY <2>1, <2>5
    <3> HIDE DEF a, b, c
    <3>2. (a \o b) \o c = a \o (b \o c)
      BY ONLY <3>1, SMTT(20)
    <3> QED BY <3>2 DEF a, b, c
  <2>7. FlattenSeq(s \o u(n)) = FlattenSeq(s) \o FlattenSeq(u(n))
    BY <1>2
  <2> HIDE DEF u
  <2> QED BY <2>1, <2>3, <2>4, <2>6, <2>7
<1>3. \A n \in 0 .. Len(t) : n \in Good
  <2> HIDE DEF Good
  <2>1. Len(t) \in Nat
    OBVIOUS
  <2> QED BY <1>1, <1>2, <2>1, Induction
<1>4. u(Len(t)) = t /\ Len(t) \in 0 .. Len(t)
  BY SubSeqFull
<1> QED BY <1>3, <1>4

LEMMA IsSeq ==
  ASSUME NEW U, NEW n \in Nat, NEW f \in [1 .. n -> U]
  PROVE  f \in Seq(U) /\ Len(f) = n
OBVIOUS

\* Every element of a sequence replaced by what g makes of it.
Spread(g, s) == FlattenSeq([i \in DOMAIN s |-> g[s[i]]])

Spreads(g, S, T) ==
  /\ Spread(g, <<>>) = <<>>
  /\ \A e \in S : Spread(g, <<e>>) = g[e]
  /\ \A s \in Seq(S) : Spread(g, s) \in Seq(T)
  /\ \A s, t \in Seq(S) : Spread(g, s \o t) = Spread(g, s) \o Spread(g, t)

LEMMA SpreadOf ==
  ASSUME NEW S, NEW T, NEW g \in [S -> Seq(T)]
  PROVE  Spreads(g, S, T)
<1> DEFINE m(s) == [i \in DOMAIN s |-> g[s[i]]]
<1>1. ASSUME NEW s \in Seq(S) PROVE m(s) \in Seq(Seq(T)) /\ Len(m(s)) = Len(s)
  <2>1. DOMAIN s = 1 .. Len(s) /\ Len(s) \in Nat /\ \A i \in 1 .. Len(s) : g[s[i]] \in Seq(T)
    OBVIOUS
  <2>2. m(s) = [i \in 1 .. Len(s) |-> g[s[i]]]
    BY <2>1
  <2>3. m(s) \in [1 .. Len(s) -> Seq(T)]
    BY <2>1, <2>2
  <2> HIDE DEF m
  <2> QED BY <2>1, <2>3, IsSeq
<1>2. Spread(g, <<>>) = <<>>
  <2>1. m(<<>>) = <<>>
    <3>1. m(<<>>) = [i \in 1 .. 0 |-> g[<<>>[i]]]
      <4>1. DOMAIN <<>> = 1 .. 0
        OBVIOUS
      <4> QED BY <4>1
    <3>2. [i \in 1 .. 0 |-> g[<<>>[i]]] = <<>>
      OBVIOUS
    <3> HIDE DEF m
    <3> QED BY <3>1, <3>2
  <2> QED BY <2>1, FlattenEmpty DEF Spread
<1>3. ASSUME NEW e \in S PROVE Spread(g, <<e>>) = g[e]
  <2>1. m(<<e>>) = Append(<<>>, g[e]) /\ g[e] \in Seq(T) /\ <<>> \in Seq(Seq(T))
    OBVIOUS
  <2>2. FlattenSeq(Append(<<>>, g[e])) = FlattenSeq(<<>>) \o g[e]
    BY <2>1, FlattenAppend
  <2>3. <<>> \o g[e] = g[e]
    BY <2>1
  <2> QED BY <2>1, <2>2, <2>3, FlattenEmpty DEF Spread
<1>4. ASSUME NEW s \in Seq(S) PROVE Spread(g, s) \in Seq(T)
  BY <1>1, FlattenType DEF Spread
<1>5. ASSUME NEW s \in Seq(S), NEW t \in Seq(S) PROVE Spread(g, s \o t) = Spread(g, s) \o Spread(g, t)
  <2>1. m(s \o t) = m(s) \o m(t)
    <3>1. /\ m(s \o t) \in Seq(Seq(T)) /\ m(s) \o m(t) \in Seq(Seq(T))
          /\ Len(m(s \o t)) = Len(m(s) \o m(t)) /\ Len(m(s \o t)) = Len(s) + Len(t)
          /\ Len(s) \in Nat /\ Len(t) \in Nat
      <4>1. s \o t \in Seq(S) /\ Len(s \o t) = Len(s) + Len(t) /\ Len(s) \in Nat /\ Len(t) \in Nat
        OBVIOUS
      <4> HIDE DEF m
      <4>2. /\ m(s) \in Seq(Seq(T)) /\ m(t) \in Seq(Seq(T)) /\ m(s \o t) \in Seq(Seq(T))
            /\ Len(m(s)) = Len(s) /\ Len(m(t)) = Len(t) /\ Len(m(s \o t)) = Len(s \o t)
        BY <1>1, <4>1
      <4>3. m(s) \o m(t) \in Seq(Seq(T)) /\ Len(m(s) \o m(t)) = Len(m(s)) + Len(m(t))
        BY <4>2, ConcatProperties
      <4> QED BY <4>1, <4>2, <4>3
    <3>2. ASSUME NEW i \in 1 .. Len(s) + Len(t) PROVE m(s \o t)[i] = (m(s) \o m(t))[i]
      <4>1. m(s \o t)[i] = g[(s \o t)[i]]
        <5>1. DOMAIN (s \o t) = 1 .. Len(s) + Len(t)
          <6> HIDE DEF m
          <6>1. s \o t \in Seq(S) /\ Len(s \o t) = Len(s) + Len(t)
            OBVIOUS
          <6> QED BY <6>1, LenProperties
        <5> QED BY <5>1
      <4>2. CASE i <= Len(s)
        <5>1. (s \o t)[i] = s[i] /\ m(s)[i] = g[s[i]] /\ Len(m(s)) = Len(s)
          BY <4>2
        <5>2. (m(s) \o m(t))[i] = m(s)[i]
          <6> HIDE DEF m
          <6> QED BY <1>1, <4>2, <5>1
        <5> QED BY <4>1, <5>1, <5>2
      <4>3. CASE i > Len(s)
        <5>1. /\ (s \o t)[i] = t[i - Len(s)] /\ m(t)[i - Len(s)] = g[t[i - Len(s)]]
              /\ Len(m(s)) = Len(s)
          BY <4>3
        <5>2. (m(s) \o m(t))[i] = m(t)[i - Len(s)]
          <6> HIDE DEF m
          <6>1. Len(m(t)) = Len(t) /\ Len(s) \in Nat /\ Len(t) \in Nat
            BY <1>1
          <6> QED BY <1>1, <4>3, <5>1, <6>1
        <5> QED BY <4>1, <5>1, <5>2
      <4> QED BY <4>2, <4>3
    <3> HIDE DEF m
    <3> QED BY <3>1, <3>2, SeqEqual
  <2> HIDE DEF m
  <2>2. FlattenSeq(m(s) \o m(t)) = FlattenSeq(m(s)) \o FlattenSeq(m(t))
    BY <1>1, FlattenConcat
  <2> QED BY <2>1, <2>2 DEF Spread, m
<1> HIDE DEF m
<1> QED BY <1>2, <1>3, <1>4, <1>5 DEF Spreads
-----------------------------------------------------------------------------
(***************************************************************************)
(* Token numbers.                                                          *)
(***************************************************************************)
LEMMA NumbersSeq ==
  ASSUME NEW n \in Nat
  PROVE  /\ Numbers(n) \in Seq(Nat) /\ Len(Numbers(n)) = n
         /\ \A i \in 1 .. n : Numbers(n)[i] = i
         /\ DOMAIN Numbers(n) = 1 .. n
  BY DEF Numbers

\* A sequence of numbers is what it is by its length and elements.
LEMMA IsNumbers ==
  ASSUME NEW s \in Seq(Nat), \A i \in 1 .. Len(s) : s[i] = i
  PROVE  s = Numbers(Len(s))
  BY DEF Numbers

LEMMA NextNumber ==
  ASSUME NEW n \in Nat PROVE Numbers(n) \o <<n + 1>> = Numbers(n + 1)
<1> DEFINE one == <<n + 1>>
           p == Numbers(n)
           s == p \o one
<1>1. one \in Seq(Nat) /\ Len(one) = 1 /\ one[1] = n + 1
  OBVIOUS
<1>2. p \in Seq(Nat) /\ Len(p) = n /\ \A i \in 1 .. n : p[i] = i
  BY NumbersSeq
<1> HIDE DEF one, p
<1>3. /\ s \in Seq(Nat) /\ Len(s) = n + 1
      /\ \A i \in 1 .. n + 1 : s[i] = IF i <= n THEN p[i] ELSE one[i - n]
  <2>1. /\ s \in Seq(Nat) /\ Len(s) = Len(p) + Len(one)
        /\ \A i \in 1 .. Len(p) + Len(one) : s[i] = IF i <= Len(p) THEN p[i] ELSE one[i - Len(p)]
    BY <1>1, <1>2, ConcatProperties
  <2> QED BY <1>1, <1>2, <2>1
<1> HIDE DEF s
<1>4. ASSUME NEW i \in 1 .. Len(s) PROVE s[i] = i
  <2>1. CASE i <= n
    BY <1>2, <1>3, <2>1
  <2>2. CASE i = n + 1
    <3>1. ~(i <= n) /\ i - n = 1
      BY <2>2
    <3>2. s[i] = one[i - n]
      BY <1>3, <3>1
    <3> QED BY <1>1, <2>2, <3>1, <3>2
  <2> QED BY <1>3, <2>1, <2>2
<1>5. s = Numbers(n + 1)
  BY <1>3, <1>4, IsNumbers
<1> QED BY <1>5 DEF s, p, one

LEMMA FirstNumbers ==
  ASSUME NEW p \in Seq(Nat), NEW q \in Seq(Nat), p \o q = Numbers(Len(p \o q))
  PROVE  p = Numbers(Len(p))
<1>1. /\ p \o q \in Seq(Nat) /\ Len(p \o q) = Len(p) + Len(q)
      /\ \A i \in 1 .. Len(p) + Len(q) : (p \o q)[i] = IF i <= Len(p) THEN p[i] ELSE q[i - Len(p)]
  BY ConcatProperties
<1>2. \A i \in 1 .. Len(p) : p[i] = i
  <2> SUFFICES ASSUME NEW i \in 1 .. Len(p) PROVE p[i] = i
    OBVIOUS
  <2>1. (p \o q)[i] = p[i] /\ i \in 1 .. Len(p \o q) /\ Len(p \o q) \in Nat
    BY <1>1
  <2> QED BY <2>1, NumbersSeq
<1> QED BY <1>2, IsNumbers

\* What a DELTA output adds to what was sent.
LEMMA SentAndRest ==
  ASSUME NEW s \in Seq(Nat), NEW t \in Seq(Nat)
  PROVE  /\ SubSeq(s \o t, Len(s) + 1, Len(s \o t)) = t
         /\ s \o t \in Seq(Nat)
<1> DEFINE w == s \o t
           x == SubSeq(w, Len(s) + 1, Len(w))
<1>1. /\ w \in Seq(Nat) /\ Len(w) = Len(s) + Len(t)
      /\ \A i \in 1 .. Len(s) + Len(t) : w[i] = IF i <= Len(s) THEN s[i] ELSE t[i - Len(s)]
  BY ConcatProperties
<1> HIDE DEF w
<1>2. /\ x \in Seq(Nat) /\ Len(x) = Len(t)
      /\ \A i \in 1 .. Len(t) : x[i] = w[Len(s) + i]
  <2>1. \A i \in Len(s) + 1 .. Len(w) : w[i] \in Nat
    BY <1>1
  <2>2. Len(s) + 1 \in Int /\ Len(w) \in Int
    BY <1>1
  <2>3. /\ x \in Seq(Nat)
        /\ Len(x) = IF Len(s) + 1 <= Len(w) THEN Len(w) - (Len(s) + 1) + 1 ELSE 0
        /\ \A i \in 1 .. Len(w) - (Len(s) + 1) + 1 : x[i] = w[Len(s) + 1 + i - 1]
    BY <2>1, <2>2, SubSeqProperties
  <2> QED BY <1>1, <2>3
<1> HIDE DEF x
<1>3. ASSUME NEW i \in 1 .. Len(t) PROVE x[i] = t[i]
  <2>1. Len(s) \in Nat /\ Len(s) + i \in 1 .. Len(s) + Len(t) /\ ~(Len(s) + i <= Len(s))
        /\ (Len(s) + i) - Len(s) = i
    OBVIOUS
  <2>2. w[Len(s) + i] = t[(Len(s) + i) - Len(s)]
    BY <1>1, <2>1
  <2>3. t[(Len(s) + i) - Len(s)] = t[i]
    BY <2>1
  <2> QED BY <1>2, <2>2, <2>3
<1>4. x = t
  BY <1>2, <1>3, SeqEqual
<1> QED BY <1>1, <1>4 DEF x, w
-----------------------------------------------------------------------------
(***************************************************************************)
(* The invariant.                                                          *)
(***************************************************************************)
Reasons == {None, "length", "stop", "abort"}
RequestStates == [token_ids : Seq(Nat), sent : Nat, reason : Reasons]
EngineOutputs == [tokens : Seq(Nat), reason : {None, "length", "abort"}]
Batches == [kind : {"batch"}, outputs : UNION {[S -> EngineOutputs] : S \in SUBSET Requests}]
Items == Batches \cup [kind : {"dead", "utility"}, outputs : {<<>>}]
Messages == [type : {"ADD", "ABORT", "UTILITY"}, ids : SUBSET Requests]
Outs == [kind : {"output"}, tokens : Seq(Nat), reason : Reasons]
UserOutputs == [of : Requests, output : Outs]

CallTypes ==
  /\ given \in Givens
  /\ call \in 0 .. Len(given.calls) /\ added \in Nat
  /\ outcome = [i \in DOMAIN given.calls |-> outcome[i]]
  /\ requests = [r \in Registered |-> requests[r]] /\ Registered \subseteq Requests
  /\ \A r \in Registered : requests[r] \in RequestStates
  /\ \A ext \in DOMAIN external_req_ids :
       external_req_ids[ext] \subseteq {r \in Requests : external_of[r] = ext}
TravelTypes ==
  /\ outputs_queue \in Seq(Items) /\ socket \in Seq(Items) /\ to_engine \in Seq(Messages)
  /\ running \subseteq Requests /\ produced \in [Requests -> Nat]
SyncTypes == CallTypes /\ TravelTypes

InCall == {"adding", "unstarted", "loop", "handle", "yielded", "drain", "discard"}

\* What a call has before it gives anything, and where it waits with outputs.
Shape ==
  /\ thread \in {"adding", "unstarted"} => results = <<>>
  /\ thread \notin {"handle", "yielded", "discard"} => step_outputs = <<>>
  /\ thread = "yielded" => step_outputs # <<>>
  /\ thread \in InCall \cup {"utility"} => call > 0 /\ outcome[call] = None
  /\ thread = "adding" => added <= Len(Prompts)
  /\ thread = "utility" => Current.kind = "utility"
  /\ \A i \in DOMAIN given.calls : i > call => outcome[i] = None

\* Prompts that are still to be registered.
ToCome(r) ==
  \E i \in DOMAIN given.calls : \E k \in DOMAIN given.calls[i].prompts :
    /\ r = given.calls[i].prompts[k]
    /\ i > call \/ (i = call /\ thread = "adding" /\ k > added)

\* What the frames of p have for r.
OutputsIn(r, p) ==
  FlattenSeq([i \in DOMAIN p |-> IF r \in DOMAIN p[i].outputs THEN <<p[i].outputs[r]>> ELSE <<>>])
Coming(r) == OutputsIn(r, outputs_queue \o socket)

AddsIn(r, q) ==
  FlattenSeq([i \in DOMAIN q |-> IF q[i].type = "ADD" /\ r \in q[i].ids THEN <<q[i]>> ELSE <<>>])
Going(r) == r \in running \/ AddsIn(r, to_engine) # <<>>

\* No end is among outs; there is at most one, and it comes last.
Endless(outs) == \A i \in DOMAIN outs : outs[i].reason = None
EndsLast(outs) == \A i \in DOMAIN outs : outs[i].reason # None => i = Len(outs)

\* A request comes to the engine once and nothing comes of it after its end.
Travels(r) ==
  /\ AddsIn(r, to_engine) # <<>> => Len(AddsIn(r, to_engine)) = 1 /\ r \notin running
  /\ EndsLast(Coming(r)) /\ (Going(r) => Endless(Coming(r)))
  /\ ToCome(r) => produced[r] = 0 /\ ~Going(r) /\ Coming(r) = <<>>
Transport == \A r \in Requests : Travels(r)

\* The prompts of the current call, if there is one.
Own == IF call = 0 THEN {} ELSE Range(Prompts)

\* What is a result of this call, and what the loop has still to come to.
Rightful ==
  {out \in UserOutputs :
     /\ out.of \in Own
     /\ output_kind[out.of] # "DELTA" => out.output.tokens = Numbers(Len(out.output.tokens))}
Spent == {out \in Rightful : out.output.reason # None => out.of \notin Registered}
Pending ==
  IF thread \in {"drain", "discard"} THEN <<>>
  ELSE IF thread = "yielded" THEN Tail(step_outputs) ELSE step_outputs

\* The outputs of r that have been given or will be, if nothing more comes.
Got(r) == OutputsTo(r, results \o Pending)

\* With what is coming for it, a registered request has all its tokens.
Holds(r) ==
  /\ requests[r].reason = None
  /\ output_kind[r] # "FINAL_ONLY" => requests[r].sent = Len(requests[r].token_ids)
  /\ requests[r].token_ids \o TokensIn(Coming(r)) = Numbers(produced[r])

\* What is registered belongs to the call under way.
Held ==
  /\ Registered \subseteq Own
  /\ thread \notin InCall => Registered = {}
  /\ thread = "adding" => Registered = {Prompts[i] : i \in 1 .. added}
  /\ \A r \in Registered : Holds(r)

Delivered ==
  /\ results \in Seq(Rightful) /\ step_outputs \in Seq(Spent)
  /\ \A r \in Own : output_kind[r] = "DELTA" =>
       TokensIn(Got(r)) = Numbers(Len(TokensIn(Got(r))))

\* Until a call has returned, what a request has got is all it had, and a request that is
\* registered no longer has got its end, unless it was aborted.
Delivering ==
  \/ thread \in {"adding", "unstarted", "loop", "handle", "yielded"}
  \/ call > 0 /\ outcome[call] = "returned" /\ Current.kind # "utility"
Accounts(r) ==
  /\ r \in Registered => /\ Endless(Got(r))
                         /\ output_kind[r] = "DELTA" => TokensIn(Got(r)) = requests[r].token_ids
  /\ r \in Registered \cup aborted \/ thread = "adding" \/ ~Endless(Got(r))
  /\ EndsLast(Got(r))
  /\ output_kind[r] = "FINAL_ONLY" => \A i \in DOMAIN Got(r) : Got(r)[i].reason # None
  /\ \A i \in DOMAIN Got(r) : Got(r)[i].reason = "length" =>
       /\ ~Going(r)
       /\ (IF output_kind[r] = "DELTA" THEN TokensIn(Got(r)) ELSE Got(r)[i].tokens)
            = Numbers(produced[r])
Accounted == Delivering => \A r \in Own : Accounts(r)

SyncInv ==
  /\ SyncTypes /\ Shape /\ Transport
  /\ ~orphaned => Held /\ Delivered /\ Accounted
-----------------------------------------------------------------------------
(***************************************************************************)
(* What of a sequence is one request's.                                    *)
(***************************************************************************)
LEMMA Plain ==
  ASSUME NEW S
  PROVE  /\ <<>> \in Seq(S) /\ \A e \in S : <<e>> \in Seq(S)
         /\ \A s, t \in Seq(S) : s \o t \in Seq(S)
OBVIOUS

LEMMA ItemKinds ==
  ASSUME NEW m \in Items
  PROVE  /\ m.kind \in {"batch", "dead", "utility"}
         /\ m.kind # "batch" => m.outputs = <<>>
         /\ DOMAIN m.outputs \subseteq Requests
         /\ \A r \in DOMAIN m.outputs : m.kind = "batch" /\ m.outputs[r] \in EngineOutputs
<1>1. CASE m \in Batches
  <2>1. PICK S \in SUBSET Requests : m.outputs \in [S -> EngineOutputs]
    BY <1>1 DEF Batches
  <2> QED BY <1>1, <2>1 DEF Batches
<1>2. CASE m \in [kind : {"dead", "utility"}, outputs : {<<>>}]
  <2>1. DOMAIN <<>> = {}
    OBVIOUS
  <2> QED BY <1>2, <2>1
<1> QED BY <1>1, <1>2 DEF Items

LEMMA OutputsInIs ==
  ASSUME NEW r
  PROVE  /\ OutputsIn(r, <<>>) = <<>>
         /\ \A m \in Items : OutputsIn(r, <<m>>) = IF r \in DOMAIN m.outputs THEN <<m.outputs[r]>> ELSE <<>>
         /\ \A s \in Seq(Items) : OutputsIn(r, s) \in Seq(EngineOutputs)
         /\ \A s, t \in Seq(Items) : OutputsIn(r, s \o t) = OutputsIn(r, s) \o OutputsIn(r, t)
<1> DEFINE g == [m \in Items |-> IF r \in DOMAIN m.outputs THEN <<m.outputs[r]>> ELSE <<>>]
<1>1. g \in [Items -> Seq(EngineOutputs)]
  <2>1. ASSUME NEW m \in Items
        PROVE  (IF r \in DOMAIN m.outputs THEN <<m.outputs[r]>> ELSE <<>>) \in Seq(EngineOutputs)
    <3>1. r \in DOMAIN m.outputs => m.outputs[r] \in EngineOutputs
      BY ItemKinds
    <3> QED BY <3>1, Plain
  <2> QED BY <2>1
<1>2. ASSUME NEW s \in Seq(Items) PROVE OutputsIn(r, s) = Spread(g, s)
  <2>1. \A i \in DOMAIN s : s[i] \in Items
    OBVIOUS
  <2>2. \A i \in DOMAIN s : g[s[i]] = IF r \in DOMAIN s[i].outputs THEN <<s[i].outputs[r]>> ELSE <<>>
    BY <2>1
  <2>3. [i \in DOMAIN s |-> IF r \in DOMAIN s[i].outputs THEN <<s[i].outputs[r]>> ELSE <<>>]
          = [i \in DOMAIN s |-> g[s[i]]]
    BY <2>2
  <2> HIDE DEF g
  <2> QED BY <2>3 DEF OutputsIn, Spread
<1>3. \A m \in Items : g[m] = IF r \in DOMAIN m.outputs THEN <<m.outputs[r]>> ELSE <<>>
  OBVIOUS
<1> HIDE DEF g
<1>4. /\ <<>> \in Seq(Items) /\ \A m \in Items : <<m>> \in Seq(Items)
      /\ \A s, t \in Seq(Items) : s \o t \in Seq(Items)
  BY Plain
<1>5. Spreads(g, Items, EngineOutputs)
  BY <1>1, SpreadOf
<1>6. OutputsIn(r, <<>>) = <<>>
  BY <1>2, <1>4, <1>5 DEF Spreads
<1>7. ASSUME NEW m \in Items
      PROVE  OutputsIn(r, <<m>>) = IF r \in DOMAIN m.outputs THEN <<m.outputs[r]>> ELSE <<>>
  <2>1. OutputsIn(r, <<m>>) = Spread(g, <<m>>)
    BY <1>2, <1>4
  <2>2. Spread(g, <<m>>) = g[m]
    BY <1>5 DEF Spreads
  <2> QED BY <1>3, <2>1, <2>2
<1>8. ASSUME NEW s \in Seq(Items) PROVE OutputsIn(r, s) \in Seq(EngineOutputs)
  BY <1>2, <1>5 DEF Spreads
<1>9. ASSUME NEW s \in Seq(Items), NEW t \in Seq(Items)
      PROVE  OutputsIn(r, s \o t) = OutputsIn(r, s) \o OutputsIn(r, t)
  <2>1. /\ OutputsIn(r, s \o t) = Spread(g, s \o t)
        /\ OutputsIn(r, s) = Spread(g, s) /\ OutputsIn(r, t) = Spread(g, t)
    BY <1>2, <1>4
  <2>2. Spread(g, s \o t) = Spread(g, s) \o Spread(g, t)
    BY <1>5 DEF Spreads
  <2> QED BY <2>1, <2>2
<1> QED BY <1>6, <1>7, <1>8, <1>9

LEMMA AddsInIs ==
  ASSUME NEW r
  PROVE  /\ AddsIn(r, <<>>) = <<>>
         /\ \A m \in Messages : AddsIn(r, <<m>>) = IF m.type = "ADD" /\ r \in m.ids THEN <<m>> ELSE <<>>
         /\ \A s \in Seq(Messages) : AddsIn(r, s) \in Seq(Messages)
         /\ \A s, t \in Seq(Messages) : AddsIn(r, s \o t) = AddsIn(r, s) \o AddsIn(r, t)
<1> DEFINE g == [m \in Messages |-> IF m.type = "ADD" /\ r \in m.ids THEN <<m>> ELSE <<>>]
<1>1. g \in [Messages -> Seq(Messages)]
  BY Plain
<1>2. ASSUME NEW s \in Seq(Messages) PROVE AddsIn(r, s) = Spread(g, s)
  <2>1. \A i \in DOMAIN s : s[i] \in Messages
    OBVIOUS
  <2>2. \A i \in DOMAIN s : g[s[i]] = IF s[i].type = "ADD" /\ r \in s[i].ids THEN <<s[i]>> ELSE <<>>
    BY <2>1
  <2>3. [i \in DOMAIN s |-> IF s[i].type = "ADD" /\ r \in s[i].ids THEN <<s[i]>> ELSE <<>>]
          = [i \in DOMAIN s |-> g[s[i]]]
    BY <2>2
  <2> HIDE DEF g
  <2> QED BY <2>3 DEF AddsIn, Spread
<1>3. \A m \in Messages : g[m] = IF m.type = "ADD" /\ r \in m.ids THEN <<m>> ELSE <<>>
  OBVIOUS
<1> HIDE DEF g
<1>4. /\ <<>> \in Seq(Messages) /\ \A m \in Messages : <<m>> \in Seq(Messages)
      /\ \A s, t \in Seq(Messages) : s \o t \in Seq(Messages)
  BY Plain
<1>5. Spreads(g, Messages, Messages)
  BY <1>1, SpreadOf
<1>6. AddsIn(r, <<>>) = <<>>
  BY <1>2, <1>4, <1>5 DEF Spreads
<1>7. ASSUME NEW m \in Messages PROVE AddsIn(r, <<m>>) = IF m.type = "ADD" /\ r \in m.ids THEN <<m>> ELSE <<>>
  <2>1. AddsIn(r, <<m>>) = Spread(g, <<m>>)
    BY <1>2, <1>4
  <2>2. Spread(g, <<m>>) = g[m]
    BY <1>5 DEF Spreads
  <2> QED BY <1>3, <2>1, <2>2
<1>8. ASSUME NEW s \in Seq(Messages) PROVE AddsIn(r, s) \in Seq(Messages)
  BY <1>2, <1>5 DEF Spreads
<1>9. ASSUME NEW s \in Seq(Messages), NEW t \in Seq(Messages)
      PROVE  AddsIn(r, s \o t) = AddsIn(r, s) \o AddsIn(r, t)
  <2>1. AddsIn(r, s \o t) = Spread(g, s \o t) /\ AddsIn(r, s) = Spread(g, s) /\ AddsIn(r, t) = Spread(g, t)
    BY <1>2, <1>4
  <2>2. Spread(g, s \o t) = Spread(g, s) \o Spread(g, t)
    BY <1>5 DEF Spreads
  <2> QED BY <2>1, <2>2
<1> QED BY <1>6, <1>7, <1>8, <1>9

LEMMA TokensInIs ==
  ASSUME NEW S, \A o \in S : o.tokens \in Seq(Nat)
  PROVE  /\ TokensIn(<<>>) = <<>>
         /\ \A m \in S : TokensIn(<<m>>) = m.tokens
         /\ \A s \in Seq(S) : TokensIn(s) \in Seq(Nat)
         /\ \A s, t \in Seq(S) : TokensIn(s \o t) = TokensIn(s) \o TokensIn(t)
<1> DEFINE g == [m \in S |-> m.tokens]
<1>1. g \in [S -> Seq(Nat)]
  OBVIOUS
<1>2. ASSUME NEW s \in Seq(S) PROVE TokensIn(s) = Spread(g, s)
  <2>1. \A i \in DOMAIN s : s[i] \in S
    OBVIOUS
  <2>2. \A i \in DOMAIN s : g[s[i]] = s[i].tokens
    BY <2>1
  <2>3. [i \in DOMAIN s |-> s[i].tokens] = [i \in DOMAIN s |-> g[s[i]]]
    BY <2>2
  <2> HIDE DEF g
  <2> QED BY <2>3 DEF TokensIn, Spread
<1>3. \A m \in S : g[m] = m.tokens
  OBVIOUS
<1> HIDE DEF g
<1>4. /\ <<>> \in Seq(S) /\ \A m \in S : <<m>> \in Seq(S)
      /\ \A s, t \in Seq(S) : s \o t \in Seq(S)
  BY Plain
<1>5. Spreads(g, S, Nat)
  BY <1>1, SpreadOf
<1>6. TokensIn(<<>>) = <<>>
  BY <1>2, <1>4, <1>5 DEF Spreads
<1>7. ASSUME NEW m \in S PROVE TokensIn(<<m>>) = m.tokens
  <2>1. TokensIn(<<m>>) = Spread(g, <<m>>)
    BY <1>2, <1>4
  <2>2. Spread(g, <<m>>) = g[m]
    BY <1>5 DEF Spreads
  <2> QED BY <1>3, <2>1, <2>2
<1>8. ASSUME NEW s \in Seq(S) PROVE TokensIn(s) \in Seq(Nat)
  BY <1>2, <1>5 DEF Spreads
<1>9. ASSUME NEW s \in Seq(S), NEW t \in Seq(S)
      PROVE  TokensIn(s \o t) = TokensIn(s) \o TokensIn(t)
  <2>1. TokensIn(s \o t) = Spread(g, s \o t) /\ TokensIn(s) = Spread(g, s) /\ TokensIn(t) = Spread(g, t)
    BY <1>2, <1>4
  <2>2. Spread(g, s \o t) = Spread(g, s) \o Spread(g, t)
    BY <1>5 DEF Spreads
  <2> QED BY <2>1, <2>2
<1> QED BY <1>6, <1>7, <1>8, <1>9

SelectsOf(r, S, T) ==
  /\ OutputsTo(r, <<>>) = <<>>
  /\ \A m \in S : OutputsTo(r, <<m>>) = IF m.of = r THEN <<m.output>> ELSE <<>>
  /\ \A s \in Seq(S) : OutputsTo(r, s) \in Seq(T)
  /\ \A s, t \in Seq(S) : OutputsTo(r, s \o t) = OutputsTo(r, s) \o OutputsTo(r, t)

LEMMA OutputsToIs ==
  ASSUME NEW r, NEW S, NEW T, \A u \in S : u.of = r => u.output \in T
  PROVE  SelectsOf(r, S, T)
<1> DEFINE g == [m \in S |-> IF m.of = r THEN <<m.output>> ELSE <<>>]
<1>1. g \in [S -> Seq(T)]
  <2>1. \A u \in S : (IF u.of = r THEN <<u.output>> ELSE <<>>) \in Seq(T)
    BY Plain
  <2> QED BY <2>1
<1>2. ASSUME NEW s \in Seq(S) PROVE OutputsTo(r, s) = Spread(g, s)
  <2>1. \A i \in DOMAIN s : s[i] \in S
    OBVIOUS
  <2>2. \A i \in DOMAIN s : g[s[i]] = IF s[i].of = r THEN <<s[i].output>> ELSE <<>>
    BY <2>1
  <2>3. [i \in DOMAIN s |-> IF s[i].of = r THEN <<s[i].output>> ELSE <<>>] = [i \in DOMAIN s |-> g[s[i]]]
    BY <2>2
  <2> HIDE DEF g
  <2> QED BY <2>3 DEF OutputsTo, Spread
<1>3. \A m \in S : g[m] = IF m.of = r THEN <<m.output>> ELSE <<>>
  OBVIOUS
<1> HIDE DEF g
<1>4. /\ <<>> \in Seq(S) /\ \A m \in S : <<m>> \in Seq(S)
      /\ \A s, t \in Seq(S) : s \o t \in Seq(S)
  BY Plain
<1>5. Spreads(g, S, T)
  BY <1>1, SpreadOf
<1>6. OutputsTo(r, <<>>) = <<>>
  BY <1>2, <1>4, <1>5 DEF Spreads
<1>7. ASSUME NEW m \in S PROVE OutputsTo(r, <<m>>) = IF m.of = r THEN <<m.output>> ELSE <<>>
  <2>1. OutputsTo(r, <<m>>) = Spread(g, <<m>>)
    BY <1>2, <1>4
  <2>2. Spread(g, <<m>>) = g[m]
    BY <1>5 DEF Spreads
  <2> QED BY <1>3, <2>1, <2>2
<1>8. ASSUME NEW s \in Seq(S) PROVE OutputsTo(r, s) \in Seq(T)
  BY <1>2, <1>5 DEF Spreads
<1>9. ASSUME NEW s \in Seq(S), NEW t \in Seq(S)
      PROVE  OutputsTo(r, s \o t) = OutputsTo(r, s) \o OutputsTo(r, t)
  <2>1. /\ OutputsTo(r, s \o t) = Spread(g, s \o t)
        /\ OutputsTo(r, s) = Spread(g, s) /\ OutputsTo(r, t) = Spread(g, t)
    BY <1>2, <1>4
  <2>2. Spread(g, s \o t) = Spread(g, s) \o Spread(g, t)
    BY <1>5 DEF Spreads
  <2> QED BY <2>1, <2>2
<1> QED BY <1>6, <1>7, <1>8, <1>9 DEF SelectsOf

\* A sequence and its first element, and one more behind it.
LEMMA Pops ==
  ASSUME NEW S, NEW s \in Seq(S), s # <<>>
  PROVE  /\ s = <<Head(s)>> \o Tail(s) /\ Head(s) \in S /\ Tail(s) \in Seq(S)
         /\ <<Head(s)>> \in Seq(S)
BY SMTT(20)

LEMMA Appends ==
  ASSUME NEW S, NEW s \in Seq(S), NEW e \in S
  PROVE  Append(s, e) = s \o <<e>> /\ Append(s, e) \in Seq(S) /\ <<e>> \in Seq(S)
BY AppendIsConcat, Plain

LEMMA Associates ==
  ASSUME NEW S, NEW s \in Seq(S), NEW t \in Seq(S), NEW u \in Seq(S)
  PROVE  (s \o t) \o u = s \o (t \o u)
BY SMTT(20)

LEMMA NatsAssociate ==
  ASSUME NEW s \in Seq(Nat), NEW t \in Seq(Nat), NEW u \in Seq(Nat)
  PROVE  (s \o t) \o u = s \o (t \o u)
BY SMTT(20)

LEMMA Nothing ==
  ASSUME NEW S, NEW s \in Seq(S)
  PROVE  s \o <<>> = s /\ <<>> \o s = s
BY SMTT(20)

(***************************************************************************)
(* Ends in sequences of outputs.                                           *)
(***************************************************************************)
LEMMA NoEnds == Endless(<<>>) /\ EndsLast(<<>>)
<1>1. DOMAIN <<>> = {}
  OBVIOUS
<1> QED BY <1>1 DEF Endless, EndsLast

LEMMA EndsAppend ==
  ASSUME NEW S, NEW s \in Seq(S), NEW e \in S
  PROVE  /\ Endless(s) => EndsLast(s \o <<e>>)
         /\ Endless(s \o <<e>>) <=> Endless(s) /\ e.reason = None
         /\ \A i \in DOMAIN (s \o <<e>>) :
              (i \in DOMAIN s /\ (s \o <<e>>)[i] = s[i]) \/ (s \o <<e>>)[i] = e
<1> DEFINE t == s \o <<e>>
<1>1. /\ DOMAIN s = 1 .. Len(s) /\ Len(s) \in Nat /\ DOMAIN t = 1 .. Len(s) + 1 /\ Len(t) = Len(s) + 1
      /\ \A i \in 1 .. Len(s) : t[i] = s[i]
      /\ t[Len(s) + 1] = e
  OBVIOUS
<1> HIDE DEF t
<1>2. \A i \in DOMAIN t : (i \in DOMAIN s /\ t[i] = s[i]) \/ (i = Len(t) /\ t[i] = e)
  BY <1>1
<1>3. Endless(s) => EndsLast(t)
  BY <1>2 DEF Endless, EndsLast
<1>4. \A i \in DOMAIN s : i \in DOMAIN t /\ t[i] = s[i]
  BY <1>1
<1>5. Len(t) \in DOMAIN t /\ t[Len(t)] = e
  BY <1>1
<1>6. Endless(t) <=> Endless(s) /\ e.reason = None
  BY <1>2, <1>4, <1>5 DEF Endless
<1> QED BY <1>2, <1>3, <1>6 DEF t

LEMMA EndsPop ==
  ASSUME NEW S, NEW s \in Seq(S), NEW e \in S
  PROVE  /\ EndsLast(<<e>> \o s) => EndsLast(s) /\ (e.reason # None => s = <<>>)
         /\ Endless(<<e>> \o s) => Endless(s) /\ e.reason = None
<1> DEFINE t == <<e>> \o s
<1>1. /\ DOMAIN s = 1 .. Len(s) /\ Len(s) \in Nat /\ DOMAIN t = 1 .. Len(s) + 1 /\ Len(t) = Len(s) + 1
      /\ \A i \in 1 .. Len(s) : t[i + 1] = s[i]
      /\ t[1] = e
  OBVIOUS
<1> HIDE DEF t
<1>2. 1 \in DOMAIN t /\ \A i \in DOMAIN s : i + 1 \in DOMAIN t /\ t[i + 1] = s[i]
  BY <1>1
<1>3. ASSUME EndsLast(t) PROVE EndsLast(s)
  <2>1. \A i \in DOMAIN s : i + 1 = Len(t) => i = Len(s)
    BY <1>1
  <2> QED BY <1>2, <1>3, <2>1 DEF EndsLast
<1>4. ASSUME EndsLast(t), e.reason # None PROVE s = <<>>
  <2>1. 1 = Len(t)
    BY <1>1, <1>2, <1>4 DEF EndsLast
  <2>2. Len(s) = 0
    BY <1>1, <2>1
  <2> QED BY <2>2
<1>5. Endless(t) => Endless(s) /\ e.reason = None
  BY <1>1, <1>2 DEF Endless
<1> QED BY <1>3, <1>4, <1>5 DEF t
-----------------------------------------------------------------------------
(***************************************************************************)
(* What frames have for a request on its way to the caller.                *)
(***************************************************************************)
Part(r, m) == IF r \in DOMAIN m.outputs THEN <<m.outputs[r]>> ELSE <<>>
PartAdd(r, m) == IF m.type = "ADD" /\ r \in m.ids THEN <<m>> ELSE <<>>

LEMMA PartType ==
  ASSUME NEW r, NEW m \in Items
  PROVE  /\ Part(r, m) \in Seq(EngineOutputs)
         /\ m.kind # "batch" => Part(r, m) = <<>>
<1>1. r \in DOMAIN m.outputs => m.kind = "batch" /\ m.outputs[r] \in EngineOutputs
  BY ItemKinds
<1>2. CASE r \in DOMAIN m.outputs
  BY <1>1, <1>2, Plain DEF Part
<1>3. CASE r \notin DOMAIN m.outputs
  BY <1>3, Plain DEF Part
<1> QED BY <1>2, <1>3

\* A frame more in the socket.
LEMMA ComingAppend ==
  ASSUME NEW r, NEW q \in Seq(Items), NEW s \in Seq(Items), NEW m \in Items
  PROVE  /\ Append(s, m) \in Seq(Items)
         /\ OutputsIn(r, q \o Append(s, m)) = OutputsIn(r, q \o s) \o Part(r, m)
         /\ OutputsIn(r, q \o s) \in Seq(EngineOutputs)
<1>1. Append(s, m) = s \o <<m>> /\ <<m>> \in Seq(Items) /\ Append(s, m) \in Seq(Items)
  BY Appends
<1>2. q \o (s \o <<m>>) = (q \o s) \o <<m>>
  BY <1>1, Associates
<1>3. q \o s \in Seq(Items)
  BY Plain
<1>4. OutputsIn(r, (q \o s) \o <<m>>) = OutputsIn(r, q \o s) \o OutputsIn(r, <<m>>)
  BY <1>1, <1>3, OutputsInIs
<1>5. OutputsIn(r, <<m>>) = Part(r, m)
  BY OutputsInIs DEF Part
<1>6. OutputsIn(r, q \o s) \in Seq(EngineOutputs)
  BY <1>3, OutputsInIs
<1> QED BY <1>1, <1>2, <1>4, <1>5, <1>6

LEMMA ComingQuiet ==
  ASSUME NEW r, NEW q \in Seq(Items), NEW s \in Seq(Items), NEW m \in Items, Part(r, m) = <<>>
  PROVE  OutputsIn(r, q \o Append(s, m)) = OutputsIn(r, q \o s)
<1>1. /\ OutputsIn(r, q \o Append(s, m)) = OutputsIn(r, q \o s) \o Part(r, m)
      /\ OutputsIn(r, q \o s) \in Seq(EngineOutputs)
  BY ComingAppend
<1>2. OutputsIn(r, q \o s) \o <<>> = OutputsIn(r, q \o s)
  BY <1>1, Nothing
<1> QED BY <1>1, <1>2

\* The reader takes a frame: it comes to the queue as it is, or has nothing for anybody.
LEMMA ComingMoves ==
  ASSUME NEW r, NEW q \in Seq(Items), NEW s \in Seq(Items), s # <<>>
  PROVE  /\ Tail(s) \in Seq(Items) /\ Head(s) \in Items /\ Append(q, Head(s)) \in Seq(Items)
         /\ OutputsIn(r, Append(q, Head(s)) \o Tail(s)) = OutputsIn(r, q \o s)
         /\ Head(s).kind # "batch" => OutputsIn(r, q \o Tail(s)) = OutputsIn(r, q \o s)
<1>1. s = <<Head(s)>> \o Tail(s) /\ Head(s) \in Items /\ Tail(s) \in Seq(Items) /\ <<Head(s)>> \in Seq(Items)
  BY Pops
<1>2. Append(q, Head(s)) = q \o <<Head(s)>> /\ Append(q, Head(s)) \in Seq(Items)
  BY <1>1, Appends
<1>3. (q \o <<Head(s)>>) \o Tail(s) = q \o (<<Head(s)>> \o Tail(s))
  BY <1>1, Associates
<1>4. OutputsIn(r, Append(q, Head(s)) \o Tail(s)) = OutputsIn(r, q \o s)
  <2>1. Append(q, Head(s)) \o Tail(s) = q \o s
    BY ONLY <1>1, <1>2, <1>3
  <2> QED BY <2>1
<1>5. ASSUME Head(s).kind # "batch" PROVE OutputsIn(r, q \o Tail(s)) = OutputsIn(r, q \o s)
  <2> DEFINE a == OutputsIn(r, q)
             b == OutputsIn(r, Tail(s))
  <2>1. OutputsIn(r, <<Head(s)>>) = <<>>
    <3>1. OutputsIn(r, <<Head(s)>>) = Part(r, Head(s))
      BY <1>1, OutputsInIs DEF Part
    <3> QED BY <1>1, <1>5, <3>1, PartType
  <2>2. /\ OutputsIn(r, q \o Tail(s)) = a \o b
        /\ OutputsIn(r, Append(q, Head(s)) \o Tail(s)) = OutputsIn(r, Append(q, Head(s))) \o b
    BY <1>1, <1>2, OutputsInIs
  <2>3. OutputsIn(r, q \o <<Head(s)>>) = a \o OutputsIn(r, <<Head(s)>>)
    BY <1>1, OutputsInIs
  <2>4. a \in Seq(EngineOutputs)
    BY OutputsInIs
  <2>5. a \o <<>> = a
    BY <2>4, Nothing
  <2> HIDE DEF a, b
  <2> QED BY <1>2, <1>4, <2>1, <2>2, <2>3, <2>5
<1> QED BY <1>1, <1>2, <1>4, <1>5

\* get_output takes the first of the queue.
Popped(r, q, s) ==
  /\ OutputsIn(r, q \o s) = Part(r, Head(q)) \o OutputsIn(r, Tail(q) \o s)
  /\ OutputsIn(r, Tail(q) \o s) \in Seq(EngineOutputs)

LEMMA ComingPops ==
  ASSUME NEW r, NEW q \in Seq(Items), NEW s \in Seq(Items), q # <<>>
  PROVE  Popped(r, q, s)
<1>1. q = <<Head(q)>> \o Tail(q) /\ Head(q) \in Items /\ Tail(q) \in Seq(Items) /\ <<Head(q)>> \in Seq(Items)
  BY Pops
<1>2. (<<Head(q)>> \o Tail(q)) \o s = <<Head(q)>> \o (Tail(q) \o s)
  BY <1>1, Associates
<1>3. Tail(q) \o s \in Seq(Items)
  BY <1>1, Plain
<1>4. OutputsIn(r, <<Head(q)>> \o (Tail(q) \o s)) = OutputsIn(r, <<Head(q)>>) \o OutputsIn(r, Tail(q) \o s)
  BY <1>1, <1>3, OutputsInIs
<1>5. OutputsIn(r, <<Head(q)>>) = Part(r, Head(q))
  BY <1>1, OutputsInIs DEF Part
<1>6. OutputsIn(r, Tail(q) \o s) \in Seq(EngineOutputs)
  BY <1>3, OutputsInIs
<1> QED BY <1>1, <1>2, <1>4, <1>5, <1>6 DEF Popped

\* ADDs on their way to the engine.
LEMMA AddsAppend ==
  ASSUME NEW r, NEW q \in Seq(Messages), NEW m \in Messages
  PROVE  /\ Append(q, m) \in Seq(Messages)
         /\ AddsIn(r, Append(q, m)) = AddsIn(r, q) \o PartAdd(r, m)
         /\ AddsIn(r, q) \in Seq(Messages)
         /\ PartAdd(r, m) = <<>> => AddsIn(r, Append(q, m)) = AddsIn(r, q)
<1>1. Append(q, m) = q \o <<m>> /\ <<m>> \in Seq(Messages) /\ Append(q, m) \in Seq(Messages)
  BY Appends
<1>2. AddsIn(r, q \o <<m>>) = AddsIn(r, q) \o AddsIn(r, <<m>>)
  BY <1>1, AddsInIs
<1>3. AddsIn(r, <<m>>) = PartAdd(r, m)
  BY AddsInIs DEF PartAdd
<1>4. AddsIn(r, q) \in Seq(Messages)
  BY AddsInIs
<1>5. AddsIn(r, q) \o <<>> = AddsIn(r, q)
  BY <1>4, Nothing
<1> QED BY <1>1, <1>2, <1>3, <1>4, <1>5

LEMMA AddsPop ==
  ASSUME NEW r, NEW q \in Seq(Messages), q # <<>>, AddsIn(r, q) # <<>> => Len(AddsIn(r, q)) = 1
  PROVE  /\ Tail(q) \in Seq(Messages) /\ Head(q) \in Messages
         /\ IF Head(q).type = "ADD" /\ r \in Head(q).ids
            THEN AddsIn(r, q) # <<>> /\ AddsIn(r, Tail(q)) = <<>>
            ELSE AddsIn(r, Tail(q)) = AddsIn(r, q)
<1>1. /\ q = <<Head(q)>> \o Tail(q) /\ Head(q) \in Messages /\ Tail(q) \in Seq(Messages)
      /\ <<Head(q)>> \in Seq(Messages)
  BY Pops
<1> DEFINE a == AddsIn(r, Tail(q))
<1>2. AddsIn(r, <<Head(q)>> \o Tail(q)) = AddsIn(r, <<Head(q)>>) \o a
  BY <1>1, AddsInIs
<1>3. AddsIn(r, <<Head(q)>>) = PartAdd(r, Head(q))
  BY <1>1, AddsInIs DEF PartAdd
<1>4. a \in Seq(Messages)
  BY <1>1, AddsInIs
<1> HIDE DEF a
<1>5. AddsIn(r, q) = PartAdd(r, Head(q)) \o a
  BY <1>1, <1>2, <1>3
<1>6. CASE Head(q).type = "ADD" /\ r \in Head(q).ids
  <2>1. PartAdd(r, Head(q)) = <<Head(q)>>
    BY <1>6 DEF PartAdd
  <2>2. Len(<<Head(q)>> \o a) = 1 + Len(a) /\ Len(a) \in Nat /\ <<Head(q)>> \o a # <<>>
    BY <1>1, <1>4
  <2>3. Len(a) = 0
    BY <1>5, <2>1, <2>2
  <2>4. a = <<>>
    BY <1>4, <2>3
  <2> QED BY <1>1, <1>5, <1>6, <2>1, <2>2, <2>4 DEF a
<1>7. CASE ~(Head(q).type = "ADD" /\ r \in Head(q).ids)
  <2>1. PartAdd(r, Head(q)) = <<>>
    BY <1>7 DEF PartAdd
  <2>2. <<>> \o a = a
    BY <1>4, Nothing
  <2> QED BY <1>1, <1>5, <1>7, <2>1, <2>2 DEF a
<1> QED BY <1>6, <1>7
-----------------------------------------------------------------------------
(***************************************************************************)
(* What the engine and the reader do to a request: nothing, or it is       *)
(* answered once more.                                                     *)
(***************************************************************************)
Singly(r) == AddsIn(r, to_engine) # <<>> => Len(AddsIn(r, to_engine)) = 1 /\ r \notin running

Same(r) == Coming(r)' = Coming(r) /\ produced'[r] = produced[r]

Answers(r, o) ==
  /\ r \in running /\ Coming(r)' = Coming(r) \o <<o>>
  /\ o.reason # None => ~Going(r)'
  /\ \/ o.tokens = <<>> /\ produced'[r] = produced[r]
     \/ o.tokens = <<produced[r] + 1>> /\ produced'[r] = produced[r] + 1

Serves(r) ==
  /\ Singly(r)' /\ (Going(r)' => Going(r))
  /\ Same(r) \/ \E o \in EngineOutputs : Answers(r, o)

EngineMoves ==
  \/ EngineReceives \/ EngineStops \/ EngineExits
  \/ \E S \in SUBSET Requests : EngineSteps(S)

LEMMA BatchIs ==
  ASSUME NEW S \in SUBSET Requests, NEW f \in [S -> EngineOutputs]
  PROVE  /\ Batch(f) \in Items
         /\ \A r : Part(r, Batch(f)) = IF r \in S THEN <<f[r]>> ELSE <<>>
<1>1. Batch(f) \in Batches
  BY DEF Batch, Frame, Batches
<1>2. Batch(f).outputs = f /\ DOMAIN f = S
  BY DEF Batch, Frame
<1> QED BY <1>1, <1>2 DEF Items, Part

LEMMA OtherFrames ==
  /\ Dead \in Items /\ UtilityOutput \in Items
  /\ \A r : Part(r, Dead) = <<>> /\ Part(r, UtilityOutput) = <<>>
<1>1. Dead \in Items /\ UtilityOutput \in Items
  BY DEF Dead, UtilityOutput, Frame, Items
<1>2. DOMAIN <<>> = {}
  OBVIOUS
<1>3. Dead.outputs = <<>> /\ UtilityOutput.outputs = <<>>
  BY DEF Dead, UtilityOutput, Frame
<1> QED BY <1>1, <1>2, <1>3 DEF Part

\* Every one of S is answered that it was aborted.
LEMMA AbortedIs ==
  ASSUME TravelTypes, NEW S, S \subseteq running
  PROVE  /\ AllAborted(S) \in Seq(Items)
         /\ \A r : OutputsIn(r, outputs_queue \o AllAborted(S)) =
                     IF r \in S THEN Coming(r) \o <<Output(<<>>, "abort")>> ELSE Coming(r)
         /\ Output(<<>>, "abort") \in EngineOutputs
<1>0. outputs_queue \in Seq(Items) /\ socket \in Seq(Items) /\ S \subseteq Requests
  BY DEF TravelTypes
<1>1. Output(<<>>, "abort") \in EngineOutputs
  BY DEF Output, EngineOutputs
<1>2. CASE S = {}
  BY <1>0, <1>1, <1>2 DEF AllAborted, Coming
<1>3. CASE S # {}
  <2> DEFINE f == [r \in S |-> Output(<<>>, "abort")]
  <2>1. f \in [S -> EngineOutputs] /\ \A r \in S : f[r] = Output(<<>>, "abort")
    BY <1>1
  <2>2. AllAborted(S) = Append(socket, Batch(f))
    BY <1>3 DEF AllAborted
  <2> HIDE DEF f
  <2>3. Batch(f) \in Items /\ \A r : Part(r, Batch(f)) = IF r \in S THEN <<f[r]>> ELSE <<>>
    BY <1>0, <2>1, BatchIs
  <2>4. ASSUME NEW r
        PROVE  OutputsIn(r, outputs_queue \o AllAborted(S)) =
                 IF r \in S THEN Coming(r) \o <<Output(<<>>, "abort")>> ELSE Coming(r)
    <3>1. /\ OutputsIn(r, outputs_queue \o Append(socket, Batch(f))) = Coming(r) \o Part(r, Batch(f))
          /\ Coming(r) \in Seq(EngineOutputs)
      <4>1. outputs_queue \in Seq(Items) /\ socket \in Seq(Items) /\ Batch(f) \in Items
        BY <1>0, <2>3
      <4>2. /\ OutputsIn(r, outputs_queue \o Append(socket, Batch(f)))
                 = OutputsIn(r, outputs_queue \o socket) \o Part(r, Batch(f))
            /\ OutputsIn(r, outputs_queue \o socket) \in Seq(EngineOutputs)
        BY ONLY <4>1, ComingAppend
      <4> QED BY <4>2 DEF Coming
    <3>2. Coming(r) \o <<>> = Coming(r)
      BY <3>1, Nothing
    <3> QED BY <2>1, <2>2, <2>3, <3>1, <3>2
  <2>5. Append(socket, Batch(f)) \in Seq(Items)
    BY <1>0, <2>3, Appends
  <2> QED BY <1>1, <2>2, <2>4, <2>5
<1> QED BY <1>2, <1>3

LEMMA ReceivesServes ==
  ASSUME TravelTypes, \A r \in Requests : Singly(r), EngineReceives
  PROVE  TravelTypes' /\ \A r \in Requests : Serves(r)
<1> DEFINE msg == Head(to_engine)
           gone == msg.ids \cap running
<1>1. /\ to_engine # <<>> /\ to_engine' = Tail(to_engine) /\ produced' = produced
      /\ outputs_queue' = outputs_queue
      /\ msg.type = "ADD" => running' = running \cup msg.ids /\ socket' = socket
      /\ msg.type = "ABORT" => running' = running \ gone /\ socket' = AllAborted(gone)
      /\ msg.type = "UTILITY" => socket' = Append(socket, UtilityOutput) /\ running' = running
  BY DEF EngineReceives, EngineFrame, clientVars
<1>2. /\ to_engine \in Seq(Messages) /\ running \subseteq Requests /\ produced \in [Requests -> Nat]
      /\ outputs_queue \in Seq(Items) /\ socket \in Seq(Items)
  BY DEF TravelTypes
<1>3. Tail(to_engine) \in Seq(Messages) /\ msg \in Messages
  BY <1>1, <1>2, Pops
<1>4. msg.type \in {"ADD", "ABORT", "UTILITY"} /\ msg.ids \subseteq Requests
  BY <1>3 DEF Messages
<1>5. ASSUME NEW r \in Requests
      PROVE  IF msg.type = "ADD" /\ r \in msg.ids
             THEN AddsIn(r, to_engine) # <<>> /\ AddsIn(r, to_engine') = <<>>
             ELSE AddsIn(r, to_engine') = AddsIn(r, to_engine)
  BY <1>1, <1>2, AddsPop DEF Singly
<1> HIDE DEF msg
<1>6. CASE msg.type = "ADD"
  <2>1. TravelTypes'
    BY <1>1, <1>2, <1>3, <1>4, <1>6 DEF TravelTypes
  <2>2. ASSUME NEW r \in Requests PROVE Serves(r)
    <3>1. Same(r)
      BY <1>1, <1>6 DEF Same, Coming
    <3>2. r \in running' => r \in running \/ r \in msg.ids
      BY <1>1, <1>6
    <3>3. Singly(r)'
      BY <1>5, <1>6, <3>2 DEF Singly
    <3>4. Going(r)' => Going(r)
      BY <1>5, <1>6, <3>2 DEF Going
    <3> QED BY <3>1, <3>3, <3>4 DEF Serves
  <2> QED BY <2>1, <2>2
<1>7. CASE msg.type = "ABORT"
  <2>1. gone \subseteq running /\ running' = running \ gone /\ socket' = AllAborted(gone)
    BY <1>1, <1>7
  <2> HIDE DEF gone
  <2>2. /\ AllAborted(gone) \in Seq(Items)
        /\ \A r : OutputsIn(r, outputs_queue \o AllAborted(gone)) =
                    IF r \in gone THEN Coming(r) \o <<Output(<<>>, "abort")>> ELSE Coming(r)
        /\ Output(<<>>, "abort") \in EngineOutputs
    BY <2>1, AbortedIs
  <2>3. TravelTypes'
    BY <1>1, <1>2, <1>3, <2>1, <2>2 DEF TravelTypes
  <2>4. ASSUME NEW r \in Requests PROVE Serves(r)
    <3>1. AddsIn(r, to_engine') = AddsIn(r, to_engine)
      BY <1>5, <1>7
    <3>2. Singly(r)' /\ (Going(r)' => Going(r))
      BY <2>1, <3>1 DEF Singly, Going
    <3>3. Coming(r)' = IF r \in gone THEN Coming(r) \o <<Output(<<>>, "abort")>> ELSE Coming(r)
      BY <1>1, <2>1, <2>2 DEF Coming
    <3>4. CASE r \notin gone
      BY <1>1, <3>2, <3>3, <3>4 DEF Serves, Same
    <3>5. CASE r \in gone
      <4>1. r \in running /\ ~Going(r)'
        BY <2>1, <3>1, <3>5 DEF Going, Singly
      <4>2. Answers(r, Output(<<>>, "abort"))
        BY <1>1, <3>3, <3>5, <4>1 DEF Answers, Output
      <4> QED BY <2>2, <3>2, <4>2 DEF Serves
    <3> QED BY <3>4, <3>5
  <2> QED BY <2>3, <2>4
<1>8. CASE msg.type = "UTILITY"
  <2>1. socket' = Append(socket, UtilityOutput) /\ running' = running
    BY <1>1, <1>8
  <2>2. Append(socket, UtilityOutput) \in Seq(Items)
    BY <1>2, OtherFrames, Appends
  <2>3. TravelTypes'
    BY <1>1, <1>2, <1>3, <2>1, <2>2 DEF TravelTypes
  <2>4. ASSUME NEW r \in Requests PROVE Serves(r)
    <3>1. AddsIn(r, to_engine') = AddsIn(r, to_engine)
      BY <1>5, <1>8
    <3>2. UtilityOutput \in Items /\ Part(r, UtilityOutput) = <<>>
      BY OtherFrames
    <3>3. OutputsIn(r, outputs_queue \o Append(socket, UtilityOutput)) = OutputsIn(r, outputs_queue \o socket)
      BY <1>2, <3>2, ComingQuiet
    <3>4. Same(r)
      BY <1>1, <2>1, <3>3 DEF Same, Coming
    <3>5. Singly(r)' /\ (Going(r)' => Going(r))
      BY <2>1, <3>1 DEF Singly, Going
    <3> QED BY <3>4, <3>5 DEF Serves
  <2> QED BY <2>3, <2>4
<1> QED BY <1>4, <1>6, <1>7, <1>8

LEMMA StepsServes ==
  ASSUME TravelTypes, \A r \in Requests : Singly(r), NEW S \in SUBSET Requests, EngineSteps(S)
  PROVE  TravelTypes' /\ \A r \in Requests : Serves(r)
<1>1. PICK last \in SUBSET S :
        /\ produced' = [r \in Requests |-> produced[r] + (IF r \in S THEN 1 ELSE 0)]
        /\ running' = running \ last
        /\ socket' = Append(socket, Batch([r \in S |->
             Output(<<produced[r] + 1>>, IF r \in last THEN "length" ELSE None)]))
  BY DEF EngineSteps
<1> DEFINE f == [r \in S |-> Output(<<produced[r] + 1>>, IF r \in last THEN "length" ELSE None)]
<1>2. S \subseteq running /\ outputs_queue' = outputs_queue /\ to_engine' = to_engine
  BY DEF EngineSteps, EngineFrame, clientVars
<1>3. /\ to_engine \in Seq(Messages) /\ running \subseteq Requests /\ produced \in [Requests -> Nat]
      /\ outputs_queue \in Seq(Items) /\ socket \in Seq(Items)
  BY DEF TravelTypes
<1>4. ASSUME NEW r \in S
      PROVE  /\ f[r] \in EngineOutputs /\ f[r].tokens = <<produced[r] + 1>>
             /\ f[r].reason = IF r \in last THEN "length" ELSE None
  <2>1. produced[r] + 1 \in Nat
    BY <1>3
  <2>2. <<produced[r] + 1>> \in Seq(Nat)
    BY <2>1, Plain
  <2> QED BY <2>2 DEF Output, EngineOutputs
<1>5. f \in [S -> EngineOutputs]
  BY <1>4
<1>6. socket' = Append(socket, Batch(f))
  BY <1>1
<1> HIDE DEF f
<1>7. Batch(f) \in Items /\ \A r : Part(r, Batch(f)) = IF r \in S THEN <<f[r]>> ELSE <<>>
  BY <1>5, BatchIs
<1>8. Append(socket, Batch(f)) \in Seq(Items)
  BY <1>3, <1>7, Appends
<1>9. \A r \in Requests : produced'[r] = produced[r] + (IF r \in S THEN 1 ELSE 0) /\ produced[r] \in Nat
  BY <1>1, <1>3
<1>10. produced' \in [Requests -> Nat]
  BY <1>1, <1>3
<1>11. TravelTypes'
  BY <1>1, <1>2, <1>3, <1>6, <1>8, <1>10 DEF TravelTypes
<1>12. ASSUME NEW r \in Requests PROVE Serves(r)
  <2>1. Singly(r)' /\ (Going(r)' => Going(r))
    BY <1>1, <1>2 DEF Singly, Going
  <2>2. Coming(r)' = Coming(r) \o Part(r, Batch(f)) /\ Coming(r) \in Seq(EngineOutputs)
    <3>1. /\ OutputsIn(r, outputs_queue \o Append(socket, Batch(f))) = OutputsIn(r, outputs_queue \o socket) \o Part(r, Batch(f))
          /\ OutputsIn(r, outputs_queue \o socket) \in Seq(EngineOutputs)
      <4>1. Batch(f) \in Items
        BY <1>7
      <4>2. outputs_queue \in Seq(Items) /\ socket \in Seq(Items)
        BY <1>3
      <4> QED BY ONLY <4>1, <4>2, ComingAppend
    <3> QED BY <1>2, <1>6, <3>1 DEF Coming
  <2>3. CASE r \notin S
    <3>1. Coming(r) \o <<>> = Coming(r)
      BY <2>2, Nothing
    <3>2. produced'[r] = produced[r]
      BY <1>9, <2>3
    <3> QED BY <1>7, <2>1, <2>2, <2>3, <3>1, <3>2 DEF Serves, Same
  <2>4. CASE r \in S
    <3>1. f[r].reason # None => r \in last
      BY <1>4, <2>4
    <3>2. r \in last => ~Going(r)'
      BY <1>1, <1>2, <2>4 DEF Going, Singly
    <3>3. produced'[r] = produced[r] + 1
      BY <1>9, <2>4
    <3>4. Answers(r, f[r])
      BY <1>2, <1>4, <1>7, <2>2, <2>4, <3>1, <3>2, <3>3 DEF Answers
    <3> QED BY <1>4, <2>1, <2>4, <3>4 DEF Serves
  <2> QED BY <2>3, <2>4
<1> QED BY <1>11, <1>12

\* The engine goes, with what was sent to it.
LEMMA StopsServes ==
  ASSUME TravelTypes, \A r \in Requests : Singly(r), EngineStops \/ EngineExits
  PROVE  TravelTypes' /\ \A r \in Requests : Serves(r)
<1>1. /\ to_engine \in Seq(Messages) /\ running \subseteq Requests /\ produced \in [Requests -> Nat]
      /\ outputs_queue \in Seq(Items) /\ socket \in Seq(Items)
  BY DEF TravelTypes
<1>2. /\ outputs_queue' = outputs_queue /\ produced' = produced
      /\ running' = {} \/ running' = running
      /\ to_engine' = to_engine \/ to_engine' = <<>>
      /\ \/ socket' = socket
         \/ socket' = Append(socket, Dead)
         \/ running' = {} /\ to_engine' = to_engine /\ socket' = AllAborted(running)
  BY DEF EngineStops, EngineExits, EngineFrame, clientVars
<1>3. ASSUME NEW r \in Requests PROVE Singly(r)' /\ (Going(r)' => Going(r))
  <2>1. AddsIn(r, <<>>) = <<>>
    BY AddsInIs
  <2> QED BY <1>2, <2>1 DEF Singly, Going
<1>4. to_engine' \in Seq(Messages) /\ running' \subseteq Requests
  <2>1. <<>> \in Seq(Messages)
    BY Plain
  <2> QED BY <1>1, <1>2, <2>1
<1>5. CASE socket' = socket
  <2>1. TravelTypes'
    BY <1>1, <1>2, <1>4, <1>5 DEF TravelTypes
  <2>2. \A r \in Requests : Same(r)
    BY <1>2, <1>5 DEF Same, Coming
  <2> QED BY <1>3, <2>1, <2>2 DEF Serves
<1>6. CASE socket' = Append(socket, Dead)
  <2>1. Append(socket, Dead) \in Seq(Items)
    BY <1>1, OtherFrames, Appends
  <2>2. TravelTypes'
    BY <1>1, <1>2, <1>4, <1>6, <2>1 DEF TravelTypes
  <2>3. ASSUME NEW r \in Requests PROVE Same(r)
    <3>1. Dead \in Items /\ Part(r, Dead) = <<>>
      BY OtherFrames
    <3>2. OutputsIn(r, outputs_queue \o Append(socket, Dead)) = OutputsIn(r, outputs_queue \o socket)
      BY <1>1, <3>1, ComingQuiet
    <3> QED BY <1>2, <1>6, <3>2 DEF Same, Coming
  <2> QED BY <1>3, <2>2, <2>3 DEF Serves
<1>7. CASE running' = {} /\ to_engine' = to_engine /\ socket' = AllAborted(running)
  <2>1. /\ AllAborted(running) \in Seq(Items)
        /\ \A r : OutputsIn(r, outputs_queue \o AllAborted(running)) =
                    IF r \in running THEN Coming(r) \o <<Output(<<>>, "abort")>> ELSE Coming(r)
        /\ Output(<<>>, "abort") \in EngineOutputs
    BY AbortedIs
  <2>2. TravelTypes'
    BY <1>1, <1>2, <1>4, <1>7, <2>1 DEF TravelTypes
  <2>3. ASSUME NEW r \in Requests PROVE Serves(r)
    <3>1. Coming(r)' = IF r \in running THEN Coming(r) \o <<Output(<<>>, "abort")>> ELSE Coming(r)
      BY <1>2, <1>7, <2>1 DEF Coming
    <3>2. CASE r \notin running
      BY <1>2, <1>3, <3>1, <3>2 DEF Serves, Same
    <3>3. CASE r \in running
      <4>1. ~Going(r)'
        BY <1>7, <3>3 DEF Going, Singly
      <4>2. Answers(r, Output(<<>>, "abort"))
        BY <1>2, <3>1, <3>3, <4>1 DEF Answers, Output
      <4> QED BY <1>3, <2>1, <4>2 DEF Serves
    <3> QED BY <3>2, <3>3
  <2> QED BY <2>2, <2>3
<1> QED BY <1>2, <1>5, <1>6, <1>7

\* The reader brings what there is, or the word that the engine has gone.
LEMMA ReaderServes ==
  ASSUME TravelTypes, \A r \in Requests : Singly(r), ReaderReads \/ ReaderFails \/ ReaderWoken
  PROVE  TravelTypes' /\ \A r \in Requests : Serves(r)
<1>1. /\ to_engine \in Seq(Messages) /\ running \subseteq Requests /\ produced \in [Requests -> Nat]
      /\ outputs_queue \in Seq(Items) /\ socket \in Seq(Items)
  BY DEF TravelTypes
<1>2. to_engine' = to_engine /\ running' = running /\ produced' = produced
  BY DEF ReaderReads, ReaderFails, ReaderWoken, ReaderFrame
<1>3. \A r \in Requests : Singly(r)' /\ (Going(r)' => Going(r))
  BY <1>2 DEF Singly, Going
<1>4. SUFFICES /\ outputs_queue' \in Seq(Items) /\ socket' \in Seq(Items)
               /\ \A r \in Requests : Coming(r)' = Coming(r)
  BY <1>1, <1>2, <1>3 DEF TravelTypes, Serves, Same
<1>5. CASE ReaderReads
  <2>1. /\ socket # <<>> /\ socket' = Tail(socket)
        /\ IF Head(socket).kind = "utility" THEN outputs_queue' = outputs_queue
           ELSE outputs_queue' = Append(outputs_queue, Head(socket))
    BY <1>5 DEF ReaderReads
  <2>2. ASSUME NEW r
        PROVE  /\ Tail(socket) \in Seq(Items) /\ Append(outputs_queue, Head(socket)) \in Seq(Items)
               /\ OutputsIn(r, Append(outputs_queue, Head(socket)) \o Tail(socket)) = Coming(r)
               /\ Head(socket).kind # "batch" => OutputsIn(r, outputs_queue \o Tail(socket)) = Coming(r)
    BY <1>1, <2>1, ComingMoves DEF Coming
  <2> QED BY <1>1, <2>1, <2>2 DEF Coming
<1>6. CASE ReaderFails
  <2>1. socket' = socket /\ outputs_queue' = Append(outputs_queue, Dead)
    BY <1>6 DEF ReaderFails
  <2>2. Dead \in Items /\ <<Dead>> \in Seq(Items) /\ Append(outputs_queue, Dead) = outputs_queue \o <<Dead>>
        /\ Append(outputs_queue, Dead) \in Seq(Items)
    BY <1>1, OtherFrames, Appends
  <2>3. ASSUME NEW r PROVE OutputsIn(r, Append(outputs_queue, Dead) \o socket) = Coming(r)
    <3> DEFINE a == OutputsIn(r, outputs_queue)
    <3>1. OutputsIn(r, Append(outputs_queue, Dead) \o socket) = OutputsIn(r, Append(outputs_queue, Dead)) \o OutputsIn(r, socket)
      BY <1>1, <2>2, OutputsInIs
    <3>2. OutputsIn(r, outputs_queue \o <<Dead>>) = a \o OutputsIn(r, <<Dead>>)
      BY <1>1, <2>2, OutputsInIs
    <3>3. OutputsIn(r, <<Dead>>) = Part(r, Dead)
      BY <2>2, OutputsInIs DEF Part
    <3>4. Part(r, Dead) = <<>>
      BY OtherFrames
    <3>5. a \in Seq(EngineOutputs)
      BY <1>1, OutputsInIs
    <3>6. a \o <<>> = a
      BY <3>5, Nothing
    <3>7. OutputsIn(r, outputs_queue \o socket) = a \o OutputsIn(r, socket)
      BY <1>1, OutputsInIs
    <3> HIDE DEF a
    <3> QED BY <2>2, <3>1, <3>2, <3>3, <3>4, <3>6, <3>7 DEF Coming
  <2> QED BY <1>1, <2>1, <2>2, <2>3 DEF Coming
<1>7. CASE ReaderWoken
  BY <1>1, <1>7 DEF ReaderWoken, Coming
<1> QED BY <1>5, <1>6, <1>7
-----------------------------------------------------------------------------
(***************************************************************************)
(* A step that serves requests and leaves the call alone.                  *)
(***************************************************************************)
LEMMA ServesTravels ==
  ASSUME NEW r, Travels(r), Serves(r), ToCome(r)' => ToCome(r), Coming(r) \in Seq(EngineOutputs)
  PROVE  Travels(r)'
<1>1. /\ Singly(r)' /\ (Going(r)' => Going(r))
      /\ Same(r) \/ \E o \in EngineOutputs : Answers(r, o)
  BY DEF Serves
<1>2. /\ EndsLast(Coming(r)) /\ (Going(r) => Endless(Coming(r)))
      /\ ToCome(r) => produced[r] = 0 /\ ~Going(r) /\ Coming(r) = <<>>
  BY DEF Travels
<1>3. CASE Same(r)
  <2>1. EndsLast(Coming(r)') /\ (Going(r)' => Endless(Coming(r)'))
    BY <1>1, <1>2, <1>3 DEF Same
  <2> QED BY <1>1, <1>2, <1>3, <2>1 DEF Travels, Singly, Same, EndsLast, Endless
<1>4. ASSUME NEW o \in EngineOutputs, Answers(r, o) PROVE Travels(r)'
  <2>1. /\ Coming(r)' = Coming(r) \o <<o>> /\ (o.reason # None => ~Going(r)')
        /\ r \in running
    BY <1>4 DEF Answers
  <2>2. Going(r) /\ Endless(Coming(r)) /\ ~ToCome(r)'
    BY <1>2, <2>1 DEF Going
  <2>3. /\ EndsLast(Coming(r) \o <<o>>)
        /\ o.reason = None => Endless(Coming(r) \o <<o>>)
    BY <2>2, EndsAppend
  <2>4. EndsLast(Coming(r)') /\ (Going(r)' => Endless(Coming(r)'))
    BY <2>1, <2>3
  <2> QED BY <1>1, <2>2, <2>4 DEF Travels, Singly, EndsLast, Endless
<1> QED BY <1>1, <1>3, <1>4

LEMMA ComingType ==
  ASSUME TravelTypes, NEW r
  PROVE  Coming(r) \in Seq(EngineOutputs)
<1>1. outputs_queue \o socket \in Seq(Items)
  BY Plain DEF TravelTypes
<1> QED BY <1>1, OutputsInIs DEF Coming

LEMMA EngineTokens ==
  /\ TokensIn(<<>>) = <<>>
  /\ \A o \in EngineOutputs : TokensIn(<<o>>) = o.tokens /\ o.tokens \in Seq(Nat)
  /\ \A s \in Seq(EngineOutputs) : TokensIn(s) \in Seq(Nat)
  /\ \A s, t \in Seq(EngineOutputs) : TokensIn(s \o t) = TokensIn(s) \o TokensIn(t)
<1>1. \A o \in EngineOutputs : o.tokens \in Seq(Nat)
  BY DEF EngineOutputs
<1> QED BY <1>1, TokensInIs

LEMMA ServesHolds ==
  ASSUME CallTypes, TravelTypes, NEW r \in Registered, Holds(r), Serves(r),
         requests' = requests, given' = given
  PROVE  Holds(r)'
<1>0. requests[r] \in RequestStates /\ r \in Requests
  BY DEF CallTypes
<1> DEFINE ids == requests[r].token_ids
           c == Coming(r)
<1>1. ids \in Seq(Nat) /\ c \in Seq(EngineOutputs) /\ produced[r] \in Nat
  BY <1>0, ComingType DEF RequestStates, TravelTypes
<1>2. requests'[r].token_ids = ids /\ ids \o TokensIn(c) = Numbers(produced[r])
  BY DEF Holds
<1>3. CASE Same(r)
  BY <1>3 DEF Holds, Same, output_kind
<1>4. ASSUME NEW o \in EngineOutputs, Answers(r, o) PROVE Holds(r)'
  <2>1. /\ Coming(r)' = c \o <<o>>
        /\ \/ o.tokens = <<>> /\ produced'[r] = produced[r]
           \/ o.tokens = <<produced[r] + 1>> /\ produced'[r] = produced[r] + 1
    BY <1>4 DEF Answers
  <2> HIDE DEF c, ids
  <2>2. TokensIn(c \o <<o>>) = TokensIn(c) \o o.tokens /\ TokensIn(c) \in Seq(Nat) /\ o.tokens \in Seq(Nat)
    <3>1. <<o>> \in Seq(EngineOutputs)
      BY Plain
    <3>2. /\ TokensIn(c \o <<o>>) = TokensIn(c) \o TokensIn(<<o>>) /\ TokensIn(c) \in Seq(Nat)
          /\ TokensIn(<<o>>) = o.tokens /\ o.tokens \in Seq(Nat)
      BY <1>1, <3>1, EngineTokens
    <3> QED BY <3>2
  <2>3. ids \o (TokensIn(c) \o o.tokens) = (ids \o TokensIn(c)) \o o.tokens
    <3> DEFINE t == TokensIn(c)
               u == o.tokens
    <3>1. ids \in Seq(Nat) /\ t \in Seq(Nat) /\ u \in Seq(Nat)
      BY <1>1, <2>2
    <3> HIDE DEF t, u
    <3>2. ids \o (t \o u) = (ids \o t) \o u
      BY ONLY <3>1, NatsAssociate
    <3> QED BY <3>2 DEF t, u
  <2>4. ids \o TokensIn(c \o <<o>>) = Numbers(produced[r]) \o o.tokens
    BY <1>2, <2>2, <2>3
  <2>5. Numbers(produced[r]) \o o.tokens = Numbers(produced'[r])
    <3>1. CASE o.tokens = <<>>
      <4>1. Numbers(produced[r]) \in Seq(Nat)
        BY <1>1, NumbersSeq
      <4>2. Numbers(produced[r]) \o <<>> = Numbers(produced[r])
        BY <4>1, Nothing
      <4>3. produced'[r] = produced[r]
        <5>1. <<produced[r] + 1>> # <<>>
          OBVIOUS
        <5> QED BY <2>1, <3>1, <5>1
      <4> QED BY <3>1, <4>2, <4>3
    <3>2. CASE o.tokens = <<produced[r] + 1>> /\ produced'[r] = produced[r] + 1
      BY <1>1, <3>2, NextNumber
    <3> QED BY <2>1, <3>1, <3>2
  <2>6. requests'[r].token_ids \o TokensIn(Coming(r)') = Numbers(produced'[r])
    BY <1>2, <2>1, <2>4, <2>5
  <2> QED BY <2>6 DEF Holds, output_kind
<1>5. Same(r) \/ \E o \in EngineOutputs : Answers(r, o)
  BY DEF Serves
<1> QED BY <1>3, <1>4, <1>5

LEMMA ServesAccounts ==
  ASSUME NEW r, Accounts(r), Serves(r), Got(r)' = Got(r), thread' = thread,
         requests' = requests, given' = given, aborted' = aborted
  PROVE  Accounts(r)'
<1>1. ~Going(r) => ~Going(r)' /\ produced'[r] = produced[r]
  BY DEF Serves, Same, Answers, Going
<1> QED BY <1>1 DEF Accounts, Registered, output_kind, Endless, EndsLast

LEMMA Calls ==
  ASSUME CallTypes
  PROVE  /\ given \in Givens /\ given.calls \in Seq([kind : Kinds, prompts : Seq(Requests)])
         /\ DOMAIN given.calls = 1 .. Len(given.calls) /\ Len(given.calls) \in Nat /\ call \in Nat
         /\ \A i \in DOMAIN given.calls : given.calls[i].prompts \in Seq(Requests)
         /\ call > 0 => /\ call \in DOMAIN given.calls
                        /\ Prompts \in Seq(Requests) /\ DOMAIN Prompts = 1 .. Len(Prompts)
                        /\ Len(Prompts) \in Nat /\ Own = {Prompts[i] : i \in 1 .. Len(Prompts)}
         /\ Own \subseteq Requests
<1>1. given \in Givens /\ call \in 0 .. Len(given.calls)
  BY DEF CallTypes
<1>2. given.calls \in Seq([kind : Kinds, prompts : Seq(Requests)])
  BY <1>1, SyncAssumption
<1>3. DOMAIN given.calls = 1 .. Len(given.calls) /\ Len(given.calls) \in Nat
  BY <1>2
<1>4. call \in Nat /\ (call > 0 => call \in DOMAIN given.calls)
  BY <1>1, <1>3
<1>5. ASSUME NEW i \in DOMAIN given.calls PROVE given.calls[i].prompts \in Seq(Requests)
  <2> DEFINE C == [kind : Kinds, prompts : Seq(Requests)]
             s == given.calls
  <2>1. s \in Seq(C) /\ i \in DOMAIN s
    BY <1>2, <1>5
  <2>2. \A c \in C : c.prompts \in Seq(Requests)
    OBVIOUS
  <2> HIDE DEF C, s
  <2>3. s[i] \in C
    BY <2>1
  <2> QED BY <2>2, <2>3 DEF s
<1>6. ASSUME call > 0
      PROVE  /\ Prompts \in Seq(Requests) /\ DOMAIN Prompts = 1 .. Len(Prompts)
             /\ Len(Prompts) \in Nat /\ Own = {Prompts[i] : i \in 1 .. Len(Prompts)}
  <2>1. Prompts \in Seq(Requests)
    BY <1>4, <1>5, <1>6 DEF Prompts, Current
  <2>2. DOMAIN Prompts = 1 .. Len(Prompts) /\ Len(Prompts) \in Nat
    BY <2>1
  <2>3. Own = {Prompts[i] : i \in DOMAIN Prompts}
    BY <1>4, <1>6 DEF Own, Range
  <2> QED BY <2>1, <2>2, <2>3
<1>7. Own \subseteq Requests
  <2>1. CASE call = 0
    BY <2>1 DEF Own
  <2>2. CASE call > 0
    <3>1. \A i \in 1 .. Len(Prompts) : Prompts[i] \in Requests
      BY <1>6, <2>2
    <3> QED BY <1>6, <2>2, <3>1
  <2> QED BY <1>4, <2>1, <2>2
<1> QED BY <1>1, <1>2, <1>3, <1>4, <1>5, <1>6, <1>7

LEMMA ServesKeeps ==
  ASSUME SyncInv, TravelTypes', \A r \in Requests : Serves(r), given' = given,
         requests' = requests, external_req_ids' = external_req_ids, callVars' = callVars,
         aborted' = aborted, orphaned' = orphaned
  PROVE  SyncInv'
<1>0. /\ thread' = thread /\ call' = call /\ added' = added /\ step_outputs' = step_outputs
      /\ results' = results /\ outcome' = outcome
  BY DEF callVars
<1>1. CallTypes /\ TravelTypes /\ Shape /\ \A r \in Requests : Travels(r)
  BY DEF SyncInv, SyncTypes, Transport
<1>2. CallTypes'
  BY <1>0, <1>1 DEF CallTypes, Registered, external_of
<1>3. Shape'
  BY <1>0, <1>1 DEF Shape, Prompts, Current
<1>4. Transport'
  <2>1. \A r : ToCome(r)' = ToCome(r)
    BY <1>0 DEF ToCome
  <2> SUFFICES ASSUME NEW r \in Requests PROVE Travels(r)'
    BY DEF Transport
  <2> QED BY <1>1, <2>1, ComingType, ServesTravels
<1>5. Own' = Own /\ Delivering' = Delivering /\ Registered' = Registered
  BY <1>0 DEF Own, Prompts, Current, Delivering, Registered
<1>6. ASSUME ~orphaned' PROVE (Held /\ Delivered /\ Accounted)'
  <2>1. Held /\ Delivered /\ Accounted
    BY <1>6 DEF SyncInv
  <2>2. Held'
    <3>1. ASSUME NEW r \in Registered PROVE Holds(r)'
      <4>1. Holds(r) /\ r \in Requests
        BY <1>1, <2>1 DEF Held, CallTypes
      <4> QED BY <1>1, <4>1, ServesHolds
    <3> QED BY <1>0, <1>5, <2>1, <3>1 DEF Held, Prompts, Current
  <2>3. \A r : Got(r)' = Got(r)
    BY <1>0 DEF Got, Pending
  <2>4. Rightful' = Rightful /\ Spent' = Spent
    BY <1>5 DEF Rightful, Spent, output_kind
  <2>5. Delivered'
    BY <1>0, <1>5, <2>1, <2>3, <2>4 DEF Delivered, output_kind
  <2>6. Own \subseteq Requests
    BY <1>1, Calls
  <2>7. Accounted'
    <3>1. ASSUME Delivering, NEW r \in Own PROVE Accounts(r)'
      <4>1. Accounts(r) /\ Serves(r)
        BY <2>1, <2>6, <3>1 DEF Accounted
      <4> QED BY <1>0, <2>3, <4>1, ServesAccounts
    <3> QED BY <1>5, <3>1 DEF Accounted
  <2> QED BY <2>2, <2>5, <2>7
<1> QED BY <1>2, <1>3, <1>4, <1>6 DEF SyncInv, SyncTypes
-----------------------------------------------------------------------------
(***************************************************************************)
(* A step of the caller that adds no request and takes no output.          *)
(***************************************************************************)
LEMMA SinglyAll ==
  ASSUME Transport
  PROVE  \A r \in Requests : Singly(r)
BY DEF Transport, Travels, Singly

\* What such a step does to the engine's side.
Leaves ==
  /\ outputs_queue' = outputs_queue /\ socket' = socket /\ produced' = produced
  /\ running' = running \/ running' = {}
  /\ \/ to_engine' = to_engine \/ to_engine' = <<>>
     \/ \E type \in {"ABORT", "UTILITY"}, ids \in SUBSET Requests :
          to_engine' = Append(to_engine, Message(type, ids))

LEMMA LeavesServes ==
  ASSUME TravelTypes, \A r \in Requests : Singly(r), Leaves
  PROVE  TravelTypes' /\ \A r \in Requests : Serves(r) /\ Same(r)
<1>1. /\ to_engine \in Seq(Messages) /\ running \subseteq Requests /\ produced \in [Requests -> Nat]
      /\ outputs_queue \in Seq(Items) /\ socket \in Seq(Items)
  BY DEF TravelTypes
<1>2. /\ outputs_queue' = outputs_queue /\ socket' = socket /\ produced' = produced
      /\ running' = running \/ running' = {}
  BY DEF Leaves
<1>3. /\ to_engine' \in Seq(Messages)
      /\ \A r : AddsIn(r, to_engine') = AddsIn(r, to_engine) \/ AddsIn(r, to_engine') = <<>>
  <2>1. CASE to_engine' = to_engine
    BY <1>1, <2>1
  <2>2. CASE to_engine' = <<>>
    <3>1. <<>> \in Seq(Messages)
      BY Plain
    <3> QED BY <2>2, <3>1, AddsInIs
  <2>3. ASSUME NEW type \in {"ABORT", "UTILITY"}, NEW ids \in SUBSET Requests,
               to_engine' = Append(to_engine, Message(type, ids))
        PROVE  /\ to_engine' \in Seq(Messages)
               /\ \A r : AddsIn(r, to_engine') = AddsIn(r, to_engine)
    <3> DEFINE m == Message(type, ids)
    <3>1. m \in Messages /\ m.type # "ADD"
      BY DEF Message, Messages
    <3> HIDE DEF m
    <3>2. ASSUME NEW r PROVE /\ Append(to_engine, m) \in Seq(Messages)
                             /\ AddsIn(r, Append(to_engine, m)) = AddsIn(r, to_engine)
      <4>1. PartAdd(r, m) = <<>>
        BY <3>1 DEF PartAdd
      <4> QED BY <1>1, <3>1, <4>1, AddsAppend
    <3> QED BY <2>3, <3>2 DEF m
  <2> QED BY <2>1, <2>2, <2>3 DEF Leaves
<1>4. TravelTypes'
  BY <1>1, <1>2, <1>3 DEF TravelTypes
<1>5. ASSUME NEW r \in Requests PROVE Serves(r) /\ Same(r)
  <2>1. Same(r)
    BY <1>2 DEF Same, Coming
  <2>2. Singly(r)' /\ (Going(r)' => Going(r))
    BY <1>2, <1>3 DEF Singly, Going
  <2> QED BY <2>1, <2>2 DEF Serves
<1> QED BY <1>4, <1>5

LEMMA ToComeFewer ==
  ASSUME given' = given, call' = call,
         thread' # "adding" \/ (thread' = thread /\ added' = added), NEW r
  PROVE  ToCome(r)' => ToCome(r)
BY DEF ToCome

LEMMA LeavesTransport ==
  ASSUME TravelTypes, Transport, Leaves, \A r \in Requests : ToCome(r)' => ToCome(r)
  PROVE  /\ TravelTypes' /\ Transport'
         /\ \A r \in Requests : Coming(r)' = Coming(r) /\ produced'[r] = produced[r] /\ (Going(r)' => Going(r))
<1>1. TravelTypes' /\ \A r \in Requests : Serves(r) /\ Same(r)
  BY SinglyAll, LeavesServes
<1>2. ASSUME NEW r \in Requests PROVE Travels(r)'
  BY <1>1, ComingType, ServesTravels DEF Transport
<1> QED BY <1>1, <1>2 DEF Transport, Serves, Same

\* Such a step may take requests away.
Quiet ==
  /\ given' = given /\ call' = call /\ thread' # "adding"
  /\ Leaves
  /\ Registered' \subseteq Registered /\ \A r \in Registered' : requests'[r] = requests[r]
  /\ aborted \subseteq aborted'

\* They are aborted ones; and what it gives is what there was to give, or all that the rest
\* of the call will see.
Proper ==
  /\ ~orphaned
  /\ Registered \subseteq Registered' \cup aborted'
  /\ thread' \in InCall \/ Registered' = {}
  /\ results' \in Seq(Rightful) /\ step_outputs' \in Seq(Spent)
  /\ Delivering' => Delivering
  /\ Delivering' /\ thread = "adding" => Own \subseteq Registered
  /\ \/ \A r \in Own : Got(r)' = Got(r)
     \/ ~Delivering' /\ \A r \in Own : output_kind[r] = "DELTA" =>
                          TokensIn(Got(r)') = Numbers(Len(TokensIn(Got(r)')))

LEMMA QuietAccounts ==
  ASSUME Quiet, Registered \subseteq Registered' \cup aborted', NEW r, Accounts(r),
         thread = "adding" => r \in Registered, Got(r)' = Got(r),
         produced'[r] = produced[r], Going(r)' => Going(r)
  PROVE  Accounts(r)'
<1>1. output_kind' = output_kind
  BY DEF Quiet, output_kind
<1>2. r \in Registered' => r \in Registered /\ requests'[r] = requests[r]
  BY DEF Quiet
<1>3. r \in Registered \cup aborted => r \in Registered' \cup aborted'
  BY DEF Quiet
<1> DEFINE G == Got(r)
           R == Registered
<1>4. /\ r \in R => /\ Endless(G)
                    /\ output_kind[r] = "DELTA" => TokensIn(G) = requests[r].token_ids
      /\ r \in R \cup aborted \/ thread = "adding" \/ ~Endless(G)
      /\ EndsLast(G)
      /\ output_kind[r] = "FINAL_ONLY" => \A i \in DOMAIN G : G[i].reason # None
      /\ \A i \in DOMAIN G : G[i].reason = "length" =>
           /\ ~Going(r)
           /\ (IF output_kind[r] = "DELTA" THEN TokensIn(G) ELSE G[i].tokens) = Numbers(produced[r])
  BY DEF Accounts
<1>5. Endless(G)' = Endless(G) /\ EndsLast(G)' = EndsLast(G) /\ TokensIn(G)' = TokensIn(G)
  BY DEF Endless, EndsLast, TokensIn
<1>6. G' = G
  OBVIOUS
<1> HIDE DEF G
<1>7. r \in R => Endless(G)' /\ (output_kind'[r] = "DELTA" => TokensIn(G)' = requests[r].token_ids)
  BY <1>1, <1>4, <1>5
<1>8. /\ r \in R' => /\ Endless(G)'
                     /\ output_kind'[r] = "DELTA" => TokensIn(G)' = requests'[r].token_ids
      /\ r \in R' \cup aborted' \/ thread' = "adding" \/ ~Endless(G)'
      /\ EndsLast(G)'
  BY <1>2, <1>3, <1>4, <1>5, <1>7
<1>9. output_kind'[r] = "FINAL_ONLY" => \A i \in DOMAIN G' : G'[i].reason # None
  BY <1>1, <1>4, <1>6
<1>10. \A i \in DOMAIN G' : G'[i].reason = "length" =>
         /\ ~Going(r)'
         /\ (IF output_kind'[r] = "DELTA" THEN TokensIn(G)' ELSE G'[i].tokens) = Numbers(produced'[r])
  BY <1>1, <1>4, <1>5, <1>6
<1> QED BY <1>8, <1>9, <1>10 DEF Accounts, G

LEMMA QuietKeeps ==
  ASSUME SyncInv, CallTypes', Shape', Quiet, orphaned' \/ Proper
  PROVE  SyncInv'
<1>1. CallTypes /\ TravelTypes /\ Transport
  BY DEF SyncInv, SyncTypes
<1>2. /\ given' = given /\ call' = call /\ thread' # "adding" /\ Leaves
      /\ Registered' \subseteq Registered /\ \A r \in Registered' : requests'[r] = requests[r]
  BY DEF Quiet
<1>3. \A r \in Requests : ToCome(r)' => ToCome(r)
  BY <1>2, ToComeFewer
<1>4. /\ TravelTypes' /\ Transport'
      /\ \A r \in Requests : Coming(r)' = Coming(r) /\ produced'[r] = produced[r] /\ (Going(r)' => Going(r))
  BY <1>1, <1>2, <1>3, LeavesTransport
<1>5. ASSUME ~orphaned', Proper PROVE (Held /\ Delivered /\ Accounted)'
  <2>1. Held /\ Delivered /\ Accounted
    BY <1>5 DEF SyncInv, Proper
  <2>2. Own' = Own /\ output_kind' = output_kind /\ Own \subseteq Requests
    BY <1>1, <1>2, Calls DEF Own, Prompts, Current, output_kind
  <2>3. Held'
    <3>1. ASSUME NEW r \in Registered' PROVE Holds(r)'
      <4>1. Holds(r) /\ r \in Requests
        BY <1>1, <1>2, <2>1 DEF Held, CallTypes
      <4> QED BY <1>2, <1>4, <2>2, <4>1 DEF Holds
    <3>2. Registered' \subseteq Own' /\ (thread' \notin InCall => Registered' = {})
      BY <1>2, <1>5, <2>1, <2>2 DEF Held, Proper
    <3> QED BY <1>2, <3>1, <3>2 DEF Held
  <2>4. Rightful' = Rightful /\ Spent \subseteq Spent'
    <3>1. Rightful' = Rightful
      BY <2>2 DEF Rightful
    <3> QED BY <1>2, <3>1 DEF Spent
  <2>5. Delivered'
    <3>1. results' \in Seq(Rightful') /\ step_outputs' \in Seq(Spent')
      BY <1>5, <2>4 DEF Proper
    <3>2. \A r \in Own : output_kind[r] = "DELTA" => TokensIn(Got(r)') = Numbers(Len(TokensIn(Got(r)')))
      BY <1>5, <2>1 DEF Proper, Delivered
    <3>3. \A r : TokensIn(Got(r))' = TokensIn(Got(r)')
      BY DEF TokensIn
    <3> QED BY <2>2, <3>1, <3>2, <3>3 DEF Delivered
  <2>6. ASSUME Delivering', NEW r \in Own PROVE Accounts(r)'
    <3>1. /\ Got(r)' = Got(r) /\ Accounts(r) /\ (thread = "adding" => r \in Registered) /\ r \in Requests
          /\ Registered \subseteq Registered' \cup aborted'
      BY <1>5, <2>1, <2>2, <2>6 DEF Proper, Accounted
    <3> QED BY <1>4, <3>1, QuietAccounts
  <2>7. Accounted'
    BY <2>2, <2>6 DEF Accounted
  <2> QED BY <2>3, <2>5, <2>7
<1>6. ~orphaned' => (Held /\ Delivered /\ Accounted)'
  BY <1>5
<1> QED BY <1>4, <1>6 DEF SyncInv, SyncTypes
-----------------------------------------------------------------------------
(***************************************************************************)
(* The two dicts, and how a call ends.                                     *)
(***************************************************************************)
OutcomeKept == outcome' = [i \in DOMAIN given'.calls |-> outcome'[i]]

LEMMA WithoutIs ==
  ASSUME NEW f, NEW S
  PROVE  /\ DOMAIN Without(f, S) = DOMAIN f \ S
         /\ \A x \in DOMAIN f \ S : Without(f, S)[x] = f[x]
         /\ Without(f, S) = [x \in DOMAIN Without(f, S) |-> Without(f, S)[x]]
BY DEF Without, Restrict

\* remove_request leaves every external id with ids of its own.
LEMMA ReleasedTypes ==
  ASSUME CallTypes, NEW S
  PROVE  \A ext \in DOMAIN ReleasedIds(S) :
           ReleasedIds(S)[ext] \subseteq {r \in Requests : external_of[r] = ext}
<1> DEFINE left == [ext \in DOMAIN external_req_ids |-> external_req_ids[ext] \ (S \cap Registered)]
           gone == {ext \in DOMAIN left : left[ext] = {}}
<1>1. ReleasedIds(S) = Without(left, gone)
  BY DEF ReleasedIds
<1>2. \A ext \in DOMAIN left : left[ext] \subseteq {r \in Requests : external_of[r] = ext}
  BY DEF CallTypes
<1> HIDE DEF left, gone
<1>3. /\ DOMAIN Without(left, gone) = DOMAIN left \ gone
      /\ \A x \in DOMAIN left \ gone : Without(left, gone)[x] = left[x]
  BY WithoutIs
<1> QED BY <1>1, <1>2, <1>3

LEMMA SameTypes ==
  ASSUME CallTypes, given' = given, call' = call, added' = added, OutcomeKept,
         requests' = requests, external_req_ids' = external_req_ids
  PROVE  CallTypes' /\ Registered' = Registered
BY DEF CallTypes, Registered, external_of, OutcomeKept

LEMMA FewerTypes ==
  ASSUME CallTypes, given' = given, call' = call, added' = added, OutcomeKept,
         NEW S, requests' = Without(requests, S),
         external_req_ids' = external_req_ids \/ \E T : external_req_ids' = ReleasedIds(T)
  PROVE  /\ CallTypes' /\ Registered' = Registered \ S
         /\ \A r \in Registered' : requests'[r] = requests[r]
<1>1. /\ Registered' = Registered \ S /\ \A r \in Registered' : requests'[r] = requests[r]
      /\ requests' = [r \in Registered' |-> requests'[r]]
  <2>1. /\ DOMAIN Without(requests, S) = DOMAIN requests \ S
        /\ \A x \in DOMAIN requests \ S : Without(requests, S)[x] = requests[x]
        /\ Without(requests, S) = [x \in DOMAIN Without(requests, S) |-> Without(requests, S)[x]]
    BY WithoutIs
  <2> QED BY <2>1 DEF Registered
<1>2. \A ext \in DOMAIN external_req_ids' :
        external_req_ids'[ext] \subseteq {r \in Requests : external_of[r] = ext}
  BY ReleasedTypes DEF CallTypes
<1>3. external_of' = external_of
  BY DEF external_of
<1> QED BY <1>1, <1>2, <1>3 DEF CallTypes, OutcomeKept

LEMMA EndsShape ==
  ASSUME CallTypes, Shape, given' = given, call' = call, NEW how, NEW left, Ends(how, left)
  PROVE  /\ Shape' /\ OutcomeKept /\ thread' = "idle" /\ step_outputs' = <<>>
         /\ call > 0 => outcome'[call] = how
         /\ orphaned' = (orphaned \/ left # {})
<1>1. /\ thread' = "idle" /\ step_outputs' = <<>> /\ outcome' = [outcome EXCEPT ![call] = how]
      /\ orphaned' = (orphaned \/ left # {})
  BY DEF Ends
<1>2. DOMAIN outcome = DOMAIN given.calls
  BY DEF CallTypes
<1>3. OutcomeKept
  BY <1>1, <1>2 DEF OutcomeKept
<1>4. call > 0 => outcome'[call] = how
  BY <1>1, <1>2, Calls
<1>5. \A i \in DOMAIN given'.calls : i > call' => outcome'[i] = None
  <2> SUFFICES ASSUME NEW i \in DOMAIN given.calls, i > call PROVE outcome'[i] = None
    OBVIOUS
  <2>1. i # call
    BY Calls
  <2> QED BY <1>1, <1>2, <2>1 DEF Shape
<1>6. thread' \notin InCall \cup {"utility"}
  BY <1>1 DEF InCall
<1>7. Shape'
  BY <1>1, <1>5, <1>6 DEF Shape
<1> QED BY <1>1, <1>3, <1>4, <1>7

\* What was given and what is waiting stays where it is.
LEMMA SameGot ==
  ASSUME results' = results, Pending' = Pending
  PROVE  \A r : Got(r)' = Got(r)
BY DEF Got, OutputsTo

LEMMA NoneSpent == <<>> \in Seq(Spent)
BY Plain
-----------------------------------------------------------------------------
(***************************************************************************)
(* Steps that preserve the invariant: between calls, and at their ends.    *)
(***************************************************************************)
LEMMA RestsKeep ==
  ASSUME SyncInv, UNCHANGED <<processorVars, call, added, step_outputs, results, outcome, historyVars>>,
         Leaves, thread \notin InCall, thread' \notin InCall \cup {"utility"}
  PROVE  SyncInv'
<1>1. /\ given' = given /\ call' = call /\ added' = added /\ step_outputs' = step_outputs
      /\ results' = results /\ outcome' = outcome /\ requests' = requests
      /\ external_req_ids' = external_req_ids /\ aborted' = aborted /\ orphaned' = orphaned
  BY DEF processorVars, historyVars
<1>2. CallTypes /\ Shape
  BY DEF SyncInv, SyncTypes
<1>3. OutcomeKept
  BY <1>1, <1>2 DEF OutcomeKept, CallTypes
<1>4. CallTypes' /\ Registered' = Registered
  BY <1>1, <1>2, <1>3, SameTypes
<1>5. /\ thread \notin {"handle", "yielded", "discard", "drain", "adding", "unstarted", "loop"}
      /\ thread' \notin {"handle", "yielded", "discard", "drain", "adding", "unstarted", "loop", "utility"}
  BY DEF InCall
<1>6. Shape'
  <2>1. step_outputs = <<>>
    BY <1>2, <1>5 DEF Shape
  <2> QED BY <1>1, <1>2, <1>5, <2>1 DEF Shape, InCall
<1>7. Quiet
  BY <1>1, <1>4, <1>5 DEF Quiet
<1>8. ASSUME ~orphaned' PROVE Proper
  <2>1. ~orphaned /\ Held /\ Delivered
    BY <1>1, <1>8 DEF SyncInv
  <2>2. Registered' = {}
    BY <1>4, <2>1 DEF Held
  <2>3. Pending' = Pending
    BY <1>1, <1>5 DEF Pending
  <2>4. \A r : Got(r)' = Got(r)
    BY <1>1, <2>3, SameGot
  <2>5. Delivering' => Delivering
    BY <1>1, <1>5 DEF Delivering, Current
  <2> QED BY <1>1, <1>4, <1>5, <2>1, <2>2, <2>4, <2>5 DEF Proper, Delivered
<1> QED BY <1>2, <1>4, <1>6, <1>7, <1>8, QuietKeeps

LEMMA BetweenKeeps ==
  ASSUME SyncInv, Started \/ StartTimesOut \/ CloseBegins \/ CloseEnds
  PROVE  SyncInv'
<1>1. Leaves
  BY DEF Started, StartTimesOut, StartFrame, CloseBegins, CloseEnds, Leaves, engineVars
<1>2. UNCHANGED <<processorVars, call, added, step_outputs, results, outcome, historyVars>>
  BY DEF Started, StartTimesOut, StartFrame, CloseBegins, CloseEnds
<1>3. thread \notin InCall /\ thread' \notin InCall \cup {"utility"}
  BY DEF Started, StartTimesOut, CloseBegins, CloseEnds, InCall
<1> QED BY <1>1, <1>2, <1>3, RestsKeep

LEMMA MonitorKeeps ==
  ASSUME SyncInv, Monitor
  PROVE  SyncInv'
<1>1. Leaves
  BY DEF Monitor, Leaves, engineVars
<1>2. TravelTypes /\ Transport
  BY DEF SyncInv, SyncTypes
<1>3. TravelTypes' /\ \A r \in Requests : Serves(r)
  BY <1>1, <1>2, SinglyAll, LeavesServes
<1>4. /\ given' = given /\ requests' = requests /\ external_req_ids' = external_req_ids
      /\ callVars' = callVars /\ aborted' = aborted /\ orphaned' = orphaned
  BY DEF Monitor, processorVars, historyVars
<1> QED BY <1>3, <1>4, ServesKeeps

\* The reader's and the engine's steps.
LEMMA OthersKeep ==
  ASSUME SyncInv, EngineMoves \/ ReaderReads \/ ReaderFails \/ ReaderWoken
  PROVE  SyncInv'
<1>1. TravelTypes /\ \A r \in Requests : Singly(r)
  BY SinglyAll DEF SyncInv, SyncTypes
<1>2. TravelTypes' /\ \A r \in Requests : Serves(r)
  <2>1. CASE EngineReceives
    BY <1>1, <2>1, ReceivesServes
  <2>2. CASE EngineStops \/ EngineExits
    BY <1>1, <2>2, StopsServes
  <2>3. CASE \E S \in SUBSET Requests : EngineSteps(S)
    BY <1>1, <2>3, StepsServes
  <2>4. CASE ReaderReads \/ ReaderFails \/ ReaderWoken
    BY <1>1, <2>4, ReaderServes
  <2> QED BY <2>1, <2>2, <2>3, <2>4 DEF EngineMoves
<1>3. processorVars' = processorVars /\ callVars' = callVars /\ historyVars' = historyVars
  <2>1. EngineMoves => EngineFrame
    BY DEF EngineMoves, EngineReceives, EngineStops, EngineExits, EngineSteps
  <2>2. ReaderReads \/ ReaderFails \/ ReaderWoken => ReaderFrame
    BY DEF ReaderReads, ReaderFails, ReaderWoken
  <2> QED BY <2>1, <2>2 DEF EngineFrame, ReaderFrame
<1>4. /\ given' = given /\ requests' = requests /\ external_req_ids' = external_req_ids
      /\ aborted' = aborted /\ orphaned' = orphaned
  BY <1>3 DEF processorVars, historyVars
<1> QED BY <1>2, <1>3, <1>4, ServesKeeps

\* A call that ends: all its requests have gone, or it has left some behind.
LEMMA EndsKeeps ==
  ASSUME SyncInv, NEW how, NEW left, Ends(how, left), Leaves, call > 0,
         UNCHANGED <<given, call, added, results, requests, external_req_ids, aborted>>,
         Registered \subseteq left,
         step_outputs = <<>> \/ thread = "drain",
         how = "returned" => Current.kind = "utility" \/ Delivering,
         thread = "adding" => how # "returned" \/ Own \subseteq Registered
  PROVE  SyncInv'
<1>1. CallTypes /\ Shape
  BY DEF SyncInv, SyncTypes
<1>2. /\ Shape' /\ OutcomeKept /\ thread' = "idle" /\ step_outputs' = <<>>
      /\ outcome'[call] = how
      /\ orphaned' = (orphaned \/ left # {})
  BY <1>1, EndsShape
<1>3. CallTypes' /\ Registered' = Registered
  BY <1>1, <1>2, SameTypes
<1>4. Quiet
  BY <1>2, <1>3 DEF Quiet
<1>5. ASSUME ~orphaned' PROVE SyncInv'
  <2>1. ~orphaned /\ left = {} /\ Registered = {}
    BY <1>2, <1>5
  <2>2. Held /\ Delivered /\ Accounted
    BY <2>1 DEF SyncInv
  <2>3. Pending' = Pending
    <3>1. Pending' = <<>>
      BY <1>2 DEF Pending
    <3>2. Pending = <<>>
      <4>1. thread = "drain" => Pending = <<>>
        BY DEF Pending
      <4>2. step_outputs = <<>> => thread # "yielded"
        BY <1>1 DEF Shape
      <4> QED BY <4>1, <4>2 DEF Pending
    <3> QED BY <3>1, <3>2
  <2>4. \A r : Got(r)' = Got(r)
    BY <2>3, SameGot
  <2>5. <<>> \in Seq(Spent)
    BY Plain
  <2>6. Delivering' => Delivering
    <3>1. Delivering' => how = "returned" /\ Current.kind # "utility"
      BY <1>2 DEF Delivering, Current
    <3> QED BY <3>1
  <2>7. Delivering' /\ thread = "adding" => Own \subseteq Registered
    BY <1>2 DEF Delivering
  <2>8. Proper
    BY <1>2, <1>3, <2>1, <2>2, <2>4, <2>5, <2>6, <2>7 DEF Proper, Delivered
  <2> QED BY <1>1, <1>2, <1>3, <1>4, <2>8, QuietKeeps
<1>6. orphaned' => SyncInv'
  BY <1>1, <1>2, <1>3, <1>4, QuietKeeps
<1> QED BY <1>5, <1>6
-----------------------------------------------------------------------------
(***************************************************************************)
(* Steps that preserve the invariant: within a call.                       *)
(***************************************************************************)
\* A finished output clears its own request, which has gone already: no other of the call
\* has its external id.
LEMMA ClearedIs ==
  ASSUME CallTypes, given' = given, call' = call, added' = added, OutcomeKept, NEW out, Cleared(out)
  PROVE  /\ CallTypes' /\ Registered' \subseteq Registered
         /\ \A r \in Registered' : requests'[r] = requests[r]
         /\ (/\ Registered \subseteq Own /\ out.of \in Own
             /\ out.output.reason # None => out.of \notin Registered)
              => Registered' = Registered
<1>1. CASE out.output.reason = None
  BY <1>1, SameTypes DEF Cleared, Registered
<1>2. CASE out.output.reason # None
  <2> DEFINE ids == IdsOf(external_of[out.of])
             S == Swept(ids)
  <2>1. requests' = Without(requests, S) /\ external_req_ids' = ReleasedIds(S)
    BY <1>2 DEF Cleared, RemoveRequests
  <2>2. S \subseteq ids \cap Registered
    BY DEF Swept
  <2> HIDE DEF S
  <2>3. /\ CallTypes' /\ Registered' = Registered \ S
        /\ \A r \in Registered' : requests'[r] = requests[r]
    BY <2>1, FewerTypes
  <2>4. ASSUME Registered \subseteq Own, out.of \in Own, out.of \notin Registered PROVE S = {}
    <3> SUFFICES ASSUME NEW q \in S PROVE FALSE
      OBVIOUS
    <3>1. q \in ids /\ q \in Registered /\ q \in Own
      BY <2>2, <2>4
    <3>2. external_of[q] = external_of[out.of]
      BY <3>1 DEF IdsOf, CallTypes
    <3>3. call \in DOMAIN given.calls /\ Own = Range(given.calls[call].prompts) /\ given \in Givens
      BY <2>4, Calls DEF Own, Prompts, Current
    <3>4. q = out.of
      BY <2>4, <3>1, <3>2, <3>3, SyncAssumption DEF external_of
    <3> QED BY <2>4, <3>1, <3>4
  <2> QED BY <1>2, <2>3, <2>4
<1> QED BY <1>1, <1>2

LEMMA InnerKeeps ==
  ASSUME SyncInv, Leaves,
         UNCHANGED <<given, call, added, outcome, aborted, orphaned>>,
         thread \in InCall, thread' \in InCall \ {"adding"},
         thread' = "unstarted" => results' = <<>>,
         thread' \notin {"handle", "yielded", "discard"} => step_outputs' = <<>>,
         thread' = "yielded" => step_outputs' # <<>>,
         thread \in {"drain", "discard"} => thread' \in {"drain", "discard"},
         \/ requests' = requests /\ external_req_ids' = external_req_ids
         \/ \E out : /\ Cleared(out)
                     /\ ~orphaned => /\ out.of \in Own
                                     /\ out.output.reason # None => out.of \notin Registered,
         ~orphaned =>
           /\ results' \in Seq(Rightful) /\ step_outputs' \in Seq(Spent)
           /\ thread = "adding" => Own \subseteq Registered
           /\ \/ \A r \in Own : Got(r)' = Got(r)
              \/ thread' = "drain" /\ \A r \in Own : output_kind[r] = "DELTA" =>
                                        TokensIn(Got(r)') = Numbers(Len(TokensIn(Got(r)')))
  PROVE  SyncInv'
<1>1. CallTypes /\ Shape
  BY DEF SyncInv, SyncTypes
<1>2. OutcomeKept
  BY <1>1 DEF OutcomeKept, CallTypes
<1>3. call > 0 /\ outcome'[call] = None /\ None # "returned"
  BY <1>1, SyncAssumption DEF Shape
<1>4. Shape'
  <2>1. thread' # "adding" /\ thread' # "utility"
    BY DEF InCall
  <2>2. \A i \in DOMAIN given.calls : i > call => outcome[i] = None
    BY <1>1 DEF Shape
  <2>3. thread' \in {"adding", "unstarted"} => results' = <<>>
    BY <2>1
  <2> QED BY <1>3, <2>1, <2>2, <2>3 DEF Shape
<1>5. /\ CallTypes' /\ Registered' \subseteq Registered
      /\ \A r \in Registered' : requests'[r] = requests[r]
      /\ ~orphaned => Registered' = Registered
  <2>1. CASE requests' = requests /\ external_req_ids' = external_req_ids
    BY <1>1, <1>2, <2>1, SameTypes
  <2>2. ASSUME NEW out, Cleared(out),
               ~orphaned => out.of \in Own /\ (out.output.reason # None => out.of \notin Registered)
        PROVE  /\ CallTypes' /\ Registered' \subseteq Registered
               /\ \A r \in Registered' : requests'[r] = requests[r]
               /\ ~orphaned => Registered' = Registered
    <3>1. ~orphaned => Registered \subseteq Own
      BY DEF SyncInv, Held
    <3> QED BY <1>1, <1>2, <2>2, <3>1, ClearedIs
  <2> QED BY <2>1, <2>2
<1>6. Quiet
  BY <1>5 DEF Quiet
<1>7. ASSUME ~orphaned' PROVE Proper
  <2>1. Delivering' <=> thread' \in {"unstarted", "loop", "handle", "yielded"}
    BY <1>3 DEF Delivering
  <2>2. Delivering' => Delivering
    <3>1. thread \notin {"drain", "discard"} => thread \in {"adding", "unstarted", "loop", "handle", "yielded"}
      BY DEF InCall
    <3> QED BY <2>1, <3>1 DEF Delivering
  <2>3. thread' = "drain" => ~Delivering'
    BY <2>1
  <2> QED BY <1>5, <1>7, <2>2, <2>3 DEF Proper
<1> QED BY <1>4, <1>5, <1>6, <1>7, QuietKeeps

LEMMA CallFrameLeaves ==
  ASSUME CallFrame, to_engine' = to_engine
  PROVE  Leaves
BY DEF CallFrame, Leaves

LEMMA AllAddedKeeps ==
  ASSUME SyncInv, AllAdded
  PROVE  SyncInv'
<1>1. /\ thread = "adding" /\ added = Len(Prompts)
      /\ UNCHANGED <<requests, external_req_ids, call, added, results, to_engine, aborted, given>>
      /\ Leaves
  BY CallFrameLeaves DEF AllAdded, CallFrame
<1>2. Shape /\ CallTypes
  BY DEF SyncInv, SyncTypes
<1>3. results = <<>> /\ step_outputs = <<>> /\ call > 0
  BY <1>1, <1>2 DEF Shape, InCall
<1>4. CASE Prompts = <<>> /\ Ends("returned", Registered)
  <2>1. DOMAIN <<>> = {}
    OBVIOUS
  <2>2. Own \subseteq Registered
    BY <1>3, <1>4, <2>1 DEF Own, Range
  <2>3. Delivering
    BY <1>1 DEF Delivering
  <2> QED BY <1>1, <1>3, <1>4, <2>2, <2>3, EndsKeeps
<1>5. CASE thread' \in {"unstarted", "loop"} /\ UNCHANGED <<step_outputs, outcome, orphaned>>
  <2>1. Pending' = Pending
    BY <1>1, <1>3, <1>5 DEF Pending
  <2>2. ~orphaned => /\ results' \in Seq(Rightful) /\ step_outputs' \in Seq(Spent)
                     /\ Own \subseteq Registered
                     /\ \A r \in Own : Got(r)' = Got(r)
    <3> SUFFICES ASSUME ~orphaned
                 PROVE  /\ results' \in Seq(Rightful) /\ step_outputs' \in Seq(Spent)
                        /\ Own \subseteq Registered
                        /\ \A r \in Own : Got(r)' = Got(r)
      OBVIOUS
    <3>1. Held /\ Delivered
      BY DEF SyncInv
    <3>2. Own = Registered
      BY <1>1, <1>2, <1>3, <3>1, Calls DEF Held
    <3>3. \A r : Got(r)' = Got(r)
      BY <1>1, <2>1, SameGot
    <3> QED BY <1>1, <1>5, <3>1, <3>2, <3>3 DEF Delivered
  <2>3. thread \in InCall /\ thread' \in InCall \ {"adding"} /\ thread' \notin {"yielded", "drain", "discard"}
    BY <1>1, <1>5 DEF InCall
  <2>4. UNCHANGED <<given, call, added, outcome, aborted, orphaned>> /\ results' = <<>> /\ step_outputs' = <<>>
    BY <1>1, <1>3, <1>5
  <2> QED BY <1>1, <2>2, <2>3, <2>4, InnerKeeps
<1> QED BY <1>4, <1>5 DEF AllAdded

LEMMA StartStreamKeeps ==
  ASSUME SyncInv, StartStream
  PROVE  SyncInv'
<1>1. /\ thread = "unstarted"
      /\ UNCHANGED <<requests, external_req_ids, call, added, results, given, aborted>>
      /\ Leaves
  BY CallFrameLeaves DEF StartStream, CallFrame
<1>2. Shape /\ CallTypes
  BY DEF SyncInv, SyncTypes
<1>3. results = <<>> /\ step_outputs = <<>> /\ call > 0
  BY <1>1, <1>2 DEF Shape, InCall
<1>4. CASE thread' = "loop" /\ UNCHANGED <<step_outputs, outcome, orphaned>>
  <2>1. Pending' = Pending
    BY <1>1, <1>4 DEF Pending
  <2>2. \A r : Got(r)' = Got(r)
    BY <1>1, <2>1, SameGot
  <2>3. ~orphaned => results' \in Seq(Rightful) /\ step_outputs' \in Seq(Spent)
    BY <1>1, <1>4 DEF SyncInv, Delivered
  <2>4. thread \in InCall /\ thread' \in InCall \ {"adding"}
    BY <1>1, <1>4 DEF InCall
  <2> QED BY <1>1, <1>3, <1>4, <2>2, <2>3, <2>4, InnerKeeps
<1>5. CASE Ends("dropped", Registered)
  BY <1>1, <1>3, <1>5, EndsKeeps
<1> QED BY <1>4, <1>5 DEF StartStream

LEMMA ReturnKeeps ==
  ASSUME SyncInv, Return
  PROVE  SyncInv'
<1>1. /\ thread \in {"loop", "drain"} /\ Registered = {}
      /\ Ends(IF thread = "drain" THEN "abandoned" ELSE "returned", {})
      /\ UNCHANGED <<requests, external_req_ids, call, added, results, given, aborted>>
      /\ Leaves
  BY CallFrameLeaves DEF Return, CallFrame, HasUnfinishedRequests
<1>2. call > 0 /\ step_outputs = <<>>
  BY <1>1 DEF SyncInv, Shape, InCall
<1>3. CASE thread = "loop"
  <2>1. Delivering
    BY <1>3 DEF Delivering
  <2>2. Ends("returned", {})
    BY <1>1, <1>3
  <2> QED BY <1>1, <1>2, <1>3, <2>1, <2>2, EndsKeeps
<1>4. CASE thread = "drain"
  <2>1. Ends("abandoned", {})
    BY <1>1, <1>4
  <2> QED BY <1>1, <1>2, <1>4, <2>1, EndsKeeps
<1> QED BY <1>1, <1>3, <1>4

LEMMA UtilityKeeps ==
  ASSUME SyncInv, CallUtility \/ UtilityReturns
  PROVE  SyncInv'
<1>1. /\ thread = "utility"
      /\ UNCHANGED <<requests, external_req_ids, call, added, results, given, aborted>>
      /\ outputs_queue' = outputs_queue /\ socket' = socket /\ produced' = produced
      /\ running' = running
  BY DEF CallUtility, UtilityReturns, CallFrame
<1>2. Shape /\ CallTypes /\ TravelTypes /\ Transport
  BY DEF SyncInv, SyncTypes
<1>3. call > 0 /\ step_outputs = <<>> /\ Current.kind = "utility"
  BY <1>1, <1>2 DEF Shape, InCall
<1>4. Leaves
  <2>1. to_engine' = to_engine \/ to_engine' = Append(to_engine, Message("UTILITY", {}))
    BY DEF CallUtility, UtilityReturns, Sends, Raises
  <2> QED BY <1>1, <2>1 DEF Leaves
<1>5. ASSUME NEW how, Ends(how, {}) PROVE SyncInv'
  <2>1. CASE ~orphaned
    <3>1. Registered = {}
      BY <1>1, <2>1 DEF SyncInv, Held, InCall
    <3> QED BY <1>1, <1>3, <1>4, <1>5, <3>1, EndsKeeps
  <2>2. CASE orphaned
    <3>1. /\ Shape' /\ OutcomeKept /\ thread' = "idle" /\ orphaned' = (orphaned \/ {} # {})
      BY <1>1, <1>2, <1>5, EndsShape
    <3>2. CallTypes' /\ Registered' = Registered
      BY <1>1, <1>2, <3>1, SameTypes
    <3>3. Quiet
      BY <1>1, <1>4, <3>1, <3>2 DEF Quiet
    <3> QED BY <2>2, <3>1, <3>2, <3>3, QuietKeeps
  <2> QED BY <2>1, <2>2
<1>6. CASE UNCHANGED <<thread, step_outputs, outcome, orphaned>>
  <2>1. \A r \in Requests : Serves(r)
    BY <1>2, <1>4, SinglyAll, LeavesServes
  <2>2. TravelTypes'
    BY <1>2, <1>4, SinglyAll, LeavesServes
  <2> QED BY <1>1, <1>6, <2>1, <2>2, ServesKeeps DEF callVars
<1>7. UNCHANGED <<thread, step_outputs, outcome, orphaned>> \/ \E how : Ends(how, {})
  BY DEF CallUtility, UtilityReturns
<1> QED BY <1>5, <1>6, <1>7

\* Outputs as callers get them.
LEMMA UserTokens ==
  /\ TokensIn(<<>>) = <<>>
  /\ \A o \in Outs : TokensIn(<<o>>) = o.tokens /\ o.tokens \in Seq(Nat)
  /\ \A s \in Seq(Outs) : TokensIn(s) \in Seq(Nat)
  /\ \A s, t \in Seq(Outs) : TokensIn(s \o t) = TokensIn(s) \o TokensIn(t)
<1>1. \A o \in Outs : o.tokens \in Seq(Nat)
  BY DEF Outs
<1> QED BY <1>1, TokensInIs

LEMMA UserOutputsTo ==
  ASSUME NEW r
  PROVE  /\ OutputsTo(r, <<>>) = <<>>
         /\ \A u \in UserOutputs : OutputsTo(r, <<u>>) = IF u.of = r THEN <<u.output>> ELSE <<>>
         /\ \A s \in Seq(UserOutputs) : OutputsTo(r, s) \in Seq(Outs)
         /\ \A s, t \in Seq(UserOutputs) : OutputsTo(r, s \o t) = OutputsTo(r, s) \o OutputsTo(r, t)
<1> DEFINE S == UserOutputs
           T == Outs
<1>1. \A u \in S : u.of = r => u.output \in T
  BY DEF UserOutputs
<1> HIDE DEF S, T
<1>2. SelectsOf(r, S, T)
  BY <1>1, OutputsToIs
<1> QED BY <1>2 DEF SelectsOf, S, T

LEMMA SpentIs ==
  /\ Spent \subseteq Rightful /\ Rightful \subseteq UserOutputs
  /\ Seq(Spent) \subseteq Seq(Rightful) /\ Seq(Rightful) \subseteq Seq(UserOutputs)
  /\ \A out \in Spent : out.of \in Own /\ (out.output.reason # None => out.of \notin Registered)
<1>1. Spent \subseteq Rightful /\ Rightful \subseteq UserOutputs
  BY DEF Spent, Rightful
<1>2. \A out \in Spent : out.of \in Own /\ (out.output.reason # None => out.of \notin Registered)
  BY DEF Spent, Rightful
<1>3. \A A, B : A \subseteq B => Seq(A) \subseteq Seq(B)
  OBVIOUS
<1> QED BY <1>1, <1>2, <1>3

LEMMA HandleKeeps ==
  ASSUME SyncInv, Handle
  PROVE  SyncInv'
<1>1. /\ thread = "handle"
      /\ UNCHANGED <<given, call, added, outcome, aborted, orphaned>> /\ Leaves
  BY CallFrameLeaves DEF Handle, HandleFrame, CallFrame, historyVars
<1>2. thread \in InCall
  BY <1>1 DEF InCall
<1>3. ~orphaned => results \in Seq(Rightful) /\ step_outputs \in Seq(Spent) /\ results \in Seq(UserOutputs)
                   /\ step_outputs \in Seq(Rightful)
  BY SpentIs DEF SyncInv, Delivered
<1>4. Pending = step_outputs
  BY <1>1 DEF Pending
<1>5. CASE step_outputs = <<>>
  <2>1. thread' = "loop" /\ UNCHANGED <<results, step_outputs, requests, external_req_ids>>
    BY <1>5 DEF Handle
  <2>2. Pending' = Pending
    BY <1>1, <2>1 DEF Pending
  <2>3. \A r : Got(r)' = Got(r)
    BY <2>1, <2>2, SameGot
  <2>4. thread' \in InCall \ {"adding"}
    BY <2>1 DEF InCall
  <2> QED BY <1>1, <1>2, <1>3, <1>5, <2>1, <2>3, <2>4, InnerKeeps
<1>6. CASE step_outputs # <<>>
  <2>1. /\ results' = Append(results, Head(step_outputs))
        /\ \/ thread' = "yielded" /\ UNCHANGED <<step_outputs, requests, external_req_ids>>
           \/ Cleared(Head(step_outputs)) /\ step_outputs' = Tail(step_outputs) /\ thread' = thread
    BY <1>6 DEF Handle
  <2>2. Pending' = Tail(step_outputs)
    BY <1>1, <2>1 DEF Pending
  <2>3. ASSUME ~orphaned
        PROVE  /\ results' \in Seq(Rightful) /\ step_outputs' \in Seq(Spent)
               /\ Head(step_outputs) \in Spent
               /\ \A r : Got(r)' = Got(r)
    <3>1. /\ results \in Seq(Rightful) /\ step_outputs \in Seq(Spent) /\ step_outputs \in Seq(Rightful)
      BY <1>3, <2>3
    <3>2. Head(step_outputs) \in Spent /\ Tail(step_outputs) \in Seq(Spent)
      BY <1>6, <3>1, Pops
    <3>3. /\ step_outputs = <<Head(step_outputs)>> \o Tail(step_outputs) /\ Head(step_outputs) \in Rightful
          /\ Tail(step_outputs) \in Seq(Rightful) /\ <<Head(step_outputs)>> \in Seq(Rightful)
      BY <1>6, <3>1, Pops
    <3>4. results' = results \o <<Head(step_outputs)>> /\ results' \in Seq(Rightful)
      BY <2>1, <3>1, <3>3, Appends
    <3>5. (results \o <<Head(step_outputs)>>) \o Tail(step_outputs) = results \o (<<Head(step_outputs)>> \o Tail(step_outputs))
      BY <3>1, <3>3, Associates
    <3>6. results' \o Pending' = results \o Pending
      BY ONLY <1>4, <2>2, <3>3, <3>4, <3>5
    <3>7. \A r : Got(r)' = Got(r)
      BY <3>6 DEF Got, OutputsTo
    <3> QED BY <2>1, <3>1, <3>2, <3>4, <3>7
  <2>4. thread' \in {"yielded", "handle"} /\ thread' \in InCall \ {"adding"}
    BY <1>1, <2>1 DEF InCall
  <2>5. \/ requests' = requests /\ external_req_ids' = external_req_ids
        \/ \E out : /\ Cleared(out)
                    /\ ~orphaned => /\ out.of \in Own
                                    /\ out.output.reason # None => out.of \notin Registered
    BY <2>1, <2>3, SpentIs
  <2>6. thread' = "yielded" => step_outputs' # <<>>
    BY <1>1, <1>6, <2>1
  <2> QED BY <1>1, <1>2, <2>3, <2>4, <2>5, <2>6, InnerKeeps
<1> QED BY <1>5, <1>6

LEMMA ResumeKeeps ==
  ASSUME SyncInv, Resume
  PROVE  SyncInv'
<1>1. /\ thread = "yielded" /\ thread' = "handle" /\ results' = results
      /\ Cleared(Head(step_outputs)) /\ step_outputs' = Tail(step_outputs)
      /\ UNCHANGED <<given, call, added, outcome, aborted, orphaned>> /\ Leaves
  BY CallFrameLeaves DEF Resume, HandleFrame, CallFrame, historyVars
<1>2. thread \in InCall /\ thread' \in InCall \ {"adding"} /\ step_outputs # <<>>
  BY <1>1 DEF InCall, SyncInv, Shape
<1>3. Pending' = Pending
  BY <1>1 DEF Pending
<1>4. \A r : Got(r)' = Got(r)
  BY <1>1, <1>3, SameGot
<1>5. ASSUME ~orphaned
      PROVE  /\ results' \in Seq(Rightful) /\ step_outputs' \in Seq(Spent)
             /\ Head(step_outputs) \in Spent
  <2>1. results \in Seq(Rightful) /\ step_outputs \in Seq(Spent)
    BY <1>5 DEF SyncInv, Delivered
  <2> QED BY <1>1, <1>2, <2>1, Pops
<1>6. \E out : /\ Cleared(out)
               /\ ~orphaned => /\ out.of \in Own
                               /\ out.output.reason # None => out.of \notin Registered
  BY <1>1, <1>5, SpentIs
<1> QED BY <1>1, <1>2, <1>4, <1>5, <1>6, InnerKeeps

LEMMA DiscardKeeps ==
  ASSUME SyncInv, Discard
  PROVE  SyncInv'
<1>1. /\ thread = "discard" /\ results' = results
      /\ UNCHANGED <<given, call, added, outcome, aborted, orphaned>> /\ Leaves
      /\ IF step_outputs = <<>>
         THEN thread' = "drain" /\ UNCHANGED <<step_outputs, requests, external_req_ids>>
         ELSE /\ Cleared(Head(step_outputs)) /\ step_outputs' = Tail(step_outputs)
              /\ thread' = thread
  BY CallFrameLeaves DEF Discard, HandleFrame, CallFrame, historyVars
<1>2. thread \in InCall /\ thread' \in {"drain", "discard"} /\ thread' \in InCall \ {"adding"}
  BY <1>1 DEF InCall
<1>3. Pending' = Pending
  BY <1>1, <1>2 DEF Pending
<1>4. \A r : Got(r)' = Got(r)
  BY <1>1, <1>3, SameGot
<1>5. ASSUME ~orphaned
      PROVE  /\ results' \in Seq(Rightful) /\ step_outputs' \in Seq(Spent)
             /\ step_outputs # <<>> => Head(step_outputs) \in Spent
  <2>1. results \in Seq(Rightful) /\ step_outputs \in Seq(Spent)
    BY <1>5 DEF SyncInv, Delivered
  <2>2. step_outputs # <<>> => Head(step_outputs) \in Spent /\ Tail(step_outputs) \in Seq(Spent)
    BY <2>1, Pops
  <2> QED BY <1>1, <2>1, <2>2
<1>6. \/ requests' = requests /\ external_req_ids' = external_req_ids
      \/ \E out : /\ Cleared(out)
                  /\ ~orphaned => /\ out.of \in Own
                                  /\ out.output.reason # None => out.of \notin Registered
  BY <1>1, <1>5, SpentIs
<1>7. thread' = "drain" => step_outputs' = <<>>
  BY <1>1
<1> QED BY <1>1, <1>2, <1>4, <1>5, <1>6, <1>7, InnerKeeps

LEMMA AbandonKeeps ==
  ASSUME SyncInv, Abandon
  PROVE  SyncInv'
<1>1. /\ thread = "yielded" /\ thread' = "drain" /\ step_outputs' = <<>> /\ results' = results
      /\ UNCHANGED <<given, call, added, outcome, aborted, orphaned, requests, external_req_ids>>
      /\ Leaves
  BY CallFrameLeaves DEF Abandon, CallFrame, historyVars
<1>2. thread \in InCall /\ thread' \in InCall \ {"adding"} /\ step_outputs # <<>>
  BY <1>1 DEF InCall, SyncInv, Shape
<1>3. Pending' = <<>> /\ Pending = Tail(step_outputs)
  BY <1>1 DEF Pending
<1>4. ASSUME ~orphaned
      PROVE  /\ results' \in Seq(Rightful) /\ step_outputs' \in Seq(Spent)
             /\ \A r \in Own : output_kind[r] = "DELTA" =>
                  TokensIn(Got(r)') = Numbers(Len(TokensIn(Got(r)')))
  <2>1. Delivered /\ results \in Seq(Rightful) /\ step_outputs \in Seq(Spent)
    BY <1>4 DEF SyncInv, Delivered
  <2>2. Tail(step_outputs) \in Seq(UserOutputs) /\ results \in Seq(UserOutputs)
    <3>1. step_outputs \in Seq(UserOutputs)
      BY <2>1, SpentIs
    <3> QED BY <1>2, <2>1, <3>1, Pops, SpentIs
  <2>3. ASSUME NEW r \in Own, output_kind[r] = "DELTA"
        PROVE  TokensIn(Got(r)') = Numbers(Len(TokensIn(Got(r)')))
    <3> DEFINE a == OutputsTo(r, results)
               b == OutputsTo(r, Tail(step_outputs))
    <3>1. a \in Seq(Outs) /\ b \in Seq(Outs) /\ Got(r) = a \o b
      BY <1>3, <2>2, UserOutputsTo DEF Got
    <3>2. Got(r)' = a
      <4>1. results \o <<>> = results
        BY <2>1, Nothing
      <4> QED BY <1>1, <1>3, <4>1 DEF Got, OutputsTo
    <3> HIDE DEF a, b
    <3>3. TokensIn(a \o b) = TokensIn(a) \o TokensIn(b) /\ TokensIn(a) \in Seq(Nat) /\ TokensIn(b) \in Seq(Nat)
      BY <3>1, UserTokens
    <3>4. TokensIn(Got(r)) = Numbers(Len(TokensIn(Got(r))))
      BY <2>1, <2>3 DEF Delivered
    <3>5. TokensIn(a) \o TokensIn(b) = Numbers(Len(TokensIn(a) \o TokensIn(b)))
      BY <3>1, <3>3, <3>4
    <3>6. TokensIn(a) = Numbers(Len(TokensIn(a)))
      BY <3>3, <3>5, FirstNumbers
    <3> QED BY <3>2, <3>6
  <2>4. <<>> \in Seq(Spent)
    BY Plain
  <2> QED BY <1>1, <2>1, <2>3, <2>4
<1> QED BY <1>1, <1>2, <1>4, InnerKeeps

LEMMA AbortKeeps ==
  ASSUME SyncInv, NEW ext, AbortRequest(ext)
  PROVE  SyncInv'
<1>1. /\ thread \in {"idle", "unstarted", "yielded"}
      /\ requests' = Without(requests, IdsOf(ext))
      /\ aborted' = aborted \cup (IdsOf(ext) \cap Registered)
      /\ external_req_ids' = external_req_ids
      /\ thread' = thread /\ call' = call /\ added' = added /\ step_outputs' = step_outputs
      /\ results' = results /\ outcome' = outcome /\ orphaned' = orphaned /\ given' = given
      /\ outputs_queue' = outputs_queue /\ socket' = socket /\ produced' = produced /\ running' = running
      /\ to_engine' = to_engine \/ to_engine' = Append(to_engine, Message("ABORT", IdsOf(ext)))
  BY DEF AbortRequest, CallFrame, callVars, Sends, Raises
<1>2. CallTypes /\ Shape
  BY DEF SyncInv, SyncTypes
<1>3. OutcomeKept
  BY <1>1, <1>2 DEF OutcomeKept, CallTypes
<1>4. /\ CallTypes' /\ Registered' = Registered \ IdsOf(ext)
      /\ \A r \in Registered' : requests'[r] = requests[r]
  BY <1>1, <1>2, <1>3, FewerTypes
<1>5. IdsOf(ext) \in SUBSET Requests
  BY <1>2 DEF IdsOf, CallTypes
<1>6. Leaves
  BY <1>1, <1>5 DEF Leaves
<1>7. Shape'
  BY <1>1, <1>2 DEF Shape, Prompts, Current
<1>8. Quiet
  BY <1>1, <1>4, <1>6 DEF Quiet
<1>9. ASSUME ~orphaned' PROVE Proper
  <2>1. ~orphaned /\ Held /\ Delivered
    BY <1>1, <1>9 DEF SyncInv
  <2>2. \A r : Got(r)' = Got(r)
    BY <1>1, SameGot DEF Pending
  <2>3. Delivering' => Delivering
    BY <1>1 DEF Delivering, Current
  <2>4. thread' \in InCall \/ Registered' = {}
    BY <1>1, <1>4, <2>1 DEF Held
  <2>5. Registered \subseteq Registered' \cup aborted'
    BY <1>1, <1>4
  <2> QED BY <1>1, <2>1, <2>2, <2>3, <2>4, <2>5 DEF Proper, Delivered
<1> QED BY <1>2, <1>4, <1>7, <1>8, <1>9, QuietKeeps
-----------------------------------------------------------------------------
(***************************************************************************)
(* Steps that preserve the invariant: a call begins, and takes in its      *)
(* prompts.                                                                *)
(***************************************************************************)
LEMMA NothingGiven ==
  ASSUME results' = <<>>, Pending' = <<>>, NEW r
  PROVE  /\ Got(r)' = <<>> /\ TokensIn(Got(r)') = Numbers(Len(TokensIn(Got(r)')))
         /\ TokensIn(Got(r)') = <<>> /\ Endless(Got(r)') /\ EndsLast(Got(r)')
         /\ DOMAIN Got(r)' = {}
<1>1. Got(r)' = <<>>
  <2>1. <<>> \o <<>> = <<>>
    OBVIOUS
  <2>2. OutputsTo(r, <<>>) = <<>>
    BY UserOutputsTo
  <2>3. Got(r)' = OutputsTo(r, results' \o Pending')
    BY DEF Got, OutputsTo
  <2> QED BY <2>1, <2>2, <2>3
<1>2. TokensIn(<<>>) = <<>>
  BY UserTokens
<1>3. Numbers(Len(<<>>)) = <<>>
  <2>1. Len(<<>>) = 0
    OBVIOUS
  <2>2. Numbers(0) \in Seq(Nat) /\ Len(Numbers(0)) = 0
    BY NumbersSeq
  <2> QED BY <2>1, <2>2
<1>4. DOMAIN <<>> = {}
  OBVIOUS
<1> QED BY <1>1, <1>2, <1>3, <1>4, NoEnds

\* While prompts are registered, nothing has been given.
LEMMA AddingAccounts ==
  ASSUME results' = <<>>, Pending' = <<>>, thread' = "adding", NEW r,
         r \in Registered' /\ output_kind'[r] = "DELTA" => requests'[r].token_ids = <<>>
  PROVE  Accounts(r)'
<1> DEFINE G == Got(r)
<1>1. /\ TokensIn(G') = <<>> /\ Endless(G') /\ EndsLast(G') /\ DOMAIN G' = {}
  BY NothingGiven
<1>2. Endless(G)' = Endless(G') /\ EndsLast(G)' = EndsLast(G') /\ TokensIn(G)' = TokensIn(G')
  BY DEF Endless, EndsLast, TokensIn
<1> HIDE DEF G
<1>3. /\ r \in Registered' => /\ Endless(G)'
                              /\ output_kind'[r] = "DELTA" => TokensIn(G)' = requests'[r].token_ids
      /\ r \in Registered' \cup aborted' \/ thread' = "adding" \/ ~Endless(G)'
      /\ EndsLast(G)'
  BY <1>1, <1>2
<1> QED BY <1>1, <1>3 DEF Accounts, G

LEMMA BeginCallKeeps ==
  ASSUME SyncInv, BeginCall
  PROVE  SyncInv'
<1>1. /\ thread = "idle" /\ call < Len(given.calls)
      /\ call' = call + 1 /\ added' = 0 /\ results' = <<>>
      /\ thread' = IF given.calls[call'].kind = "utility" THEN "utility" ELSE "adding"
      /\ given' = given /\ requests' = requests /\ external_req_ids' = external_req_ids
      /\ step_outputs' = step_outputs /\ outcome' = outcome /\ orphaned' = orphaned
      /\ Leaves
  BY CallFrameLeaves DEF BeginCall, CallFrame, historyVars
<1>2. CallTypes /\ Shape /\ TravelTypes /\ Transport
  BY DEF SyncInv, SyncTypes
<1>3. /\ DOMAIN given.calls = 1 .. Len(given.calls) /\ Len(given.calls) \in Nat /\ call \in Nat
  BY <1>2, Calls
<1>4. call' \in DOMAIN given.calls /\ call' \in 0 .. Len(given.calls) /\ call' > call /\ call' > 0
  BY <1>1, <1>3
<1>5. CallTypes'
  BY <1>1, <1>2, <1>4 DEF CallTypes, Registered, external_of
<1>6. step_outputs' = <<>> /\ thread' \in {"adding", "utility"} /\ outcome'[call'] = None
  BY <1>1, <1>2, <1>4 DEF Shape
<1>7. Shape'
  <2>1. thread' = "utility" => Current'.kind = "utility"
    BY <1>1 DEF Current
  <2>2. thread' = "adding" => added' <= Len(Prompts')
    <3>1. Prompts' \in Seq(Requests)
      <4>1. given.calls[call'].prompts \in Seq(Requests)
        BY <1>2, <1>4, Calls
      <4> QED BY <1>1, <4>1 DEF Prompts, Current
    <3> QED BY <1>1, <3>1
  <2>3. \A i \in DOMAIN given'.calls : i > call' => outcome'[i] = None
    <3> SUFFICES ASSUME NEW i \in DOMAIN given.calls, i > call' PROVE outcome[i] = None
      BY <1>1
    <3>1. i > call
      BY <1>1, <1>3
    <3> QED BY <1>2, <3>1 DEF Shape
  <2> QED BY <1>1, <1>4, <1>6, <2>1, <2>2, <2>3 DEF Shape
<1>8. ASSUME NEW r PROVE ToCome(r)' => ToCome(r)
  <2> SUFFICES ASSUME NEW i \in DOMAIN given.calls, NEW k \in DOMAIN given.calls[i].prompts,
                      r = given.calls[i].prompts[k], i > call' \/ i = call'
               PROVE  ToCome(r)
    BY <1>1 DEF ToCome
  <2>1. i > call
    BY <1>1, <1>3
  <2> QED BY <2>1 DEF ToCome
<1>9. TravelTypes' /\ Transport'
  BY <1>1, <1>2, <1>8, LeavesTransport
<1>10. Pending' = <<>>
  BY <1>6 DEF Pending
<1>11. ASSUME ~orphaned' PROVE (Held /\ Delivered /\ Accounted)'
  <2>1. Registered = {}
    BY <1>1, <1>11 DEF SyncInv, Held, InCall
  <2>2. Registered' = {}
    BY <1>1, <2>1 DEF Registered
  <2>3. Held'
    <3>1. thread' = "adding" => {Prompts'[i] : i \in 1 .. added'} = {}
      BY <1>1
    <3> QED BY <2>2, <3>1 DEF Held
  <2>4. Delivered'
    <3>1. \A S : <<>> \in Seq(S)
      BY Plain
    <3>2. \A r : TokensIn(Got(r))' = Numbers(Len(TokensIn(Got(r))))'
      BY <1>1, <1>10, NothingGiven DEF TokensIn, Numbers
    <3> QED BY <1>1, <1>6, <3>1, <3>2 DEF Delivered, Numbers
  <2>5. Accounted'
    <3>1. Delivering' => thread' = "adding"
      <4>1. None # "returned"
        BY SyncAssumption
      <4> QED BY <1>6, <4>1 DEF Delivering
    <3>2. ASSUME thread' = "adding", NEW r PROVE Accounts(r)'
      BY <1>1, <1>10, <2>2, <3>2, AddingAccounts
    <3> QED BY <3>1, <3>2 DEF Accounted
  <2> QED BY <2>3, <2>4, <2>5
<1> QED BY <1>5, <1>7, <1>9, <1>11 DEF SyncInv, SyncTypes

LEMMA AddTypes ==
  ASSUME CallTypes, given' = given, call' = call, added' \in Nat, OutcomeKept,
         NEW r \in Requests, AddRequest(r)
  PROVE  /\ CallTypes' /\ Registered' = Registered \cup {r} /\ requests'[r] = NewState
         /\ \A q \in Registered \ {r} : requests'[q] = requests[q]
<1>1. /\ requests' = [q \in Registered \cup {r} |-> IF q = r THEN NewState ELSE requests[q]]
      /\ external_req_ids' = [ext \in DOMAIN external_req_ids \cup {external_of[r]} |->
           IF ext = external_of[r] THEN IdsOf(external_of[r]) \cup {r} ELSE external_req_ids[ext]]
  BY DEF AddRequest, Extended, Registered
<1>2. Registered' = Registered \cup {r} /\ requests' = [q \in Registered' |-> requests'[q]]
  BY <1>1 DEF Registered
<1>3. NewState \in RequestStates
  BY DEF NewState, RequestStates, Reasons
<1>4. \A q \in Registered' : requests'[q] \in RequestStates
  BY <1>1, <1>2, <1>3 DEF CallTypes
<1>5. \A ext : IdsOf(ext) \subseteq {q \in Requests : external_of[q] = ext}
  BY DEF IdsOf, CallTypes
<1>6. external_of' = external_of
  BY DEF external_of
<1>7. \A ext \in DOMAIN external_req_ids' :
        external_req_ids'[ext] \subseteq {q \in Requests : external_of[q] = ext}
  BY <1>1, <1>5 DEF CallTypes
<1>8. Registered \subseteq Requests
  BY DEF CallTypes
<1> QED BY <1>1, <1>2, <1>4, <1>6, <1>7, <1>8 DEF CallTypes, OutcomeKept

\* The next prompt goes to the engine, for the first time.
LEMMA SentTravels ==
  ASSUME CallTypes, TravelTypes, Transport, thread = "adding", thread' = "adding", call > 0,
         added < Len(Prompts), added' = added + 1, given' = given, call' = call,
         outputs_queue' = outputs_queue, socket' = socket, produced' = produced, running' = running,
         NEW r, r = Prompts[added + 1], to_engine' = Append(to_engine, Message("ADD", {r}))
  PROVE  /\ TravelTypes' /\ Transport' /\ produced[r] = 0 /\ Coming(r) = <<>> /\ r \in Requests
         /\ \A q : Coming(q)' = Coming(q)
<1>1. /\ call \in DOMAIN given.calls /\ given \in Givens
      /\ Prompts \in Seq(Requests) /\ DOMAIN Prompts = 1 .. Len(Prompts) /\ Len(Prompts) \in Nat
      /\ Prompts = given.calls[call].prompts /\ added \in Nat /\ call \in Nat
  BY Calls DEF Prompts, Current, CallTypes
<1>2. added + 1 \in DOMAIN Prompts /\ r \in Requests /\ added + 1 > added
  BY <1>1
<1>3. ToCome(r)
  <2>1. added + 1 \in DOMAIN given.calls[call].prompts /\ r = given.calls[call].prompts[added + 1]
    BY <1>1, <1>2
  <2> QED BY <1>1, <1>2, <2>1 DEF ToCome
<1>4. produced[r] = 0 /\ ~Going(r) /\ Coming(r) = <<>>
  BY <1>2, <1>3 DEF Transport, Travels
<1>5. ~ToCome(r)'
  <2> SUFFICES ASSUME NEW i \in DOMAIN given.calls, NEW k \in DOMAIN given.calls[i].prompts,
                      r = given.calls[i].prompts[k],
                      i > call \/ (i = call /\ k > added + 1)
               PROVE  FALSE
    BY DEF ToCome
  <2>1. i = call /\ k = added + 1
    <3>1. /\ added + 1 \in DOMAIN given.calls[call].prompts
          /\ given.calls[i].prompts[k] = given.calls[call].prompts[added + 1]
      BY <1>1, <1>2
    <3> QED BY <1>1, <3>1, SyncAssumption
  <2> QED BY <1>1, <2>1
<1>6. \A q : ToCome(q)' => ToCome(q)
  <2> SUFFICES ASSUME NEW q, NEW i \in DOMAIN given.calls, NEW k \in DOMAIN given.calls[i].prompts,
                      q = given.calls[i].prompts[k],
                      i > call \/ (i = call /\ k > added + 1)
               PROVE  ToCome(q)
    BY DEF ToCome
  <2>1. given.calls[i].prompts \in Seq(Requests)
    BY Calls
  <2>2. k \in Nat
    BY <2>1
  <2>3. i > call \/ (i = call /\ k > added)
    BY <1>1, <2>2
  <2> QED BY <2>3 DEF ToCome
<1>7. /\ to_engine \in Seq(Messages) /\ running \subseteq Requests /\ produced \in [Requests -> Nat]
      /\ outputs_queue \in Seq(Items) /\ socket \in Seq(Items)
  BY DEF TravelTypes
<1> DEFINE m == Message("ADD", {r})
<1>8. m \in Messages /\ m.type = "ADD" /\ m.ids = {r}
  BY <1>2 DEF Message, Messages
<1> HIDE DEF m
<1>9. \A q : /\ Append(to_engine, m) \in Seq(Messages)
             /\ AddsIn(q, Append(to_engine, m)) = AddsIn(q, to_engine) \o PartAdd(q, m)
             /\ PartAdd(q, m) = <<>> => AddsIn(q, Append(to_engine, m)) = AddsIn(q, to_engine)
  BY <1>7, <1>8, AddsAppend
<1>10. TravelTypes'
  BY <1>7, <1>9 DEF TravelTypes, m
<1>11. \A q : Coming(q)' = Coming(q)
  BY DEF Coming
<1>12. ASSUME NEW q \in Requests PROVE Travels(q)'
  <2>1. CASE q # r
    <3>1. AddsIn(q, to_engine') = AddsIn(q, to_engine)
      <4>1. PartAdd(q, m) = <<>>
        BY <1>8, <2>1 DEF PartAdd
      <4> QED BY <1>9, <4>1 DEF m
    <3>2. Same(q) /\ Singly(q)' /\ (Going(q)' => Going(q))
      BY <1>11, <3>1, SinglyAll DEF Same, Singly, Going
    <3>3. Serves(q)
      BY <3>2 DEF Serves
    <3> QED BY <1>6, <3>3, ComingType, ServesTravels DEF Transport
  <2>2. CASE q = r
    <3>1. AddsIn(r, to_engine) = <<>> /\ r \notin running
      BY <1>4 DEF Going
    <3>2. PartAdd(r, m) = <<m>>
      BY <1>8 DEF PartAdd
    <3>3. <<>> \o <<m>> = <<m>> /\ Len(<<m>>) = 1
      OBVIOUS
    <3>4. Len(AddsIn(r, to_engine')) = 1
      BY <1>9, <3>1, <3>2, <3>3 DEF m
    <3>5. Coming(r)' = <<>>
      BY <1>4, <1>11
    <3>6. Endless(Coming(r))' /\ EndsLast(Coming(r))'
      BY <3>5, NoEnds DEF Endless, EndsLast
    <3> QED BY <1>5, <2>2, <3>1, <3>4, <3>6 DEF Travels
  <2> QED BY <2>1, <2>2
<1> QED BY <1>2, <1>4, <1>10, <1>11, <1>12 DEF Transport

LEMMA AddPromptKeeps ==
  ASSUME SyncInv, AddPrompt
  PROVE  SyncInv'
<1> DEFINE r == Prompts[added + 1]
<1>1. /\ thread = "adding" /\ added < Len(Prompts)
      /\ call' = call /\ results' = results /\ aborted' = aborted /\ given' = given
      /\ outputs_queue' = outputs_queue /\ socket' = socket /\ produced' = produced
      /\ running' = running
      /\ \/ /\ Ends("raised", Registered)
            /\ UNCHANGED <<requests, external_req_ids, added, to_engine>>
         \/ /\ AddRequest(r)
            /\ \/ /\ to_engine' = Append(to_engine, Message("ADD", {r})) /\ added' = added + 1
                  /\ UNCHANGED <<thread, step_outputs, outcome, orphaned>>
               \/ to_engine' = to_engine /\ Ends("raised", Registered \cup {r}) /\ UNCHANGED added
  BY DEF AddPrompt, CallFrame, Sends, Raises
<1>2. CallTypes /\ Shape /\ TravelTypes /\ Transport
  BY DEF SyncInv, SyncTypes
<1>3. call > 0 /\ results = <<>> /\ step_outputs = <<>> /\ added \in Nat
  BY <1>1, <1>2 DEF Shape, InCall, CallTypes
<1>4. r \in Requests /\ r \in Own /\ Len(Prompts) \in Nat /\ added + 1 \in 1 .. Len(Prompts)
  <2>1. /\ Prompts \in Seq(Requests) /\ Own = {Prompts[i] : i \in 1 .. Len(Prompts)}
        /\ Len(Prompts) \in Nat
    BY <1>2, <1>3, Calls
  <2>2. added + 1 \in 1 .. Len(Prompts)
    BY <1>1, <1>3, <2>1
  <2> QED BY <2>1, <2>2
<1> HIDE DEF r
<1>5. CASE Ends("raised", Registered) /\ UNCHANGED <<requests, external_req_ids, added, to_engine>>
  <2>1. Leaves
    BY <1>1, <1>5 DEF Leaves
  <2> QED BY <1>1, <1>3, <1>5, <2>1, EndsKeeps
<1>6. CASE AddRequest(r) /\ to_engine' = to_engine /\ Ends("raised", Registered \cup {r}) /\ added' = added
  <2>1. /\ Shape' /\ OutcomeKept /\ thread' = "idle"
        /\ orphaned' = (orphaned \/ Registered \cup {r} # {})
    BY <1>1, <1>2, <1>6, EndsShape
  <2>2. CallTypes'
    BY <1>1, <1>2, <1>3, <1>4, <1>6, <2>1, AddTypes
  <2>3. Leaves
    BY <1>1, <1>6 DEF Leaves
  <2>4. \A q \in Requests : ToCome(q)' => ToCome(q)
    BY <1>1, <2>1, ToComeFewer
  <2>5. TravelTypes' /\ Transport'
    BY <1>2, <2>3, <2>4, LeavesTransport
  <2> QED BY <2>1, <2>2, <2>5 DEF SyncInv, SyncTypes
<1>7. CASE /\ AddRequest(r) /\ to_engine' = Append(to_engine, Message("ADD", {r})) /\ added' = added + 1
           /\ UNCHANGED <<thread, step_outputs, outcome, orphaned>>
  <2>1. OutcomeKept /\ added' \in Nat
    BY <1>1, <1>2, <1>3, <1>7 DEF OutcomeKept, CallTypes
  <2>2. /\ CallTypes' /\ Registered' = Registered \cup {r} /\ requests'[r] = NewState
        /\ \A q \in Registered \ {r} : requests'[q] = requests[q]
    BY <1>1, <1>2, <1>4, <1>7, <2>1, AddTypes
  <2>3. /\ TravelTypes' /\ Transport' /\ produced[r] = 0 /\ Coming(r) = <<>>
        /\ \A q : Coming(q)' = Coming(q)
    BY <1>1, <1>2, <1>3, <1>7, SentTravels DEF r
  <2>4. Prompts' = Prompts /\ Current' = Current /\ Own' = Own /\ output_kind' = output_kind
    BY <1>1 DEF Prompts, Current, Own, output_kind
  <2>5. Shape'
    <3>1. added' <= Len(Prompts)
      BY <1>4, <1>7
    <3> QED BY <1>1, <1>2, <1>7, <2>4, <3>1 DEF Shape
  <2>6. results' = <<>> /\ step_outputs' = <<>> /\ Pending' = <<>> /\ thread' = "adding"
    BY <1>1, <1>3, <1>7 DEF Pending
  <2>7. ASSUME ~orphaned' PROVE (Held /\ Delivered /\ Accounted)'
    <3>1. Held /\ Delivered /\ Accounted
      BY <1>7, <2>7 DEF SyncInv
    <3>2. ASSUME NEW q \in Registered' PROVE Holds(q)'
      <4>1. CASE q = r
        <5>1. TokensIn(<<>>) = <<>> /\ NewState.token_ids = <<>> /\ NewState.reason = None
              /\ NewState.sent = 0
          BY EngineTokens DEF NewState
        <5>2. <<>> \o <<>> = <<>> /\ Len(<<>>) = 0
          OBVIOUS
        <5>3. Numbers(0) = <<>>
          <6>1. Numbers(0) \in Seq(Nat) /\ Len(Numbers(0)) = 0
            BY NumbersSeq
          <6> QED BY <6>1
        <5> QED BY <1>1, <2>2, <2>3, <4>1, <5>1, <5>2, <5>3 DEF Holds
      <4>2. CASE q # r
        <5>1. q \in Registered /\ requests'[q] = requests[q] /\ Holds(q)
          BY <2>2, <3>1, <4>2 DEF Held
        <5> QED BY <1>1, <2>3, <2>4, <5>1 DEF Holds
      <4> QED BY <4>1, <4>2
    <3>3. Held'
      <4>1. Registered' \subseteq Own'
        BY <1>4, <2>2, <2>4, <3>1 DEF Held
      <4>2. Registered' = {Prompts'[i] : i \in 1 .. added'}
        <5>1. Registered = {Prompts[i] : i \in 1 .. added}
          BY <1>1, <3>1 DEF Held
        <5>2. 1 .. added + 1 = (1 .. added) \cup {added + 1}
          BY <1>3
        <5> QED BY <1>7, <2>2, <2>4, <5>1, <5>2 DEF r
      <4> QED BY <2>6, <3>2, <4>1, <4>2 DEF Held, InCall
    <3>4. Delivered'
      <4>1. \A S : <<>> \in Seq(S)
        BY Plain
      <4>2. \A q : TokensIn(Got(q))' = Numbers(Len(TokensIn(Got(q))))'
        BY <2>6, NothingGiven DEF TokensIn, Numbers
      <4> QED BY <2>6, <4>1, <4>2 DEF Delivered, Numbers
    <3>5. ASSUME NEW q \in Own PROVE Accounts(q)'
      <4>1. Got(q) = <<>>
        <5>1. <<>> \o <<>> = <<>> /\ OutputsTo(q, <<>>) = <<>> /\ Pending = <<>>
          BY <1>1, <1>3, UserOutputsTo DEF Pending
        <5> QED BY <1>3, <5>1 DEF Got
      <4>2. Delivering /\ Accounts(q)
        BY <1>1, <3>1 DEF Delivering, Accounted
      <4>3. q \in Registered /\ output_kind[q] = "DELTA" => requests[q].token_ids = <<>>
        BY <4>1, <4>2, UserTokens DEF Accounts
      <4>4. q \in Registered' /\ output_kind'[q] = "DELTA" => requests'[q].token_ids = <<>>
        BY <2>2, <2>4, <4>3 DEF NewState
      <4> QED BY <2>6, <4>4, AddingAccounts
    <3>6. Accounted'
      BY <2>4, <3>5 DEF Accounted
    <3> QED BY <3>3, <3>4, <3>6
  <2> QED BY <2>2, <2>3, <2>5, <2>7 DEF SyncInv, SyncTypes
<1> QED BY <1>1, <1>5, <1>6, <1>7
-----------------------------------------------------------------------------
(***************************************************************************)
(* What step() makes of a batch.                                           *)
(***************************************************************************)
\* An order of a set has all of it, each once.
LEMMA OrderIs ==
  ASSUME NEW S, IsFiniteSet(S), NEW f \in SetToSeqs(S)
  PROVE  /\ DOMAIN f = 1 .. Cardinality(S) /\ Cardinality(S) \in Nat
         /\ f \in [1 .. Cardinality(S) -> S]
         /\ \A i, j \in DOMAIN f : f[i] = f[j] => i = j
         /\ \A x \in S : \E i \in DOMAIN f : f[i] = x
<1> DEFINE n == Cardinality(S)
           D == 1 .. n
<1>1. n \in Nat
  BY FS_CardinalityType
<1>2. IsFiniteSet(D) /\ Cardinality(D) = n
  <2> HIDE DEF n
  <2>1. 1 \in Int /\ n \in Int
    BY <1>1
  <2>2. IsFiniteSet(1 .. n) /\ Cardinality(1 .. n) = IF 1 > n THEN 0 ELSE n - 1 + 1
    BY <2>1, FS_Interval
  <2> QED BY <1>1, <2>2
<1>3. f \in [D -> S] /\ \A i, j \in D : i # j => f[i] # f[j]
  BY DEF SetToSeqs
<1>4. f \in Injection(D, S)
  BY <1>3 DEF Injection, IsInjective
<1>5. f \in Surjection(D, S)
  <2>1. Cardinality(D) = Cardinality(S) <=> f \in Surjection(D, S)
    <3> HIDE DEF D
    <3> QED BY <1>4, FS_Injection
  <2> QED BY <1>2, <2>1
<1>6. \A x \in S : \E i \in D : f[i] = x
  BY <1>5 DEF Surjection
<1> QED BY <1>1, <1>3, <1>6

\* Nothing of r among outputs of others.
LEMMA NoneOf ==
  ASSUME NEW r, NEW s \in Seq(UserOutputs), \A i \in 1 .. Len(s) : s[i].of # r
  PROVE  OutputsTo(r, s) = <<>>
<1> DEFINE S == {u \in UserOutputs : u.of # r}
           T == {}
<1>1. \A u \in S : u.of = r => u.output \in T
  OBVIOUS
<1>2. s \in Seq(S)
  <2>1. \A i \in 1 .. Len(s) : s[i] \in UserOutputs
    OBVIOUS
  <2>2. \A i \in 1 .. Len(s) : s[i] \in S
    BY <2>1
  <2>3. s \in [1 .. Len(s) -> S] /\ Len(s) \in Nat
    <3>1. DOMAIN s = 1 .. Len(s) /\ s = [i \in 1 .. Len(s) |-> s[i]] /\ Len(s) \in Nat
      OBVIOUS
    <3> HIDE DEF S
    <3> QED BY <2>2, <3>1
  <2> HIDE DEF S
  <2> QED BY <2>3, IsSeq
<1> HIDE DEF S, T
<1>3. SelectsOf(r, S, T)
  BY <1>1, OutputsToIs
<1>4. OutputsTo(r, s) \in Seq(T)
  BY <1>2, <1>3 DEF SelectsOf
<1>5. \A x \in Seq({}) : x = <<>>
  <2> SUFFICES ASSUME NEW x \in Seq({}) PROVE x = <<>>
    OBVIOUS
  <2>1. x # <<>> => Head(x) \in {}
    OBVIOUS
  <2> QED BY <2>1
<1> QED BY <1>4, <1>5 DEF T

\* Of outputs of which one is r's, that one.
LEMMA OneOf ==
  ASSUME NEW r, NEW s \in Seq(UserOutputs), NEW k \in 1 .. Len(s), s[k].of = r,
         \A i \in 1 .. Len(s) : s[i].of = r => i = k
  PROVE  OutputsTo(r, s) = <<s[k].output>>
<1> DEFINE a == SubSeq(s, 1, k - 1)
           b == SubSeq(s, k + 1, Len(s))
           e == s[k]
<1>1. Len(s) \in Nat /\ e \in UserOutputs /\ k \in Nat /\ \A i \in 1 .. Len(s) : s[i] \in UserOutputs
  OBVIOUS
<1>2. /\ a \in Seq(UserOutputs) /\ Len(a) = k - 1 /\ \A i \in 1 .. k - 1 : a[i] = s[i]
  <2>1. 1 \in Int /\ k - 1 \in Int /\ \A i \in 1 .. k - 1 : s[i] \in UserOutputs
    BY <1>1
  <2> QED BY <1>1, <2>1, SubSeqProperties
<1>3. /\ b \in Seq(UserOutputs) /\ Len(b) = Len(s) - k
      /\ \A i \in 1 .. Len(s) - k : b[i] = s[k + i]
  <2>1. k + 1 \in Int /\ Len(s) \in Int /\ \A i \in k + 1 .. Len(s) : s[i] \in UserOutputs
    BY <1>1
  <2>2. /\ b \in Seq(UserOutputs)
        /\ Len(b) = IF k + 1 <= Len(s) THEN Len(s) - (k + 1) + 1 ELSE 0
        /\ \A i \in 1 .. Len(s) - (k + 1) + 1 : b[i] = s[k + 1 + i - 1]
    BY <2>1, SubSeqProperties
  <2> QED BY <1>1, <2>2
<1> HIDE DEF a, b, e
<1>4. <<e>> \in Seq(UserOutputs) /\ Len(<<e>>) = 1 /\ <<e>>[1] = e
  BY <1>1
<1> DEFINE t == a \o (<<e>> \o b)
<1>5. /\ <<e>> \o b \in Seq(UserOutputs) /\ Len(<<e>> \o b) = 1 + Len(b)
      /\ (<<e>> \o b)[1] = e /\ \A i \in 1 .. Len(b) : (<<e>> \o b)[1 + i] = b[i]
  BY <1>3, <1>4
<1>6. s = t
  <2>1. /\ t \in Seq(UserOutputs) /\ Len(t) = Len(a) + (1 + Len(b))
        /\ \A i \in 1 .. Len(a) : t[i] = a[i]
        /\ \A i \in 1 .. 1 + Len(b) : t[Len(a) + i] = (<<e>> \o b)[i]
    <3> DEFINE c == <<e>> \o b
    <3>1. c \in Seq(UserOutputs) /\ Len(c) = 1 + Len(b) /\ a \in Seq(UserOutputs)
      BY <1>2, <1>5
    <3> HIDE DEF c
    <3>2. a \o c \in Seq(UserOutputs) /\ Len(a \o c) = Len(a) + Len(c)
      BY <3>1
    <3>3. \A i \in 1 .. Len(a) : (a \o c)[i] = a[i]
      BY <3>1
    <3>4. \A i \in 1 .. Len(c) : (a \o c)[Len(a) + i] = c[i]
      BY <3>1
    <3> QED BY <3>1, <3>2, <3>3, <3>4 DEF c
  <2> HIDE DEF t
  <2>2. Len(t) = Len(s)
    BY <1>1, <1>2, <1>3, <2>1
  <2>3. ASSUME NEW i \in 1 .. Len(s) PROVE s[i] = t[i]
    <3>1. CASE i <= k - 1
      BY <1>1, <1>2, <2>1, <3>1
    <3>2. CASE i = k
      <4>1. t[Len(a) + 1] = (<<e>> \o b)[1] /\ Len(a) + 1 = k
        <5>1. 1 \in 1 .. 1 + Len(b) /\ Len(a) + 1 = k
          BY <1>1, <1>2, <1>3
        <5> QED BY <2>1, <5>1
      <4> QED BY <1>5, <3>2, <4>1 DEF e
    <3>3. CASE i > k
      <4> DEFINE d == i - k
      <4>1. d \in 1 .. Len(b) /\ 1 + d \in 1 .. 1 + Len(b) /\ Len(a) + (1 + d) = i /\ k + d = i /\ d \in 1 .. Len(s) - k
        BY <1>1, <1>2, <1>3, <3>3
      <4> HIDE DEF d
      <4>2. t[Len(a) + (1 + d)] = (<<e>> \o b)[1 + d]
        BY <2>1, <4>1
      <4> QED BY <1>3, <1>5, <4>1, <4>2
    <3> QED BY <1>1, <3>1, <3>2, <3>3
  <2> QED BY <2>1, <2>2, <2>3, SeqEqual
<1>7. OutputsTo(r, a) = <<>>
  <2>1. \A i \in 1 .. Len(a) : a[i].of # r
    <3> SUFFICES ASSUME NEW i \in 1 .. Len(a), a[i].of = r PROVE FALSE
      OBVIOUS
    <3>1. i \in 1 .. Len(s) /\ a[i] = s[i] /\ i # k
      BY <1>1, <1>2
    <3> QED BY <3>1
  <2> QED BY <1>2, <2>1, NoneOf
<1>8. OutputsTo(r, b) = <<>>
  <2>1. \A i \in 1 .. Len(b) : b[i].of # r
    <3> SUFFICES ASSUME NEW i \in 1 .. Len(b), b[i].of = r PROVE FALSE
      OBVIOUS
    <3>1. k + i \in 1 .. Len(s) /\ b[i] = s[k + i] /\ k + i # k
      BY <1>1, <1>3
    <3> QED BY <3>1
  <2> QED BY <1>3, <2>1, NoneOf
<1>9. OutputsTo(r, <<e>>) = <<e.output>>
  BY <1>1, UserOutputsTo DEF e
<1>10. /\ OutputsTo(r, t) = OutputsTo(r, a) \o OutputsTo(r, <<e>> \o b)
       /\ OutputsTo(r, <<e>> \o b) = OutputsTo(r, <<e>>) \o OutputsTo(r, b)
  BY <1>2, <1>3, <1>4, <1>5, UserOutputsTo
<1>11. <<>> \o (<<e.output>> \o <<>>) = <<e.output>>
  OBVIOUS
<1> HIDE DEF t
<1> QED BY <1>6, <1>7, <1>8, <1>9, <1>10, <1>11 DEF e

\* The outputs step() returns, in any order.
LEMMA StepOutputsIs ==
  ASSUME NEW batch, NEW M, Emitted(batch, M) \subseteq Requests,
         \A r \in Emitted(batch, M) : OutputsFor(batch, M)[r] \in Outs,
         NEW s \in StepOutputs(batch, M)
  PROVE  /\ s \in Seq(UserOutputs)
         /\ \A i \in 1 .. Len(s) : /\ s[i].of \in Emitted(batch, M)
                                   /\ s[i].output = OutputsFor(batch, M)[s[i].of]
         /\ \A r : OutputsTo(r, s) = IF r \in Emitted(batch, M) THEN <<OutputsFor(batch, M)[r]>>
                                     ELSE <<>>
<1> DEFINE E == Emitted(batch, M)
           outs == OutputsFor(batch, M)
<1>1. DOMAIN outs = E
  BY DEF OutputsFor
<1>2. PICK order \in SetToSeqs(E) : s = [i \in DOMAIN order |-> [of |-> order[i], output |-> outs[order[i]]]]
  BY <1>1 DEF StepOutputs
<1>3. IsFiniteSet(E)
  <2>1. E \in SUBSET Requests
    OBVIOUS
  <2> HIDE DEF E
  <2> QED BY <2>1, SyncAssumption, FS_Subset
<1> HIDE DEF E, outs
<1>4. /\ DOMAIN order = 1 .. Cardinality(E) /\ Cardinality(E) \in Nat
      /\ order \in [1 .. Cardinality(E) -> E]
      /\ \A i, j \in DOMAIN order : order[i] = order[j] => i = j
      /\ \A x \in E : \E i \in DOMAIN order : order[i] = x
  BY <1>3, OrderIs
<1>5. \A i \in DOMAIN order : order[i] \in E /\ s[i].of = order[i] /\ s[i].output = outs[order[i]]
                              /\ s[i] \in UserOutputs
  BY <1>2, <1>4 DEF E, outs, UserOutputs
<1>6. s \in Seq(UserOutputs) /\ Len(s) = Cardinality(E)
  <2>1. s \in [1 .. Cardinality(E) -> UserOutputs]
    BY <1>2, <1>4, <1>5
  <2> QED BY <1>4, <2>1, IsSeq
<1>7. ASSUME NEW r, r \in E PROVE OutputsTo(r, s) = <<outs[r]>>
  <2>1. PICK k \in DOMAIN order : order[k] = r
    BY <1>4, <1>7
  <2>2. \A i \in 1 .. Len(s) : s[i].of = r => i = k
    BY <1>4, <1>5, <1>6, <2>1
  <2>3. k \in 1 .. Len(s) /\ s[k].of = r /\ s[k].output = outs[r]
    BY <1>4, <1>5, <1>6, <2>1
  <2> QED BY <1>6, <2>2, <2>3, OneOf, SMTT(20)
<1>8. ASSUME NEW r, r \notin E PROVE OutputsTo(r, s) = <<>>
  <2>1. \A i \in 1 .. Len(s) : s[i].of # r
    BY <1>4, <1>5, <1>6, <1>8
  <2> QED BY <1>6, <2>1, NoneOf
<1>9. \A i \in 1 .. Len(s) : s[i].of \in E /\ s[i].output = outs[s[i].of]
  BY <1>4, <1>5, <1>6
<1> QED BY <1>6, <1>7, <1>8, <1>9 DEF E, outs

\* How a batch changes the requests it knows, and what it makes of them for the caller.
ProcessedAs(batch, M) ==
  /\ DOMAIN Processed(batch, M) = Registered
  /\ Processed(batch, M) = [r \in Registered |-> Processed(batch, M)[r]]
  /\ \A r \in Registered : Processed(batch, M)[r] \in RequestStates
  /\ \A r \in Registered \ Known(batch) : Processed(batch, M)[r] = requests[r]
  /\ Known(batch) = DOMAIN batch \cap Registered
  /\ Finished(batch, M) \subseteq Known(batch)
  /\ Emitted(batch, M) = {r \in Known(batch) : output_kind[r] = "FINAL_ONLY" => r \in Finished(batch, M)}
  /\ \A r \in Known(batch) :
       /\ Processed(batch, M)[r].token_ids = requests[r].token_ids \o batch[r].tokens
       /\ r \in Finished(batch, M) <=> Processed(batch, M)[r].reason # None
       /\ requests[r].reason = None =>
            Processed(batch, M)[r].reason = IF r \in M THEN "stop" ELSE batch[r].reason
       /\ Processed(batch, M)[r].sent =
            IF r \notin Finished(batch, M) /\ output_kind[r] # "FINAL_ONLY"
            THEN Len(Processed(batch, M)[r].token_ids) ELSE requests[r].sent
  /\ \A r \in Emitted(batch, M) :
       /\ OutputsFor(batch, M)[r] \in Outs
       /\ OutputsFor(batch, M)[r].reason = Processed(batch, M)[r].reason
       /\ OutputsFor(batch, M)[r].tokens =
            IF output_kind[r] = "DELTA"
            THEN SubSeq(Processed(batch, M)[r].token_ids, requests[r].sent + 1,
                        Len(Processed(batch, M)[r].token_ids))
            ELSE Processed(batch, M)[r].token_ids

LEMMA ProcessedIs ==
  ASSUME CallTypes, NEW batch, NEW M, DOMAIN batch \subseteq Requests,
         \A r \in DOMAIN batch : batch[r] \in EngineOutputs, M \subseteq Known(batch)
  PROVE  ProcessedAs(batch, M)
<1> DEFINE done == Processed(batch, M)
           outs == OutputsFor(batch, M)
           G(r) == Grown(batch, M, r)
           Reason(r) == IF r \in M THEN "stop" ELSE IF batch[r].reason # None THEN batch[r].reason
                        ELSE requests[r].reason
<1>0. Registered \subseteq Requests /\ \A r \in Registered : requests[r] \in RequestStates
  BY DEF CallTypes
<1>1. Known(batch) = DOMAIN batch \cap Registered
  BY DEF Known
<1>2. ASSUME NEW r \in Known(batch)
      PROVE  /\ G(r) \in RequestStates
             /\ G(r).token_ids = requests[r].token_ids \o batch[r].tokens
             /\ G(r).reason = Reason(r) /\ G(r).sent = requests[r].sent
             /\ G(r) = [token_ids |-> G(r).token_ids, sent |-> G(r).sent, reason |-> G(r).reason]
  <2>1. requests[r] \in RequestStates /\ batch[r] \in EngineOutputs
    BY <1>0, <1>1
  <2>2. requests[r].token_ids \o batch[r].tokens \in Seq(Nat)
    BY <2>1, ConcatProperties DEF RequestStates, EngineOutputs
  <2>3. Reason(r) \in Reasons
    BY <2>1 DEF EngineOutputs, RequestStates, Reasons
  <2>4. requests[r].sent \in Nat
    BY <2>1 DEF RequestStates
  <2> QED BY <2>2, <2>3, <2>4 DEF Grown, RequestStates
<1>3. \A r \in Known(batch) : r \in Finished(batch, M) <=> G(r).reason # None
  BY DEF Finished
<1>4. Finished(batch, M) \subseteq Known(batch)
  BY DEF Finished
<1>5. Emitted(batch, M) = {r \in Known(batch) : output_kind[r] = "FINAL_ONLY" => r \in Finished(batch, M)}
  BY DEF Emitted
<1>6. \A r \in Known(batch) :
        done[r] = IF r \in Emitted(batch, M) \ Finished(batch, M)
                  THEN [G(r) EXCEPT !.sent = Len(G(r).token_ids)] ELSE G(r)
  BY <1>1 DEF Processed
<1>7. \A r \in Registered \ Known(batch) : done[r] = requests[r]
  BY DEF Processed
<1>8. DOMAIN done = Registered /\ done = [r \in Registered |-> done[r]]
  BY DEF Processed
<1>9. \A r \in Emitted(batch, M) : outs[r] = MakeRequestOutput(r, G(r))
  BY DEF OutputsFor
<1> HIDE DEF G, done, outs
<1>10. ASSUME NEW r \in Known(batch)
       PROVE  /\ done[r] \in RequestStates
              /\ done[r].token_ids = G(r).token_ids
              /\ done[r].reason = G(r).reason
              /\ done[r].sent =
                   IF r \notin Finished(batch, M) /\ output_kind[r] # "FINAL_ONLY"
                   THEN Len(G(r).token_ids) ELSE requests[r].sent
  <2>1. Len(G(r).token_ids) \in Nat
    BY <1>2 DEF RequestStates
  <2>2. CASE r \in Emitted(batch, M) \ Finished(batch, M)
    <3>1. output_kind[r] # "FINAL_ONLY" /\ r \notin Finished(batch, M)
      BY <1>5, <2>2
    <3>2. done[r] = [G(r) EXCEPT !.sent = Len(G(r).token_ids)]
      BY <1>6, <2>2
    <3> QED BY <1>2, <2>1, <3>1, <3>2 DEF RequestStates
  <2>3. CASE r \notin Emitted(batch, M) \ Finished(batch, M)
    <3>1. ~(r \notin Finished(batch, M) /\ output_kind[r] # "FINAL_ONLY")
      BY <1>5, <2>3
    <3>2. done[r] = G(r)
      BY <1>6, <2>3
    <3> QED BY <1>2, <3>1, <3>2
  <2> QED BY <2>2, <2>3
<1>11. ASSUME NEW r \in Emitted(batch, M)
       PROVE  /\ outs[r] \in Outs /\ outs[r].reason = done[r].reason
              /\ outs[r].tokens =
                   IF output_kind[r] = "DELTA"
                   THEN SubSeq(done[r].token_ids, requests[r].sent + 1, Len(done[r].token_ids))
                   ELSE done[r].token_ids
  <2>1. r \in Known(batch)
    BY <1>5
  <2>2. G(r).token_ids \in Seq(Nat) /\ G(r).sent \in Nat /\ G(r).reason \in Reasons /\ G(r).sent = requests[r].sent
    BY <1>2, <2>1 DEF RequestStates
  <2> DEFINE w == SubSeq(G(r).token_ids, G(r).sent + 1, Len(G(r).token_ids))
  <2>3. w \in Seq(Nat)
    <3>1. G(r).sent + 1 \in Int /\ Len(G(r).token_ids) \in Int
      BY <2>2
    <3>2. \A i \in G(r).sent + 1 .. Len(G(r).token_ids) : G(r).token_ids[i] \in Nat
      BY <2>2
    <3> QED BY <3>1, <3>2, SubSeqProperties
  <2>4. outs[r] = [kind |-> "output", tokens |-> IF output_kind[r] = "DELTA" THEN w ELSE G(r).token_ids,
                   reason |-> G(r).reason]
    BY <1>9 DEF MakeRequestOutput, OutputOf
  <2>5. outs[r] \in Outs
    BY <2>2, <2>3, <2>4 DEF Outs
  <2> QED BY <1>10, <2>1, <2>2, <2>4, <2>5
<1>12. \A r \in Registered : done[r] \in RequestStates
  BY <1>0, <1>7, <1>10
<1>13. ASSUME NEW r \in Known(batch)
       PROVE  /\ done[r].token_ids = requests[r].token_ids \o batch[r].tokens
              /\ r \in Finished(batch, M) <=> done[r].reason # None
              /\ requests[r].reason = None =>
                   done[r].reason = IF r \in M THEN "stop" ELSE batch[r].reason
              /\ done[r].sent =
                   IF r \notin Finished(batch, M) /\ output_kind[r] # "FINAL_ONLY"
                   THEN Len(done[r].token_ids) ELSE requests[r].sent
  BY <1>2, <1>3, <1>10
<1> QED BY <1>1, <1>4, <1>5, <1>7, <1>8, <1>11, <1>12, <1>13 DEF done, outs, ProcessedAs

\* The frame that step() takes, whatever comes of it.
LEMMA StepTravels ==
  ASSUME TravelTypes, Transport, given' = given, call' = call, thread' # "adding",
         outputs_queue # <<>>, outputs_queue' = Tail(outputs_queue),
         socket' = socket, produced' = produced, running' = running,
         \/ to_engine' = to_engine
         \/ \E ids \in SUBSET Requests : to_engine' = Append(to_engine, Message("ABORT", ids))
  PROVE  /\ TravelTypes' /\ Transport'
         /\ Head(outputs_queue) \in Items
         /\ \A r : /\ Coming(r) = Part(r, Head(outputs_queue)) \o Coming(r)'
                   /\ Coming(r)' \in Seq(EngineOutputs)
                   /\ Going(r)' = Going(r)
<1>1. /\ to_engine \in Seq(Messages) /\ running \subseteq Requests /\ produced \in [Requests -> Nat]
      /\ outputs_queue \in Seq(Items) /\ socket \in Seq(Items)
  BY DEF TravelTypes
<1>2. to_engine' \in Seq(Messages) /\ \A r : AddsIn(r, to_engine') = AddsIn(r, to_engine)
  <2>1. ASSUME NEW ids \in SUBSET Requests, to_engine' = Append(to_engine, Message("ABORT", ids)), NEW r
        PROVE  /\ to_engine' \in Seq(Messages)
               /\ AddsIn(r, to_engine') = AddsIn(r, to_engine)
    <3> DEFINE m == Message("ABORT", ids)
    <3>1. m \in Messages /\ m.type # "ADD"
      BY DEF Message, Messages
    <3> HIDE DEF m
    <3>2. PartAdd(r, m) = <<>>
      BY <3>1 DEF PartAdd
    <3>3. Append(to_engine, m) \in Seq(Messages) /\ AddsIn(r, Append(to_engine, m)) = AddsIn(r, to_engine)
      BY <1>1, <3>1, <3>2, AddsAppend
    <3> QED BY <2>1, <3>3 DEF m
  <2> QED BY <1>1, <2>1
<1>3. ASSUME NEW r
      PROVE  /\ Coming(r) = Part(r, Head(outputs_queue)) \o Coming(r)'
             /\ Coming(r)' \in Seq(EngineOutputs)
             /\ Going(r)' = Going(r)
  <2>1. /\ OutputsIn(r, outputs_queue \o socket) =
             Part(r, Head(outputs_queue)) \o OutputsIn(r, Tail(outputs_queue) \o socket)
        /\ OutputsIn(r, Tail(outputs_queue) \o socket) \in Seq(EngineOutputs)
    <3>1. outputs_queue \in Seq(Items) /\ socket \in Seq(Items) /\ outputs_queue # <<>>
      BY <1>1
    <3>2. Popped(r, outputs_queue, socket)
      BY ONLY <3>1, ComingPops
    <3> QED BY <3>2 DEF Popped
  <2>2. Coming(r)' = OutputsIn(r, Tail(outputs_queue) \o socket)
    BY DEF Coming
  <2>3. Going(r)' = Going(r)
    BY <1>2 DEF Going
  <2> QED BY <2>1, <2>2, <2>3 DEF Coming
<1>4. Tail(outputs_queue) \in Seq(Items) /\ Head(outputs_queue) \in Items
  BY <1>1, Pops
<1>5. TravelTypes'
  BY <1>1, <1>2, <1>4 DEF TravelTypes
<1>6. ASSUME NEW r \in Requests PROVE Travels(r)'
  <2>1. Travels(r)
    BY DEF Transport
  <2>2. ToCome(r)' => ToCome(r)
    BY ToComeFewer
  <2>3. /\ Coming(r) = Coming(r)'
        \/ \E e \in EngineOutputs : Coming(r) = <<e>> \o Coming(r)'
    <3> DEFINE h == Head(outputs_queue)
    <3>1. CASE r \in DOMAIN h.outputs
      <4>1. Part(r, h) = <<h.outputs[r]>> /\ h.outputs[r] \in EngineOutputs
        BY <1>4, <3>1, ItemKinds DEF Part
      <4> QED BY <1>3, <4>1
    <3>2. CASE r \notin DOMAIN h.outputs
      <4>1. Part(r, h) = <<>>
        BY <3>2 DEF Part
      <4>2. <<>> \o Coming(r)' = Coming(r)'
        BY <1>3, Nothing
      <4> QED BY <1>3, <4>1, <4>2
    <3> QED BY <3>1, <3>2
  <2> DEFINE c == Coming(r)'
  <2>4. c \in Seq(EngineOutputs)
    BY <1>3
  <2> HIDE DEF c
  <2>5. /\ EndsLast(Coming(r)) => EndsLast(c)
        /\ Endless(Coming(r)) => Endless(c)
        /\ Coming(r) = <<>> => c = <<>>
    <3>1. CASE Coming(r) = c
      BY <3>1
    <3>2. ASSUME NEW e \in EngineOutputs, Coming(r) = <<e>> \o c
          PROVE  /\ EndsLast(Coming(r)) => EndsLast(c)
                 /\ Endless(Coming(r)) => Endless(c)
                 /\ Coming(r) # <<>>
      <4>1. /\ EndsLast(<<e>> \o c) => EndsLast(c)
            /\ Endless(<<e>> \o c) => Endless(c)
        BY <2>4, EndsPop
      <4>2. <<e>> \o c # <<>>
        BY <2>4
      <4> QED BY <3>2, <4>1, <4>2
    <3> QED BY <2>3, <3>1, <3>2 DEF c
  <2>6. EndsLast(Coming(r))' = EndsLast(c) /\ Endless(Coming(r))' = Endless(c)
    BY DEF EndsLast, Endless, c
  <2> QED BY <1>2, <1>3, <2>1, <2>2, <2>5, <2>6 DEF Travels, c
<1> QED BY <1>3, <1>4, <1>5, <1>6 DEF Transport

\* The tokens of an output that was the next to come.
LEMMA TakenIs ==
  ASSUME NEW ids \in Seq(Nat), NEW b \in EngineOutputs, NEW c \in Seq(EngineOutputs), NEW n \in Nat,
         ids \o TokensIn(<<b>> \o c) = Numbers(n)
  PROVE  /\ ids \o b.tokens \in Seq(Nat)
         /\ (ids \o b.tokens) \o TokensIn(c) = Numbers(n)
         /\ ids \o b.tokens = Numbers(Len(ids \o b.tokens))
         /\ c = <<>> => ids \o b.tokens = Numbers(n)
<1> DEFINE t == b.tokens
           u == TokensIn(c)
           w == ids \o t
<1>1. TokensIn(<<b>> \o c) = t \o u /\ t \in Seq(Nat) /\ u \in Seq(Nat) /\ (c = <<>> => u = <<>>)
  <2>1. <<b>> \in Seq(EngineOutputs)
    BY Plain
  <2> QED BY <2>1, EngineTokens
<1> HIDE DEF t, u
<1>2. w \in Seq(Nat) /\ ids \o (t \o u) = w \o u
  <2>1. ids \o t \in Seq(Nat)
    BY <1>1, Plain
  <2>2. ids \o (t \o u) = (ids \o t) \o u
    <3>1. ids \in Seq(Nat) /\ t \in Seq(Nat) /\ u \in Seq(Nat)
      BY <1>1
    <3> HIDE DEF w
    <3> QED BY ONLY <3>1, NatsAssociate
  <2> QED BY <2>1, <2>2
<1> HIDE DEF w
<1>3. w \o u = Numbers(n)
  BY <1>1, <1>2
<1>4. w \o u = Numbers(Len(w \o u))
  BY <1>3, NumbersSeq
<1>5. w = Numbers(Len(w))
  BY <1>1, <1>2, <1>4, FirstNumbers
<1>6. c = <<>> => w = Numbers(n)
  <2>1. w \o <<>> = w
    BY <1>2, Nothing
  <2> QED BY <1>1, <1>3, <2>1
<1> QED BY <1>2, <1>3, <1>5, <1>6 DEF w, t, u

\* A batch that is processed: the finished are removed, the outputs are the loop's.
Delivers(batch, M) ==
  /\ given' = given /\ call' = call /\ results' = results /\ aborted' = aborted
  /\ produced' = produced
  /\ DOMAIN batch \subseteq Requests /\ \A r \in DOMAIN batch : batch[r] \in EngineOutputs
  /\ M \subseteq Known(batch)
  /\ requests' = Without(Processed(batch, M), Finished(batch, M))
  /\ step_outputs' \in StepOutputs(batch, M)
  /\ \A r \in Requests : /\ r \in DOMAIN batch => Coming(r) = <<batch[r]>> \o Coming(r)'
                         /\ r \notin DOMAIN batch => Coming(r) = Coming(r)'
                         /\ Coming(r)' \in Seq(EngineOutputs)
                         /\ Going(r)' = Going(r)

LEMMA DeliversRequests ==
  ASSUME CallTypes, NEW batch, NEW M, Delivers(batch, M)
  PROVE  /\ Registered' = Registered \ Finished(batch, M)
         /\ \A r \in Registered' : requests'[r] = Processed(batch, M)[r] /\ requests'[r] \in RequestStates
         /\ requests' = [r \in Registered' |-> requests'[r]]
<1> DEFINE done == Processed(batch, M)
           F == Finished(batch, M)
<1>1. requests' = Without(done, F)
  BY DEF Delivers
<1>2. DOMAIN done = Registered /\ \A r \in Registered : done[r] \in RequestStates
  <2>1. ProcessedAs(batch, M)
    BY ProcessedIs DEF Delivers
  <2> QED BY <2>1 DEF ProcessedAs
<1> HIDE DEF done, F
<1>3. /\ DOMAIN Without(done, F) = DOMAIN done \ F
      /\ \A x \in DOMAIN done \ F : Without(done, F)[x] = done[x]
      /\ Without(done, F) = [x \in DOMAIN Without(done, F) |-> Without(done, F)[x]]
  BY WithoutIs
<1>4. Registered' = DOMAIN requests'
  BY DEF Registered
<1> QED BY <1>1, <1>2, <1>3, <1>4 DEF done, F

\* What a request that the batch has something for gets of it.
Takes(batch, M, r) ==
  LET ids == requests[r].token_ids
      new == Processed(batch, M)[r].token_ids
      o == OutputsFor(batch, M)[r]
  IN /\ r \in Registered /\ batch[r] \in EngineOutputs
     /\ ids \in Seq(Nat) /\ batch[r].tokens \in Seq(Nat)
     /\ new = ids \o batch[r].tokens /\ new \in Seq(Nat)
     /\ new \o TokensIn(Coming(r)') = Numbers(produced[r])
     /\ new = Numbers(Len(new))
     /\ Coming(r)' = <<>> => new = Numbers(produced[r])
     /\ r \in Emitted(batch, M) =>
          /\ o \in Outs
          /\ o.tokens = IF output_kind[r] = "DELTA" THEN batch[r].tokens ELSE new
          /\ o.reason = IF r \in M THEN "stop" ELSE batch[r].reason
     /\ r \in Finished(batch, M) <=> (r \in M \/ batch[r].reason # None)

LEMMA DeliversTo ==
  ASSUME CallTypes, TravelTypes, NEW batch, NEW M, Delivers(batch, M), NEW r \in Known(batch), Holds(r)
  PROVE  Takes(batch, M, r)
<1> DEFINE ids == requests[r].token_ids
           new == Processed(batch, M)[r].token_ids
           o == OutputsFor(batch, M)[r]
           b == batch[r]
           c == Coming(r)'
<1>1. /\ DOMAIN batch \subseteq Requests /\ \A x \in DOMAIN batch : batch[x] \in EngineOutputs
      /\ M \subseteq Known(batch)
  BY DEF Delivers
<1>2. r \in DOMAIN batch /\ r \in Registered /\ r \in Requests /\ b \in EngineOutputs
  BY <1>1 DEF Known
<1>3. requests[r] \in RequestStates /\ requests[r].reason = None /\ ids \in Seq(Nat)
  BY <1>2 DEF CallTypes, Holds, RequestStates
<1>4. /\ new = ids \o b.tokens
      /\ r \in Finished(batch, M) <=> Processed(batch, M)[r].reason # None
      /\ Processed(batch, M)[r].reason = IF r \in M THEN "stop" ELSE b.reason
  <2>1. \A x \in Known(batch) :
          /\ Processed(batch, M)[x].token_ids = requests[x].token_ids \o batch[x].tokens
          /\ x \in Finished(batch, M) <=> Processed(batch, M)[x].reason # None
          /\ requests[x].reason = None =>
               Processed(batch, M)[x].reason = IF x \in M THEN "stop" ELSE batch[x].reason
    <3>1. ProcessedAs(batch, M)
      BY <1>1, ProcessedIs
    <3> HIDE DEF new, ids, b
    <3> QED BY <3>1 DEF ProcessedAs
  <2> QED BY <1>3, <2>1
<1>5. r \in Emitted(batch, M) =>
        /\ o \in Outs
        /\ o.reason = Processed(batch, M)[r].reason
        /\ o.tokens = IF output_kind[r] = "DELTA" THEN SubSeq(new, requests[r].sent + 1, Len(new))
                      ELSE new
  <2>1. \A x \in Emitted(batch, M) :
          /\ OutputsFor(batch, M)[x] \in Outs
          /\ OutputsFor(batch, M)[x].reason = Processed(batch, M)[x].reason
          /\ OutputsFor(batch, M)[x].tokens =
               IF output_kind[x] = "DELTA"
               THEN SubSeq(Processed(batch, M)[x].token_ids, requests[x].sent + 1,
                           Len(Processed(batch, M)[x].token_ids))
               ELSE Processed(batch, M)[x].token_ids
    <3>1. ProcessedAs(batch, M)
      BY <1>1, ProcessedIs
    <3> HIDE DEF new, ids, b, o
    <3> QED BY <3>1 DEF ProcessedAs
  <2> QED BY <2>1
<1>6. Coming(r) = <<b>> \o c /\ c \in Seq(EngineOutputs)
  BY <1>2 DEF Delivers
<1>7. ids \o TokensIn(<<b>> \o c) = Numbers(produced[r]) /\ produced[r] \in Nat
  BY <1>2, <1>6 DEF Holds, TravelTypes
<1>8. output_kind[r] = "DELTA" => requests[r].sent = Len(ids)
  BY DEF Holds
<1>9. b.tokens \in Seq(Nat) /\ "stop" # None
  BY <1>2, OutputAssumption DEF EngineOutputs
<1>10. TokensIn(Coming(r)') = TokensIn(c)
  OBVIOUS
<1> HIDE DEF ids, new, o, b, c
<1>11. /\ ids \o b.tokens \in Seq(Nat)
       /\ (ids \o b.tokens) \o TokensIn(c) = Numbers(produced[r])
       /\ ids \o b.tokens = Numbers(Len(ids \o b.tokens))
       /\ c = <<>> => ids \o b.tokens = Numbers(produced[r])
  BY <1>2, <1>3, <1>6, <1>7, TakenIs
<1>12. SubSeq(ids \o b.tokens, Len(ids) + 1, Len(ids \o b.tokens)) = b.tokens
  BY <1>3, <1>9, SentAndRest
<1>13. r \in Emitted(batch, M) =>
         /\ o \in Outs
         /\ o.tokens = IF output_kind[r] = "DELTA" THEN b.tokens ELSE new
         /\ o.reason = IF r \in M THEN "stop" ELSE b.reason
  BY <1>4, <1>5, <1>8, <1>12
<1>14. r \in Finished(batch, M) <=> (r \in M \/ b.reason # None)
  BY <1>4, <1>9
<1> QED BY <1>2, <1>3, <1>4, <1>9, <1>11, <1>13, <1>14 DEF ids, new, o, b, c, Takes

LEMMA DeliversHolds ==
  ASSUME CallTypes, TravelTypes, NEW batch, NEW M, Delivers(batch, M), NEW r \in Registered', Holds(r)
  PROVE  Holds(r)'
<1>1. /\ r \in Registered /\ r \notin Finished(batch, M) /\ requests'[r] = Processed(batch, M)[r]
  BY DeliversRequests
<1>2. ProcessedAs(batch, M)
  BY ProcessedIs DEF Delivers
<1>3. output_kind' = output_kind /\ produced' = produced /\ r \in Requests
  BY <1>1 DEF Delivers, output_kind, CallTypes
<1>4. CASE r \notin DOMAIN batch
  <2>1. r \in Registered \ Known(batch)
    BY <1>1, <1>4 DEF Known
  <2>2. Processed(batch, M)[r] = requests[r]
    BY <1>2, <2>1 DEF ProcessedAs
  <2>3. Coming(r)' = Coming(r)
    BY <1>3, <1>4 DEF Delivers
  <2> QED BY <1>1, <1>3, <2>2, <2>3 DEF Holds
<1>5. CASE r \in DOMAIN batch
  <2>1. r \in Known(batch)
    BY <1>1, <1>5 DEF Known
  <2>2. Processed(batch, M)[r].token_ids \o TokensIn(Coming(r)') = Numbers(produced[r])
    <3>1. Takes(batch, M, r)
      BY <2>1, DeliversTo
    <3> QED BY <3>1 DEF Takes
  <2>3. /\ Processed(batch, M)[r].reason = None
        /\ output_kind[r] # "FINAL_ONLY" =>
             Processed(batch, M)[r].sent = Len(Processed(batch, M)[r].token_ids)
    BY <1>1, <1>2, <2>1 DEF ProcessedAs
  <2>4. TokensIn(Coming(r))' = TokensIn(Coming(r)')
    BY DEF TokensIn
  <2> QED BY <1>1, <1>3, <2>2, <2>3, <2>4 DEF Holds
<1> QED BY <1>4, <1>5

\* What the loop comes to: for a request, its output in the batch.
LEMMA DeliversOutputs ==
  ASSUME CallTypes, TravelTypes, NEW batch, NEW M, Delivers(batch, M), Held
  PROVE  /\ step_outputs' \in Seq(Spent')
         /\ step_outputs' \in Seq(UserOutputs)
         /\ Rightful' = Rightful /\ Own' = Own /\ output_kind' = output_kind
         /\ \A r : OutputsTo(r, step_outputs') =
                     IF r \in Emitted(batch, M) THEN <<OutputsFor(batch, M)[r]>> ELSE <<>>
<1>1. Own' = Own /\ output_kind' = output_kind
  BY DEF Delivers, Own, Prompts, Current, output_kind
<1>2. Rightful' = Rightful
  BY <1>1 DEF Rightful
<1>3. ProcessedAs(batch, M)
  BY ProcessedIs DEF Delivers
<1>4. /\ Emitted(batch, M) \subseteq Known(batch) /\ Known(batch) \subseteq Registered
      /\ Emitted(batch, M) \subseteq Requests
      /\ \A r \in Emitted(batch, M) : OutputsFor(batch, M)[r] \in Outs
  BY <1>3 DEF ProcessedAs, CallTypes
<1> DEFINE s == step_outputs'
<1>5. s \in StepOutputs(batch, M)
  BY DEF Delivers
<1> HIDE DEF s
<1>6. /\ s \in Seq(UserOutputs)
      /\ \A i \in 1 .. Len(s) : /\ s[i].of \in Emitted(batch, M)
                                /\ s[i].output = OutputsFor(batch, M)[s[i].of]
      /\ \A r : OutputsTo(r, s) = IF r \in Emitted(batch, M) THEN <<OutputsFor(batch, M)[r]>>
                                  ELSE <<>>
  BY <1>4, <1>5, StepOutputsIs
<1>7. ASSUME NEW i \in 1 .. Len(s) PROVE s[i] \in Spent'
  <2> DEFINE r == s[i].of
             o == s[i].output
  <2>1. r \in Known(batch) /\ r \in Emitted(batch, M) /\ r \in Registered /\ r \in Own
        /\ s[i] \in UserOutputs /\ o = OutputsFor(batch, M)[r]
    BY <1>4, <1>6 DEF Held
  <2> HIDE DEF r, o
  <2>2. ASSUME NEW q \in Emitted(batch, M)
        PROVE  /\ output_kind[q] # "DELTA" =>
                    OutputsFor(batch, M)[q].tokens = Processed(batch, M)[q].token_ids
               /\ Processed(batch, M)[q].token_ids = Numbers(Len(Processed(batch, M)[q].token_ids))
               /\ OutputsFor(batch, M)[q].reason = IF q \in M THEN "stop" ELSE batch[q].reason
               /\ q \in Finished(batch, M) <=> (q \in M \/ batch[q].reason # None)
    <3>1. q \in Known(batch) /\ Holds(q)
      BY <1>4, <2>2 DEF Held
    <3>2. Takes(batch, M, q)
      BY <3>1, DeliversTo
    <3> QED BY <2>2, <3>2 DEF Takes
  <2>3. /\ output_kind[r] # "DELTA" => o.tokens = Processed(batch, M)[r].token_ids
        /\ Processed(batch, M)[r].token_ids = Numbers(Len(Processed(batch, M)[r].token_ids))
        /\ o.reason = IF r \in M THEN "stop" ELSE batch[r].reason
        /\ r \in Finished(batch, M) <=> (r \in M \/ batch[r].reason # None)
    BY <2>1, <2>2
  <2>4. output_kind[r] # "DELTA" => o.tokens = Numbers(Len(o.tokens))
    BY <2>3
  <2>5. o.reason # None => r \notin Registered'
    <3>1. Registered' = Registered \ Finished(batch, M)
      BY DeliversRequests
    <3> QED BY <2>3, <3>1
  <2>6. s[i] \in Rightful
    BY <2>1, <2>4 DEF Rightful, r, o
  <2> QED BY <1>2, <2>5, <2>6 DEF Spent, r, o
<1>8. s \in Seq(Spent')
  <2> DEFINE S == Spent'
  <2>1. \A i \in 1 .. Len(s) : s[i] \in S
    BY <1>7
  <2>2. DOMAIN s = 1 .. Len(s) /\ Len(s) \in Nat
    BY <1>6
  <2>3. s = [i \in 1 .. Len(s) |-> s[i]]
    BY <1>6
  <2> HIDE DEF S
  <2>4. s \in [1 .. Len(s) -> S]
    BY <2>1, <2>3
  <2>5. s \in Seq(S)
    BY <2>2, <2>4, IsSeq
  <2> QED BY <2>5 DEF S
<1> QED BY <1>1, <1>2, <1>6, <1>8 DEF s

\* What r has got after that.
LEMMA DeliversGot ==
  ASSUME CallTypes, TravelTypes, NEW batch, NEW M, Delivers(batch, M), Held, Delivered,
         thread = "loop", thread' = "handle", step_outputs = <<>>, NEW r
  PROVE  /\ Got(r) \in Seq(Outs)
         /\ r \notin Emitted(batch, M) => Got(r)' = Got(r)
         /\ r \in Emitted(batch, M) => Got(r)' = Got(r) \o <<OutputsFor(batch, M)[r]>>
<1>1. Pending = <<>> /\ Pending' = step_outputs' /\ results' = results
  BY DEF Pending, Delivers
<1>2. results \in Seq(UserOutputs)
  BY SpentIs DEF Delivered
<1>3. /\ step_outputs' \in Seq(UserOutputs)
      /\ OutputsTo(r, step_outputs') =
           IF r \in Emitted(batch, M) THEN <<OutputsFor(batch, M)[r]>> ELSE <<>>
  BY DeliversOutputs
<1>4. results \o <<>> = results
  BY <1>2, Nothing
<1>5. Got(r) = OutputsTo(r, results) /\ Got(r) \in Seq(Outs)
  BY <1>1, <1>2, <1>4, UserOutputsTo DEF Got
<1>6. Got(r)' = OutputsTo(r, results \o step_outputs')
  BY <1>1 DEF Got, OutputsTo
<1>7. OutputsTo(r, results \o step_outputs') = OutputsTo(r, results) \o OutputsTo(r, step_outputs')
  BY <1>2, <1>3, UserOutputsTo
<1>8. Got(r) \o <<>> = Got(r)
  BY <1>5, Nothing
<1> QED BY <1>3, <1>5, <1>6, <1>7, <1>8

\* And that it is accounted for, as it was.
LEMMA DeliversAccounts ==
  ASSUME CallTypes, TravelTypes, NEW batch, NEW M, Delivers(batch, M), Held, Delivered,
         thread = "loop", thread' = "handle", step_outputs = <<>>,
         NEW r \in Own, Travels(r), Accounts(r)
  PROVE  /\ Accounts(r)'
         /\ output_kind[r] = "DELTA" => TokensIn(Got(r)') = Numbers(Len(TokensIn(Got(r)')))
<1> DEFINE G == Got(r)
           H == Got(r)'
           R == Registered
           K == Registered'
           E == Emitted(batch, M)
           F == Finished(batch, M)
           o == OutputsFor(batch, M)[r]
<1>0. output_kind' = output_kind /\ aborted' = aborted /\ produced' = produced /\ r \in Requests
  BY Calls DEF Delivers, output_kind
<1>1. K = R \ F /\ \A q \in K : requests'[q] = Processed(batch, M)[q]
  BY DeliversRequests
<1>2. /\ r \in R => /\ Endless(G)
                    /\ output_kind[r] = "DELTA" => TokensIn(G) = requests[r].token_ids
      /\ r \in R \cup aborted \/ ~Endless(G)
      /\ EndsLast(G)
      /\ output_kind[r] = "FINAL_ONLY" => \A i \in DOMAIN G : G[i].reason # None
      /\ \A i \in DOMAIN G : G[i].reason = "length" =>
           /\ ~Going(r)
           /\ (IF output_kind[r] = "DELTA" THEN TokensIn(G) ELSE G[i].tokens) = Numbers(produced[r])
  BY DEF Accounts
<1>3. /\ G \in Seq(Outs)
      /\ r \notin E => H = G
      /\ r \in E => H = G \o <<o>>
  BY DeliversGot
<1>4. ProcessedAs(batch, M)
  BY ProcessedIs DEF Delivers
<1>5. /\ Known(batch) = DOMAIN batch \cap R /\ F \subseteq Known(batch)
      /\ E = {q \in Known(batch) : output_kind[q] = "FINAL_ONLY" => q \in F}
      /\ \A q \in R \ Known(batch) : Processed(batch, M)[q] = requests[q]
  BY <1>4 DEF ProcessedAs
<1>6. Going(r)' = Going(r)
  BY <1>0 DEF Delivers
<1>7. output_kind[r] = "DELTA" => TokensIn(G) = Numbers(Len(TokensIn(G)))
  BY DEF Delivered
<1>8. /\ Endless(G)' = Endless(H) /\ EndsLast(G)' = EndsLast(H) /\ TokensIn(G)' = TokensIn(H)
      /\ G' = H
  BY DEF Endless, EndsLast, TokensIn
<1> DEFINE Good ==
      /\ r \in K => /\ Endless(H)
                    /\ output_kind[r] = "DELTA" => TokensIn(H) = requests'[r].token_ids
      /\ r \in K \cup aborted \/ ~Endless(H)
      /\ EndsLast(H)
      /\ output_kind[r] = "FINAL_ONLY" => \A i \in DOMAIN H : H[i].reason # None
      /\ \A i \in DOMAIN H : H[i].reason = "length" =>
           /\ ~Going(r)
           /\ (IF output_kind[r] = "DELTA" THEN TokensIn(H) ELSE H[i].tokens) = Numbers(produced[r])
      /\ output_kind[r] = "DELTA" => TokensIn(H) = Numbers(Len(TokensIn(H)))
<1>9. ASSUME r \notin E PROVE Good
  <2>1. r \notin F /\ (r \in K <=> r \in R)
    BY <1>1, <1>5, <1>9
  <2>2. r \in K /\ output_kind[r] = "DELTA" => requests'[r] = requests[r]
    BY <1>1, <1>5, <1>9, <2>1
  <2>3. H = G
    BY <1>3, <1>9
  <2>4. r \in K => Endless(H) /\ (output_kind[r] = "DELTA" => TokensIn(H) = requests'[r].token_ids)
    <3> HIDE DEF G, H, R, K, E, F, o
    <3> QED BY <1>2, <2>1, <2>2, <2>3
  <2> HIDE DEF G, H, R, K, E, F, o
  <2> QED BY <1>2, <1>7, <2>1, <2>3, <2>4
<1>10. ASSUME r \in E PROVE Good
  <2>1. r \in Known(batch) /\ r \in R /\ Holds(r) /\ r \in DOMAIN batch
    BY <1>5, <1>10 DEF Held
  <2>2. Takes(batch, M, r)
    BY <2>1, DeliversTo
  <2> DEFINE new == Processed(batch, M)[r].token_ids
             ids == requests[r].token_ids
             b == batch[r]
             c == Coming(r)'
  <2>3. /\ o \in Outs /\ o.tokens = (IF output_kind[r] = "DELTA" THEN b.tokens ELSE new)
        /\ o.reason = (IF r \in M THEN "stop" ELSE b.reason)
        /\ r \in F <=> (r \in M \/ b.reason # None)
        /\ new = ids \o b.tokens /\ new = Numbers(Len(new))
        /\ c = <<>> => new = Numbers(produced[r])
        /\ b \in EngineOutputs
    BY <1>10, <2>2 DEF Takes
  <2>4. Coming(r) = <<b>> \o c /\ c \in Seq(EngineOutputs)
    BY <1>0, <2>1 DEF Delivers
  <2>5. EndsLast(Coming(r)) /\ (Going(r) => Endless(Coming(r)))
    BY DEF Travels
  <2>6. "stop" # None /\ "length" # None /\ "stop" # "length"
    BY OutputAssumption
  <2> HIDE DEF G, H, R, K, E, F, o, new, ids, b, c
  <2>7. Endless(G) /\ (output_kind[r] = "DELTA" => TokensIn(G) = ids)
    BY <1>2, <2>1 DEF ids
  <2>8. H = G \o <<o>> /\ (o.reason # None <=> r \in F)
    BY <1>3, <1>10, <2>3, <2>6
  <2>9. /\ Endless(G) => EndsLast(G \o <<o>>)
        /\ Endless(G \o <<o>>) <=> Endless(G) /\ o.reason = None
        /\ \A i \in DOMAIN (G \o <<o>>) :
             (i \in DOMAIN G /\ (G \o <<o>>)[i] = G[i]) \/ (G \o <<o>>)[i] = o
    BY <1>3, <2>3, EndsAppend
  <2>10. EndsLast(H) /\ (Endless(H) <=> o.reason = None)
         /\ \A i \in DOMAIN H : (i \in DOMAIN G /\ H[i] = G[i] /\ H[i].reason = None) \/ H[i] = o
    BY <2>7, <2>8, <2>9 DEF Endless
  <2>11. output_kind[r] = "DELTA" => TokensIn(H) = new
    <3>1. TokensIn(G \o <<o>>) = TokensIn(G) \o TokensIn(<<o>>) /\ TokensIn(<<o>>) = o.tokens
      <4>1. <<o>> \in Seq(Outs)
        BY <2>3, Plain
      <4> QED BY <1>3, <2>3, <4>1, UserTokens
    <3> QED BY <2>3, <2>7, <2>8, <3>1
  <2>12. r \in K => o.reason = None /\ requests'[r].token_ids = new
    BY <1>1, <2>8 DEF new
  <2>13. r \in K \/ o.reason # None
    BY <1>1, <2>1, <2>8
  <2>14. output_kind[r] = "FINAL_ONLY" => \A i \in DOMAIN H : H[i].reason # None
    <3> SUFFICES ASSUME output_kind[r] = "FINAL_ONLY", NEW i \in DOMAIN H PROVE H[i].reason # None
      OBVIOUS
    <3>1. r \in F
      BY <1>5, <1>10
    <3>2. o.reason # None
      BY <2>8, <3>1
    <3>3. H[i] = o \/ (i \in DOMAIN G /\ G[i].reason = None)
      BY <2>10
    <3> QED BY <1>2, <3>2, <3>3
  <2>15. o.reason = "length" => ~Going(r) /\ new = Numbers(produced[r])
    <3> SUFFICES ASSUME o.reason = "length" PROVE ~Going(r) /\ new = Numbers(produced[r])
      OBVIOUS
    <3>1. b.reason # None
      BY <2>3, <2>6
    <3>2. /\ EndsLast(<<b>> \o c) => EndsLast(c) /\ (b.reason # None => c = <<>>)
          /\ Endless(<<b>> \o c) => Endless(c) /\ b.reason = None
      BY <2>3, <2>4, EndsPop
    <3> QED BY <2>3, <2>4, <2>5, <3>1, <3>2
  <2>16. ASSUME NEW i \in DOMAIN H, H[i].reason = "length"
         PROVE  /\ ~Going(r)
                /\ (IF output_kind[r] = "DELTA" THEN TokensIn(H) ELSE H[i].tokens) = Numbers(produced[r])
    <3>1. H[i] = o
      BY <2>6, <2>10, <2>16
    <3>2. output_kind[r] # "DELTA" => H[i].tokens = new
      BY <2>3, <3>1
    <3> QED BY <2>11, <2>15, <2>16, <3>1, <3>2
  <2>17. output_kind[r] = "DELTA" => TokensIn(H) = Numbers(Len(TokensIn(H)))
    BY <2>3, <2>11
  <2>18. r \in K => Endless(H) /\ (output_kind[r] = "DELTA" => TokensIn(H) = requests'[r].token_ids)
    BY <2>10, <2>11, <2>12
  <2> QED BY <2>10, <2>13, <2>14, <2>16, <2>17, <2>18
<1>11. Good
  BY <1>9, <1>10
<1> HIDE DEF G, H, R, E, F, o
<1>12. /\ r \in K => /\ Endless(G)'
                     /\ output_kind'[r] = "DELTA" => TokensIn(G)' = requests'[r].token_ids
       /\ r \in K \cup aborted' \/ thread' = "adding" \/ ~Endless(G)'
       /\ EndsLast(G)'
  BY <1>0, <1>8, <1>11
<1>13. output_kind'[r] = "FINAL_ONLY" => \A i \in DOMAIN G' : G'[i].reason # None
  BY <1>0, <1>8, <1>11
<1>14. \A i \in DOMAIN G' : G'[i].reason = "length" =>
         /\ ~Going(r)'
         /\ (IF output_kind'[r] = "DELTA" THEN TokensIn(G)' ELSE G'[i].tokens) = Numbers(produced'[r])
  BY <1>0, <1>6, <1>8, <1>11
<1>15. Accounts(r)'
  BY <1>12, <1>13, <1>14 DEF Accounts, G
<1>16. output_kind[r] = "DELTA" => TokensIn(Got(r)') = Numbers(Len(TokensIn(Got(r)')))
  BY <1>11 DEF H
<1> QED BY <1>15, <1>16
-----------------------------------------------------------------------------
(***************************************************************************)
(* Step preserves the invariant.                                           *)
(***************************************************************************)
\* An error is raised to the caller, who leaves requests behind.
LEMMA RaiseKeeps ==
  ASSUME SyncInv, TravelTypes', Transport', UNCHANGED <<given, call, added>>,
         NEW left, left # {}, Ends("raised", left), external_req_ids' = external_req_ids,
         \/ requests' = requests
         \/ /\ requests' = [r \in Registered |-> requests'[r]]
            /\ \A r \in Registered : requests'[r] \in RequestStates
  PROVE  SyncInv'
<1>1. CallTypes /\ Shape
  BY DEF SyncInv, SyncTypes
<1>2. Shape' /\ OutcomeKept /\ orphaned' = (orphaned \/ left # {})
  BY <1>1, EndsShape
<1>3. CallTypes'
  <2>1. CASE requests' = requests
    BY <1>1, <1>2, <2>1, SameTypes
  <2>2. CASE /\ requests' = [r \in Registered |-> requests'[r]]
             /\ \A r \in Registered : requests'[r] \in RequestStates
    <3>1. Registered' = Registered
      <4>1. DOMAIN requests' = Registered
        BY <2>2
      <4> QED BY <4>1 DEF Registered
    <3>2. external_of' = external_of
      BY DEF external_of
    <3> QED BY <1>1, <1>2, <2>2, <3>1, <3>2 DEF CallTypes, OutcomeKept
  <2> QED BY <2>1, <2>2
<1> QED BY <1>2, <1>3 DEF SyncInv, SyncTypes

\* The outputs go to the loop, or to one that drops them.
LEMMA DeliversKeeps ==
  ASSUME SyncInv, TravelTypes', Transport', NEW batch, NEW M, Delivers(batch, M),
         UNCHANGED <<added, outcome, orphaned>>,
         external_req_ids' = ReleasedIds(Finished(batch, M)),
         \/ thread = "loop" /\ thread' = "handle"
         \/ thread = "drain" /\ thread' = "discard"
  PROVE  SyncInv'
<1>1. CallTypes /\ TravelTypes /\ Shape /\ Transport
  BY DEF SyncInv, SyncTypes
<1>2. given' = given /\ call' = call /\ results' = results /\ aborted' = aborted
  BY DEF Delivers
<1>3. /\ thread \in InCall /\ thread' \in InCall /\ thread' \in {"handle", "discard"}
      /\ step_outputs = <<>> /\ call > 0 /\ outcome[call] = None
  BY <1>1 DEF Shape, InCall
<1>4. /\ Registered' = Registered \ Finished(batch, M)
      /\ \A r \in Registered' : requests'[r] \in RequestStates
      /\ requests' = [r \in Registered' |-> requests'[r]]
  BY <1>1, DeliversRequests
<1>5. CallTypes'
  <2>1. \A ext \in DOMAIN external_req_ids' :
          external_req_ids'[ext] \subseteq {r \in Requests : external_of[r] = ext}
    BY <1>1, ReleasedTypes
  <2>2. external_of' = external_of
    BY <1>2 DEF external_of
  <2> QED BY <1>1, <1>2, <1>4, <2>1, <2>2 DEF CallTypes
<1>6. Shape'
  BY <1>1, <1>2, <1>3 DEF Shape
<1>7. ASSUME ~orphaned' PROVE (Held /\ Delivered /\ Accounted)'
  <2>1. Held /\ Delivered /\ Accounted
    BY <1>7 DEF SyncInv
  <2>2. /\ step_outputs' \in Seq(Spent')
        /\ Rightful' = Rightful /\ Own' = Own /\ output_kind' = output_kind
    BY <1>1, <2>1, DeliversOutputs
  <2>3. Held'
    <3>1. ASSUME NEW r \in Registered' PROVE Holds(r)'
      <4>1. Holds(r)
        BY <1>4, <2>1 DEF Held
      <4> QED BY <1>1, <4>1, DeliversHolds
    <3>2. Registered' \subseteq Own'
      BY <1>4, <2>1, <2>2 DEF Held
    <3> QED BY <1>3, <3>1, <3>2 DEF Held
  <2>4. Own \subseteq Requests
    BY <1>1, Calls
  <2>5. /\ \A r \in Own : output_kind[r] = "DELTA" => TokensIn(Got(r)') = Numbers(Len(TokensIn(Got(r)')))
        /\ Accounted'
    <3>1. CASE thread = "loop" /\ thread' = "handle"
      <4>1. Delivering
        BY <3>1 DEF Delivering
      <4>2. ASSUME NEW r \in Own
            PROVE  /\ Accounts(r)'
                   /\ output_kind[r] = "DELTA" => TokensIn(Got(r)') = Numbers(Len(TokensIn(Got(r)')))
        <5>1. Accounts(r) /\ Travels(r)
          BY <1>1, <2>1, <2>4, <4>1 DEF Accounted, Transport
        <5> QED BY <1>1, <1>3, <2>1, <3>1, <5>1, DeliversAccounts
      <4> QED BY <2>2, <4>2 DEF Accounted
    <3>2. CASE thread = "drain" /\ thread' = "discard"
      <4>1. Pending' = Pending
        BY <3>2 DEF Pending
      <4>2. \A r : Got(r)' = Got(r)
        BY <1>2, <4>1, SameGot
      <4>3. ~Delivering'
        BY <1>2, <1>3, <3>2, SyncAssumption DEF Delivering
      <4> QED BY <2>1, <4>2, <4>3 DEF Accounted, Delivered
    <3> QED BY <3>1, <3>2
  <2>6. Delivered'
    <3>1. \A r : TokensIn(Got(r))' = TokensIn(Got(r)')
      BY DEF TokensIn
    <3> QED BY <1>2, <2>1, <2>2, <2>5, <3>1 DEF Delivered
  <2> QED BY <2>3, <2>5, <2>6
<1> QED BY <1>5, <1>6, <1>7 DEF SyncInv, SyncTypes

LEMMA StepKeeps ==
  ASSUME SyncInv, Step
  PROVE  SyncInv'
<1> DEFINE item == Head(outputs_queue)
           batch == item.outputs
<1>1. /\ thread \in {"loop", "drain"} /\ Registered # {}
      /\ outputs_queue # <<>> /\ outputs_queue' = Tail(outputs_queue)
      /\ UNCHANGED <<given, call, added, results, aborted, socket, produced, running>>
  BY DEF Step, HasUnfinishedRequests, GetOutput
<1>2. CallTypes /\ TravelTypes /\ Shape /\ Transport
  BY DEF SyncInv, SyncTypes
<1>3. item \in Items
  BY <1>1, <1>2, Pops DEF TravelTypes
<1>4. /\ DOMAIN batch \subseteq Requests /\ \A r \in DOMAIN batch : batch[r] \in EngineOutputs
  BY <1>3, ItemKinds
<1>5. CASE item.kind # "batch" /\ Ends("raised", Registered)
           /\ UNCHANGED <<requests, external_req_ids, to_engine>>
  <2>1. thread' # "adding"
    BY <1>5 DEF Ends
  <2>2. TravelTypes' /\ Transport'
    BY <1>1, <1>2, <1>5, <2>1, StepTravels
  <2> QED BY <1>1, <1>5, <2>2, RaiseKeeps
<1>6. ASSUME NEW M \in SUBSET MayMatch(batch),
             \/ to_engine' = to_engine
             \/ to_engine' = Append(to_engine, Message("ABORT", ReqsToAbort(batch, M))),
             \/ /\ requests' = Without(Processed(batch, M), Finished(batch, M))
                /\ external_req_ids' = ReleasedIds(Finished(batch, M))
                /\ thread' = IF thread = "loop" THEN "handle" ELSE "discard"
                /\ step_outputs' \in StepOutputs(batch, M)
                /\ UNCHANGED <<outcome, orphaned>>
             \/ /\ requests' = Processed(batch, M)
                /\ Ends("raised", Registered)
                /\ UNCHANGED external_req_ids
      PROVE  SyncInv'
  <2>1. M \subseteq Known(batch) /\ Known(batch) \subseteq Requests
    BY <1>4, <1>6 DEF MayMatch, Known
  <2>2. ReqsToAbort(batch, M) \in SUBSET Requests
    BY <2>1 DEF ReqsToAbort
  <2>3. thread' # "adding"
    BY <1>6 DEF Ends
  <2> HIDE DEF batch
  <2>4. \/ to_engine' = to_engine
        \/ \E ids \in SUBSET Requests : to_engine' = Append(to_engine, Message("ABORT", ids))
    BY <1>6, <2>2
  <2>5. /\ TravelTypes' /\ Transport'
        /\ \A r : /\ Coming(r) = Part(r, Head(outputs_queue)) \o Coming(r)'
                  /\ Coming(r)' \in Seq(EngineOutputs)
                  /\ Going(r)' = Going(r)
    BY <1>1, <1>2, <2>3, <2>4, StepTravels
  <2>6. CASE /\ requests' = Without(Processed(batch, M), Finished(batch, M))
             /\ external_req_ids' = ReleasedIds(Finished(batch, M))
             /\ thread' = IF thread = "loop" THEN "handle" ELSE "discard"
             /\ step_outputs' \in StepOutputs(batch, M)
             /\ UNCHANGED <<outcome, orphaned>>
    <3>1. ASSUME NEW r \in Requests
          PROVE  /\ r \in DOMAIN batch => Coming(r) = <<batch[r]>> \o Coming(r)'
                 /\ r \notin DOMAIN batch => Coming(r) = Coming(r)'
                 /\ Coming(r)' \in Seq(EngineOutputs)
                 /\ Going(r)' = Going(r)
      <4>1. /\ r \in DOMAIN batch => Part(r, Head(outputs_queue)) = <<batch[r]>>
            /\ r \notin DOMAIN batch => Part(r, Head(outputs_queue)) = <<>>
        BY DEF Part, batch
      <4>2. <<>> \o Coming(r)' = Coming(r)'
        BY <2>5, Nothing
      <4> QED BY <2>5, <4>1, <4>2
    <3>2. Delivers(batch, M)
      BY <1>1, <1>4, <2>1, <2>6, <3>1 DEF Delivers
    <3>3. \/ thread = "loop" /\ thread' = "handle"
          \/ thread = "drain" /\ thread' = "discard"
      BY <1>1, <2>6
    <3> QED BY <1>1, <2>5, <2>6, <3>2, <3>3, DeliversKeeps
  <2>7. CASE /\ requests' = Processed(batch, M)
             /\ Ends("raised", Registered)
             /\ UNCHANGED external_req_ids
    <3>1. ProcessedAs(batch, M)
      BY <1>2, <1>4, <2>1, ProcessedIs
    <3>2. /\ requests' = [r \in Registered |-> requests'[r]]
          /\ \A r \in Registered : requests'[r] \in RequestStates
      <4>1. /\ Processed(batch, M) = [r \in Registered |-> Processed(batch, M)[r]]
            /\ \A r \in Registered : Processed(batch, M)[r] \in RequestStates
        BY <3>1 DEF ProcessedAs
      <4> QED BY <2>7, <4>1
    <3> QED BY <1>1, <2>5, <2>7, <3>2, RaiseKeeps
  <2> QED BY <1>6, <2>6, <2>7
<1>7. \/ /\ item.kind # "batch" /\ Ends("raised", Registered)
         /\ UNCHANGED <<requests, external_req_ids, to_engine>>
      \/ \E M \in SUBSET MayMatch(batch) :
           /\ \/ to_engine' = to_engine
              \/ to_engine' = Append(to_engine, Message("ABORT", ReqsToAbort(batch, M)))
           /\ \/ /\ requests' = Without(Processed(batch, M), Finished(batch, M))
                 /\ external_req_ids' = ReleasedIds(Finished(batch, M))
                 /\ thread' = IF thread = "loop" THEN "handle" ELSE "discard"
                 /\ step_outputs' \in StepOutputs(batch, M)
                 /\ UNCHANGED <<outcome, orphaned>>
              \/ /\ requests' = Processed(batch, M)
                 /\ Ends("raised", Registered)
                 /\ UNCHANGED external_req_ids
  BY Zenon DEF Step, Sends, Raises
<1> HIDE DEF item, batch
<1> QED BY <1>5, <1>6, <1>7
-----------------------------------------------------------------------------
(***************************************************************************)
(* The invariant holds, and what the caller reads follows from it.         *)
(***************************************************************************)
LEMMA InitHolds ==
  ASSUME Init
  PROVE  SyncInv
<1>1. /\ requests = <<>> /\ external_req_ids = <<>> /\ given \in Givens
      /\ thread = "start" /\ call = 0 /\ added = 0 /\ step_outputs = <<>> /\ results = <<>>
      /\ outcome = [i \in DOMAIN given.calls |-> None]
      /\ outputs_queue = <<>> /\ to_engine = <<>> /\ socket = <<>>
      /\ produced = [r \in Requests |-> 0] /\ running = {}
  BY DEF Init, OutputInit
<1>2. DOMAIN <<>> = {} /\ <<>> = [r \in {} |-> <<>>[r]]
  OBVIOUS
<1>3. Registered = {} /\ DOMAIN external_req_ids = {}
  BY <1>1, <1>2 DEF Registered
<1>4. CallTypes
  <2>1. given.calls \in Seq([kind : Kinds, prompts : Seq(Requests)])
    BY <1>1, SyncAssumption
  <2>2. call \in 0 .. Len(given.calls)
    BY <1>1, <2>1
  <2>3. requests = [r \in Registered |-> requests[r]]
    BY <1>1, <1>2, <1>3
  <2>4. outcome = [i \in DOMAIN given.calls |-> outcome[i]]
    BY <1>1
  <2> QED BY <1>1, <1>3, <2>2, <2>3, <2>4 DEF CallTypes
<1>5. TravelTypes
  <2>1. <<>> \in Seq(Items) /\ <<>> \in Seq(Messages)
    BY Plain
  <2> QED BY <1>1, <2>1 DEF TravelTypes
<1>6. Shape
  BY <1>1 DEF Shape, InCall
<1>7. Transport
  <2> SUFFICES ASSUME NEW r \in Requests PROVE Travels(r)
    BY DEF Transport
  <2>1. AddsIn(r, to_engine) = <<>>
    BY <1>1, AddsInIs
  <2>2. Coming(r) = <<>>
    <3>1. <<>> \o <<>> = <<>>
      OBVIOUS
    <3> QED BY <1>1, <3>1, OutputsInIs DEF Coming
  <2>3. ~Going(r)
    BY <1>1, <2>1 DEF Going
  <2> QED BY <1>1, <2>1, <2>2, <2>3, NoEnds DEF Travels
<1>8. Held /\ Delivered /\ Accounted
  <2>1. Own = {}
    BY <1>1 DEF Own
  <2>2. <<>> \in Seq(Rightful) /\ <<>> \in Seq(Spent)
    BY Plain
  <2> QED BY <1>1, <1>3, <2>1, <2>2 DEF Held, Delivered, Accounted
<1> QED BY <1>4, <1>5, <1>6, <1>7, <1>8 DEF SyncInv, SyncTypes

LEMMA StaysSo ==
  ASSUME SyncInv, UNCHANGED vars
  PROVE  SyncInv'
<1>1. TravelTypes /\ \A r \in Requests : Singly(r)
  BY SinglyAll DEF SyncInv, SyncTypes
<1>2. processorVars' = processorVars /\ callVars' = callVars /\ clientVars' = clientVars
      /\ engineVars' = engineVars /\ historyVars' = historyVars
  BY DEF vars
<1>3. Leaves
  BY <1>2 DEF clientVars, engineVars, Leaves
<1>4. TravelTypes' /\ \A r \in Requests : Serves(r)
  BY <1>1, <1>3, LeavesServes
<1>5. /\ given' = given /\ requests' = requests /\ external_req_ids' = external_req_ids
      /\ aborted' = aborted /\ orphaned' = orphaned
  BY <1>2 DEF processorVars, historyVars
<1> QED BY <1>2, <1>4, <1>5, ServesKeeps

LEMMA NextKeeps ==
  ASSUME SyncInv, [Next]_vars
  PROVE  SyncInv'
<1>1. CASE UNCHANGED vars
  BY <1>1, StaysSo
<1>2. CASE Started \/ StartTimesOut \/ CloseBegins \/ CloseEnds
  BY <1>2, BetweenKeeps
<1>3. CASE BeginCall
  BY <1>3, BeginCallKeeps
<1>4. CASE AddPrompt
  BY <1>4, AddPromptKeeps
<1>5. CASE AllAdded
  BY <1>5, AllAddedKeeps
<1>6. CASE StartStream
  BY <1>6, StartStreamKeeps
<1>7. CASE Return
  BY <1>7, ReturnKeeps
<1>8. CASE Step
  BY <1>8, StepKeeps
<1>9. CASE Handle
  BY <1>9, HandleKeeps
<1>10. CASE Resume
  BY <1>10, ResumeKeeps
<1>11. CASE Discard
  BY <1>11, DiscardKeeps
<1>12. CASE CallUtility \/ UtilityReturns
  BY <1>12, UtilityKeeps
<1>13. CASE Abandon
  BY <1>13, AbandonKeeps
<1>14. CASE \E ext \in ExternalIds : AbortRequest(ext)
  BY <1>14, AbortKeeps
<1>15. CASE Monitor
  BY <1>15, MonitorKeeps
<1>16. CASE EngineMoves \/ ReaderReads \/ ReaderFails \/ ReaderWoken
  BY <1>16, OthersKeep
<1> QED BY <1>1, <1>2, <1>3, <1>4, <1>5, <1>6, <1>7, <1>8, <1>9, <1>10, <1>11, <1>12, <1>13,
           <1>14, <1>15, <1>16 DEF Next, Main, EngineMoves

\* Every request is followed from its registration to the caller, whatever call it is of:
\* what has been taken from the engine's frames and what is still in them make up all it
\* has produced.
THEOREM SyncInvariant == Spec => []SyncInv
<1>1. Init => SyncInv
  BY InitHolds
<1>2. SyncInv /\ [Next]_vars => SyncInv'
  BY NextKeeps
<1> QED BY <1>1, <1>2, PTL DEF Spec

\* Outputs given whole have their tokens in order, wherever they are in what r is given.
LEMMA WholeOnes ==
  ASSUME NEW r, NEW s \in Seq(Rightful), output_kind[r] # "DELTA"
  PROVE  /\ OutputsTo(r, s) \in Seq(Outs)
         /\ \A i \in DOMAIN OutputsTo(r, s) :
              OutputsTo(r, s)[i].tokens = Numbers(Len(OutputsTo(r, s)[i].tokens))
<1> DEFINE T == {o \in Outs : o.tokens = Numbers(Len(o.tokens))}
           S == Rightful
<1>1. \A u \in S : u.of = r => u.output \in T
  BY DEF Rightful, UserOutputs
<1>2. \A o \in T : o.tokens = Numbers(Len(o.tokens))
  OBVIOUS
<1>3. s \in Seq(S)
  OBVIOUS
<1>4. \A t \in Seq(T) : t \in Seq(Outs) /\ \A i \in DOMAIN t : t[i] \in T
  <2>1. T \subseteq Outs
    OBVIOUS
  <2> HIDE DEF T
  <2> QED BY <2>1
<1> HIDE DEF S, T
<1>5. SelectsOf(r, S, T)
  BY <1>1, OutputsToIs
<1>6. OutputsTo(r, s) \in Seq(T)
  BY <1>3, <1>5 DEF SelectsOf
<1> QED BY <1>2, <1>4, <1>6

\* A prompt that nobody aborted, when its call has returned.
LEMMA OwnAccounted ==
  ASSUME SyncInv, ~orphaned, call > 0, NEW r \in Range(Prompts),
         outcome[call] = "returned", Current.kind # "utility", r \notin aborted
  PROVE  /\ ResultsOf(r) \in Seq(Outs) /\ ResultsOf(r) # <<>>
         /\ \A i \in DOMAIN ResultsOf(r) : (ResultsOf(r)[i].reason # None) <=> (i = Len(ResultsOf(r)))
         /\ Last(ResultsOf(r)).reason = "length" => TokensOf(r) = Numbers(produced[r])
         /\ Current.kind = "list" => Len(ResultsOf(r)) = 1
<1> DEFINE G == Got(r)
           outs == ResultsOf(r)
<1>1. CallTypes /\ Shape /\ Held /\ Delivered /\ Accounted
  BY DEF SyncInv, SyncTypes
<1>2. thread \notin InCall \cup {"utility"}
  BY <1>1, SyncAssumption DEF Shape
<1>3. Registered = {} /\ step_outputs = <<>> /\ thread # "adding"
  BY <1>1, <1>2 DEF Held, Shape, InCall
<1>4. Pending = <<>>
  BY <1>2, <1>3 DEF Pending, InCall
<1>5. results \in Seq(UserOutputs)
  BY <1>1, SpentIs DEF Delivered
<1>6. G = outs /\ outs \in Seq(Outs)
  <2>1. results \o <<>> = results
    BY <1>5, Nothing
  <2> QED BY <1>4, <1>5, <2>1, UserOutputsTo DEF Got, ResultsOf
<1>7. r \in Own /\ Delivering
  BY <1>1, Calls DEF Own, Delivering
<1>8. /\ ~Endless(G) /\ EndsLast(G)
      /\ output_kind[r] = "FINAL_ONLY" => \A i \in DOMAIN G : G[i].reason # None
      /\ \A i \in DOMAIN G : G[i].reason = "length" =>
           (IF output_kind[r] = "DELTA" THEN TokensIn(G) ELSE G[i].tokens) = Numbers(produced[r])
  BY <1>1, <1>3, <1>7 DEF Accounted, Accounts
<1>9. TokensOf(r) = IF output_kind[r] = "DELTA" THEN TokensIn(outs)
                    ELSE IF outs = <<>> THEN <<>> ELSE Last(outs).tokens
  BY DEF TokensOf
<1>10. Current.kind = "list" => output_kind[r] = "FINAL_ONLY"
  <2>1. /\ given \in Givens /\ call \in DOMAIN given.calls
    BY <1>1, Calls
  <2> QED BY <2>1, SyncAssumption DEF Current, Prompts, output_kind
<1> HIDE DEF G, outs
<1>11. DOMAIN outs = 1 .. Len(outs) /\ Len(outs) \in Nat
  BY <1>6
<1>12. PICK k \in DOMAIN outs : outs[k].reason # None
  BY <1>6, <1>8 DEF Endless
<1>13. \A i \in DOMAIN outs : outs[i].reason # None => i = Len(outs)
  BY <1>6, <1>8 DEF EndsLast
<1>14. k = Len(outs) /\ outs # <<>> /\ Last(outs) = outs[k]
  <2>1. k = Len(outs)
    BY <1>12, <1>13
  <2>2. outs # <<>>
    BY <1>11, <1>12, <2>1
  <2> QED BY <2>1, <2>2 DEF Last
<1>15. \A i \in DOMAIN outs : (outs[i].reason # None) <=> (i = Len(outs))
  BY <1>12, <1>13, <1>14
<1>16. Last(outs).reason = "length" => TokensOf(r) = Numbers(produced[r])
  BY <1>6, <1>8, <1>9, <1>12, <1>14
<1>17. Current.kind = "list" => Len(outs) = 1
  <2> SUFFICES ASSUME Current.kind = "list" PROVE Len(outs) = 1
    OBVIOUS
  <2>1. 1 \in DOMAIN outs /\ outs[1].reason # None
    BY <1>6, <1>8, <1>10, <1>11, <1>12
  <2> QED BY <1>13, <2>1
<1> QED BY <1>6, <1>14, <1>15, <1>16, <1>17 DEF outs

LEMMA OwnTokens ==
  ASSUME SyncInv, ~orphaned, call > 0, NEW r \in Range(Prompts)
  PROVE  TokensOf(r) = Numbers(Len(TokensOf(r)))
<1> DEFINE outs == ResultsOf(r)
           rest == OutputsTo(r, Pending)
<1>1. CallTypes /\ Delivered /\ results \in Seq(Rightful)
  BY DEF SyncInv, SyncTypes, Delivered
<1>2. r \in Own
  BY <1>1, Calls DEF Own
<1>3. TokensOf(r) = IF output_kind[r] = "DELTA" THEN TokensIn(outs)
                    ELSE IF outs = <<>> THEN <<>> ELSE Last(outs).tokens
  BY DEF TokensOf
<1>4. CASE output_kind[r] = "DELTA"
  <2>1. results \in Seq(UserOutputs) /\ Pending \in Seq(UserOutputs)
    <3>1. results \in Seq(UserOutputs) /\ step_outputs \in Seq(UserOutputs)
      BY <1>1, SpentIs DEF Delivered
    <3>2. <<>> \in Seq(UserOutputs)
      BY Plain
    <3>3. thread = "yielded" => Tail(step_outputs) \in Seq(UserOutputs)
      <4>1. thread = "yielded" => step_outputs # <<>>
        BY DEF SyncInv, Shape
      <4> QED BY <3>1, <4>1, Pops
    <3> QED BY <3>1, <3>2, <3>3 DEF Pending
  <2>2. Got(r) = outs \o rest /\ outs \in Seq(Outs) /\ rest \in Seq(Outs)
    BY <2>1, UserOutputsTo DEF Got, ResultsOf
  <2>3. TokensIn(Got(r)) = Numbers(Len(TokensIn(Got(r))))
    BY <1>1, <1>2, <1>4 DEF Delivered
  <2> HIDE DEF outs, rest
  <2>4. TokensIn(outs \o rest) = TokensIn(outs) \o TokensIn(rest)
        /\ TokensIn(outs) \in Seq(Nat) /\ TokensIn(rest) \in Seq(Nat)
    BY <2>2, UserTokens
  <2>5. TokensIn(outs) \o TokensIn(rest) = Numbers(Len(TokensIn(outs) \o TokensIn(rest)))
    BY <2>2, <2>3, <2>4
  <2>6. TokensIn(outs) = Numbers(Len(TokensIn(outs)))
    BY <2>4, <2>5, FirstNumbers
  <2> QED BY <1>3, <1>4, <2>6
<1>5. CASE output_kind[r] # "DELTA"
  <2>1. outs \in Seq(Outs) /\ \A i \in DOMAIN outs : outs[i].tokens = Numbers(Len(outs[i].tokens))
    BY <1>1, <1>5, WholeOnes DEF ResultsOf
  <2> HIDE DEF outs
  <2>2. CASE outs = <<>>
    <3>1. TokensOf(r) = <<>>
      BY <1>3, <1>5, <2>2
    <3>2. Numbers(0) \in Seq(Nat) /\ Len(Numbers(0)) = 0
      BY NumbersSeq
    <3>3. Numbers(0) = <<>> /\ Len(<<>>) = 0
      BY <3>2
    <3> QED BY <3>1, <3>3
  <2>3. CASE outs # <<>>
    <3>1. Len(outs) \in DOMAIN outs /\ Last(outs) = outs[Len(outs)]
      BY <2>1, <2>3 DEF Last
    <3> QED BY <1>3, <1>5, <2>1, <2>3, <3>1
  <2> QED BY <2>2, <2>3
<1> QED BY <1>4, <1>5

\* A call of LLM.generate gives results of its own prompts only, each prompt's tokens in
\* order and none twice, and when it returns every prompt that nobody aborted has ended
\* once, as its last result, with all its tokens if its length ended it, whatever the
\* requests, the calls, the batches and the faults, as long as no call has left a request
\* behind.
THEOREM OwnResultsHolds == Spec => []OwnResults
<1>1. SyncInv => OwnResults
  <2> SUFFICES ASSUME SyncInv, call > 0, ~orphaned
               PROVE  /\ \A i \in DOMAIN results : results[i].of \in Range(Prompts)
                      /\ \A r \in Range(Prompts) :
                           LET outs == ResultsOf(r)
                               tokens == TokensOf(r)
                           IN
                           /\ tokens = Numbers(Len(tokens))
                           /\ outcome[call] = "returned" /\ Current.kind # "utility" /\ r \notin aborted =>
                                /\ outs # <<>>
                                /\ \A i \in DOMAIN outs : (outs[i].reason # None) <=> (i = Len(outs))
                                /\ Last(outs).reason = "length" => tokens = Numbers(produced[r])
                                /\ Current.kind = "list" => Len(outs) = 1
    BY DEF OwnResults
  <2>1. ASSUME NEW i \in DOMAIN results PROVE results[i].of \in Range(Prompts)
    <3>1. results \in Seq(Rightful) /\ Own = Range(Prompts)
      BY DEF SyncInv, Delivered, Own
    <3>2. results[i] \in Rightful
      BY <3>1
    <3> QED BY <3>1, <3>2 DEF Rightful
  <2>2. ASSUME NEW r \in Range(Prompts) PROVE TokensOf(r) = Numbers(Len(TokensOf(r)))
    BY <2>2, OwnTokens
  <2>3. ASSUME NEW r \in Range(Prompts), outcome[call] = "returned", Current.kind # "utility",
               r \notin aborted
        PROVE  /\ ResultsOf(r) # <<>>
               /\ \A i \in DOMAIN ResultsOf(r) :
                    (ResultsOf(r)[i].reason # None) <=> (i = Len(ResultsOf(r)))
               /\ Last(ResultsOf(r)).reason = "length" => TokensOf(r) = Numbers(produced[r])
               /\ Current.kind = "list" => Len(ResultsOf(r)) = 1
    BY <2>3, OwnAccounted
  <2> QED BY <2>1, <2>2, <2>3
<1> QED BY <1>1, SyncInvariant, PTL
=============================================================================
