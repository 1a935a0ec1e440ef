-------------------------- MODULE CuEvaluateProofs --------------------------
(***************************************************************************)
(* Proofs about the evaluation of a process in a Compute Unit, for any     *)
(* messages, crons, blocks and pages.                                      *)
(***************************************************************************)
EXTENDS CuEvaluate, FiniteSetTheorems, NaturalsInduction, WellFoundedInduction, TLAPS

(* Sequences and functions.                                                *)

\* A set of numbers that is not empty has a least element.
LEMMA LeastNumber ==
    ASSUME NEW S \in SUBSET Nat, S # {}
    PROVE  \E n \in S : \A m \in S : n <= m
<1> DEFINE less == {ss \in Nat \X Nat : ss[1] < ss[2]}
<1>1. OpToRel(<, Nat) = less
  BY Zenon DEF OpToRel
<1>2. IsWellFoundedOn(less, Nat)
  BY <1>1, NatLessThanWellFounded, Zenon
<1> HIDE DEF less
<1>3. PICK n \in S : \A m \in S : ~(<<m, n>> \in less)
  BY <1>2, WFMin, Zenon
<1>4. \A m \in S : ~(m < n)
  BY <1>3 DEF less
<1>5. QED
  BY <1>4

\* A first part of a sequence.
PrefixOf(p, s, n, S) ==
    /\ p \in Seq(S)
    /\ Len(p) = IF n < Len(s) THEN n ELSE Len(s)
    /\ DOMAIN p = 1 .. Len(p)
    /\ \A i \in DOMAIN p : p[i] = s[i]

LEMMA PrefixIs ==
    ASSUME NEW S, NEW s \in Seq(S), NEW n \in Nat
    PROVE  PrefixOf(Prefix(s, n), s, n, S)
BY DEF Prefix, PrefixOf

\* A sequence of values, each of which F makes of the one before it.
Made(g, lo, hi, x, F) == g[lo] = x /\ \A k \in lo .. hi : k > lo => g[k] = F[<<k, g[k - 1]>>]

LEMMA Recursion ==
    ASSUME NEW lo \in Nat, NEW hi \in Nat, lo <= hi, NEW S, NEW x \in S,
           NEW F \in [Nat \X S -> S]
    PROVE  \E g \in [lo .. hi -> S] : Made(g, lo, hi, x, F)
<1> PICK bad : bad = {m \in lo .. hi : ~ \E g \in [lo .. m -> S] : Made(g, lo, m, x, F)}
  OBVIOUS
<1> SUFFICES ASSUME bad # {} PROVE FALSE
  <2>1. hi \in lo .. hi
    OBVIOUS
  <2>2. CASE bad = {}
    <3>1. hi \notin bad
      BY <2>2
    <3>2. QED
      BY <2>1, <3>1
  <2>3. QED
    BY <2>2
<1>1. PICK m \in bad : \A n \in bad : m <= n
  <2>1. bad \in SUBSET Nat
    OBVIOUS
  <2>2. QED
    BY <2>1, LeastNumber, Zenon
<1>2. m \in lo .. hi /\ m \in Nat
  OBVIOUS
<1>3. CASE m = lo
  <2> PICK g : g = [k \in lo .. lo |-> x]
    OBVIOUS
  <2>1. g \in [lo .. m -> S] /\ Made(g, lo, m, x, F)
    BY <1>3 DEF Made
  <2>2. QED
    BY <2>1
<1>4. CASE m # lo
  <2>1. m - 1 \in lo .. hi /\ m - 1 \notin bad
    BY <1>1, <1>2, <1>4
  <2>2. PICK g \in [lo .. m - 1 -> S] : Made(g, lo, m - 1, x, F)
    BY <2>1
  <2> PICK y : y = F[<<m, g[m - 1]>>]
    OBVIOUS
  <2>3. y \in S
    BY <1>2, <2>1
  <2> PICK h : h = [k \in lo .. m |-> IF k = m THEN y ELSE g[k]]
    OBVIOUS
  <2>4. /\ h \in [lo .. m -> S] /\ h[m] = y /\ \A k \in lo .. m - 1 : h[k] = g[k]
        /\ m - 1 \in lo .. m - 1
    BY <1>2, <1>4, <2>3
  <2>5. h[lo] = x
    BY <1>2, <1>4, <2>2, <2>4 DEF Made
  <2>6. ASSUME NEW k \in lo .. m, k > lo PROVE h[k] = F[<<k, h[k - 1]>>]
    <3>1. CASE k = m
      BY <2>4, <3>1
    <3>2. CASE k # m
      <4>1. k \in lo .. m - 1 /\ k - 1 \in lo .. m - 1
        BY <2>6, <3>2
      <4>2. g[k] = F[<<k, g[k - 1]>>]
        BY <2>2, <2>6, <4>1 DEF Made
      <4>3. QED
        BY <2>4, <4>1, <4>2
    <3>3. QED
      BY <3>1, <3>2
  <2>7. QED
    BY <2>4, <2>5, <2>6 DEF Made
<1>5. QED
  BY <1>3, <1>4

\* What FlattenSeq has made of the first i sequences.
Flat(f, ss) ==
    /\ f[1] = ss[1]
    /\ \A i \in 1 .. Len(ss) : i > 1 => f[i] = f[i - 1] \o ss[i]

LEMMA FlattenIs ==
    ASSUME NEW T, NEW ss \in Seq(Seq(T)), ss # <<>>
    PROVE  \E f \in [1 .. Len(ss) -> Seq(T)] : Flat(f, ss) /\ f[Len(ss)] = FlattenSeq(ss)
<1> PICK n : n = Len(ss)
  OBVIOUS
<1>1. n \in Nat /\ 1 <= n /\ \A i \in 1 .. n : ss[i] \in Seq(T)
  OBVIOUS
<1> PICK F : F = [p \in Nat \X Seq(T) |-> IF p[1] \in 1 .. n THEN p[2] \o ss[p[1]] ELSE p[2]]
  OBVIOUS
<1>2. F \in [Nat \X Seq(T) -> Seq(T)]
  <2>1. ASSUME NEW p \in Nat \X Seq(T) PROVE F[p] \in Seq(T)
    <3>1. p[2] \in Seq(T)
      OBVIOUS
    <3>2. CASE p[1] \in 1 .. n
      <4>1. ss[p[1]] \in Seq(T)
        BY <1>1, <3>2
      <4>2. \A s, t \in Seq(T) : s \o t \in Seq(T)
        OBVIOUS
      <4>3. QED
        BY <3>1, <3>2, <4>1, <4>2
    <3>3. CASE p[1] \notin 1 .. n
      BY <3>1, <3>3
    <3>4. QED
      BY <3>2, <3>3
  <2>2. QED
    BY <2>1
<1>3. PICK g \in [1 .. n -> Seq(T)] : Made(g, 1, n, ss[1], F)
  <2>1. 1 \in Nat /\ n \in Nat /\ 1 <= n /\ ss[1] \in Seq(T)
    BY <1>1
  <2>2. QED
    BY <1>2, <2>1, Recursion, Zenon
<1>4. \A i \in 1 .. n : g[i] = IF i = 1 THEN ss[i] ELSE g[i - 1] \o ss[i]
  <2>1. g[1] = ss[1]
    BY <1>3 DEF Made
  <2>2. ASSUME NEW i \in 1 .. n, i # 1 PROVE g[i] = g[i - 1] \o ss[i]
    <3>1. i > 1 /\ i \in Nat /\ i - 1 \in 1 .. n
      BY <1>1, <2>2
    <3>2. g[i - 1] \in Seq(T)
      BY <3>1
    <3>3. g[i] = F[<<i, g[i - 1]>>]
      BY <1>3, <3>1 DEF Made
    <3>4. QED
      BY <3>1, <3>2, <3>3
  <2>3. QED
    BY <2>1, <2>2
<1> DEFINE IsFlat(f) == f = [i \in 1 .. n |-> IF i = 1 THEN ss[i] ELSE f[i - 1] \o ss[i]]
           f == CHOOSE h : IsFlat(h)
<1>5. IsFlat(g)
  BY <1>4
<1>6. IsFlat(f)
  <2> HIDE DEF IsFlat
  <2>1. QED
    BY <1>5, Zenon
<1>7. FlattenSeq(ss) = f[n]
  BY <1>1 DEF FlattenSeq
<1> HIDE DEF f
<1>8. ASSUME NEW i \in 1 .. n, f[i] # g[i] PROVE FALSE
  <2> PICK bad : bad = {j \in 1 .. n : f[j] # g[j]}
    OBVIOUS
  <2>1. PICK j \in bad : \A k \in bad : j <= k
    <3>1. i \in bad
      BY <1>8
    <3>2. bad \in SUBSET Nat
      BY <1>1
    <3>3. QED
      BY <3>1, <3>2, LeastNumber, Zenon
  <2>2. f[j] = (IF j = 1 THEN ss[j] ELSE f[j - 1] \o ss[j])
    BY <1>6
  <2>3. j # 1
    BY <1>4, <2>2
  <2>4. j - 1 \in 1 .. n /\ j - 1 \notin bad
    BY <1>1, <2>1, <2>3
  <2>5. f[j - 1] = g[j - 1]
    BY <2>4
  <2>6. QED
    BY <1>4, <2>2, <2>3, <2>5
<1>9. FlattenSeq(ss) = g[Len(ss)]
  BY <1>1, <1>7, <1>8
<1>10. Flat(g, ss)
  <2>1. n = Len(ss) /\ 1 \in 1 .. n
    BY <1>1
  <2>2. g[1] = ss[1]
    BY <1>4, <2>1
  <2>3. ASSUME NEW i \in 1 .. n, i > 1 PROVE g[i] = g[i - 1] \o ss[i]
    <3>1. i # 1
      BY <2>3
    <3>2. QED
      BY <1>4, <3>1, Zenon
  <2>4. QED
    BY <2>1, <2>2, <2>3, Zenon DEF Flat
<1>11. g \in [1 .. Len(ss) -> Seq(T)]
  OBVIOUS
<1>12. WITNESS g \in [1 .. Len(ss) -> Seq(T)]
<1>13. QED
  BY <1>9, <1>10


LEMMA FlattenType ==
    ASSUME NEW T, NEW ss \in Seq(Seq(T))
    PROVE  FlattenSeq(ss) \in Seq(T)
<1>1. CASE ss = <<>>
  BY <1>1 DEF FlattenSeq
<1>2. CASE ss # <<>>
  <2>1. PICK f \in [1 .. Len(ss) -> Seq(T)] : Flat(f, ss) /\ f[Len(ss)] = FlattenSeq(ss)
    BY <1>2, FlattenIs
  <2>2. Len(ss) \in 1 .. Len(ss)
    BY <1>2
  <2>3. QED
    BY <2>1, <2>2
<1>3. QED
  BY <1>1, <1>2

\* A sequence of sequences begins as its first does.
LEMMA FlattenFirst ==
    ASSUME NEW T, NEW ss \in Seq(Seq(T)), ss # <<>>, ss[1] # <<>>
    PROVE  FlattenSeq(ss) # <<>> /\ Head(FlattenSeq(ss)) = Head(ss[1])
<1>1. PICK f \in [1 .. Len(ss) -> Seq(T)] : Flat(f, ss) /\ f[Len(ss)] = FlattenSeq(ss)
  BY FlattenIs
<1> PICK n : n = Len(ss)
  OBVIOUS
<1>2. n \in Nat /\ 1 <= n /\ n \in 1 .. n /\ \A i \in 1 .. n : ss[i] \in Seq(T) /\ f[i] \in Seq(T)
  <2>1. n \in Nat /\ 1 <= n /\ \A i \in 1 .. n : ss[i] \in Seq(T)
    OBVIOUS
  <2>2. \A i \in 1 .. n : f[i] \in Seq(T)
    BY Zenon
  <2>3. QED
    BY <2>1, <2>2
<1> PICK bad : bad = {i \in 1 .. n : ~ (f[i] # <<>> /\ Head(f[i]) = Head(ss[1]))}
  OBVIOUS
<1>3. ASSUME bad # {} PROVE FALSE
  <2>1. PICK j \in bad : \A k \in bad : j <= k
    <3>1. bad \in SUBSET Nat
      BY <1>2
    <3>2. QED
      BY <1>3, <3>1, LeastNumber, Zenon
  <2>2. j # 1
    BY <1>1, <1>2 DEF Flat
  <2>3. j \in 1 .. n /\ j > 1 /\ j - 1 \in 1 .. n /\ j - 1 \notin bad
    BY <1>2, <2>1, <2>2
  <2>4. f[j] = f[j - 1] \o ss[j]
    BY <1>1, <2>3 DEF Flat
  <2>5. f[j - 1] # <<>> /\ Head(f[j - 1]) = Head(ss[1])
    BY <2>3
  <2>6. f[j - 1] \in Seq(T) /\ ss[j] \in Seq(T)
    BY <1>2, <2>3
  <2>7. f[j] # <<>> /\ Head(f[j]) = Head(f[j - 1])
    <3>1. \A a, b \in Seq(T) : a # <<>> => a \o b # <<>> /\ Head(a \o b) = Head(a)
      OBVIOUS
    <3>2. QED
      BY <2>4, <2>5, <2>6, <3>1, Zenon
  <2>8. QED
    BY <2>3, <2>5, <2>7
<1>4. n \in 1 .. n /\ n \notin bad
  BY <1>2, <1>3
<1>5. QED
  BY <1>1, <1>4

-----------------------------------------------------------------------------
(* Queues.                                                                 *)

\* A queue goes from the message p to the message e: it has each message between
\* them, and the crons after a message have its ordinate.
Chain(q, p, e) ==
    /\ \A i \in 1 .. Len(q) :
          q[i].ordinate = (IF i = 1 THEN p ELSE q[i - 1].ordinate) + (IF IsCron(q[i]) THEN 0 ELSE 1)
    /\ e = IF q = <<>> THEN p ELSE q[Len(q)].ordinate

LEMMA ChainConcat ==
    ASSUME NEW T, NEW a \in Seq(T), NEW b \in Seq(T), NEW p, NEW m, NEW e,
           Chain(a, p, m), Chain(b, m, e)
    PROVE  Chain(a \o b, p, e)
<1> PICK q : q = a \o b
  OBVIOUS
<1>1. /\ Len(a) \in Nat /\ Len(b) \in Nat /\ Len(q) = Len(a) + Len(b)
      /\ \A i \in 1 .. Len(a) : q[i] = a[i]
      /\ \A i \in 1 .. Len(b) : q[Len(a) + i] = b[i]
      /\ a = <<>> <=> Len(a) = 0
      /\ b = <<>> <=> Len(b) = 0
      /\ q = <<>> <=> Len(q) = 0
  OBVIOUS
<1>2. ASSUME NEW i \in 1 .. Len(q)
      PROVE  q[i].ordinate = (IF i = 1 THEN p ELSE q[i - 1].ordinate)
                               + (IF IsCron(q[i]) THEN 0 ELSE 1)
  <2>1. CASE i \in 1 .. Len(a)
    <3>1. q[i] = a[i] /\ (i # 1 => i - 1 \in 1 .. Len(a))
      BY <1>1, <2>1
    <3>2. i # 1 => q[i - 1] = a[i - 1]
      BY <1>1, <3>1
    <3>3. a[i].ordinate = (IF i = 1 THEN p ELSE a[i - 1].ordinate)
                            + (IF IsCron(a[i]) THEN 0 ELSE 1)
      BY <2>1, Zenon DEF Chain
    <3>4. CASE i = 1
      BY <3>1, <3>3, <3>4
    <3>5. CASE i # 1
      BY <3>1, <3>2, <3>3, <3>5
    <3>6. QED
      BY <3>4, <3>5
  <2>2. CASE i \notin 1 .. Len(a)
    <3> PICK k : k = i - Len(a)
      OBVIOUS
    <3>1. k \in 1 .. Len(b) /\ Len(a) + k = i /\ i \in Nat
      BY <1>1, <2>2
    <3>2. q[i] = b[k]
      BY <1>1, <3>1
    <3>3. b[k].ordinate = (IF k = 1 THEN m ELSE b[k - 1].ordinate)
                            + (IF IsCron(b[k]) THEN 0 ELSE 1)
      BY <3>1, Zenon DEF Chain
    <3>4. CASE k = 1
      <4>1. b[k].ordinate = m + (IF IsCron(b[k]) THEN 0 ELSE 1)
        BY <3>3, <3>4
      <4>2. CASE a = <<>>
        <5>1. m = p
          BY <4>2 DEF Chain
        <5>2. i = 1
          BY <1>1, <3>1, <3>4, <4>2
        <5>3. QED
          BY <3>2, <4>1, <5>1, <5>2
      <4>3. CASE a # <<>>
        <5>1. m = a[Len(a)].ordinate
          BY <4>3 DEF Chain
        <5>2. i # 1 /\ i - 1 = Len(a) /\ Len(a) \in 1 .. Len(a)
          BY <1>1, <3>1, <3>4, <4>3
        <5>3. q[i - 1] = a[Len(a)]
          BY <1>1, <5>2
        <5>4. QED
          BY <3>2, <4>1, <5>1, <5>2, <5>3
      <4>4. QED
        BY <4>2, <4>3
    <3>5. CASE k # 1
      <4>1. i # 1 /\ k - 1 \in 1 .. Len(b) /\ Len(a) + (k - 1) = i - 1
        BY <1>1, <3>1, <3>5
      <4>2. q[i - 1] = b[k - 1]
        BY <1>1, <4>1
      <4>3. QED
        BY <3>2, <3>3, <3>5, <4>1, <4>2
    <3>6. QED
      BY <3>4, <3>5
  <2>3. QED
    BY <2>1, <2>2
<1>3. e = IF q = <<>> THEN p ELSE q[Len(q)].ordinate
  <2>1. CASE b = <<>>
    <3>1. e = m /\ Len(q) = Len(a)
      BY <1>1, <2>1 DEF Chain
    <3>2. CASE a = <<>>
      BY <1>1, <2>1, <3>1, <3>2 DEF Chain
    <3>3. CASE a # <<>>
      <4>1. m = a[Len(a)].ordinate /\ Len(a) \in 1 .. Len(a)
        BY <1>1, <3>3 DEF Chain
      <4>2. q # <<>> /\ q[Len(q)] = a[Len(a)]
        BY <1>1, <3>1, <3>3, <4>1
      <4>3. QED
        BY <3>1, <4>1, <4>2
    <3>4. QED
      BY <3>2, <3>3
  <2>2. CASE b # <<>>
    <3>1. e = b[Len(b)].ordinate
      BY <2>2 DEF Chain
    <3>2. q # <<>> /\ Len(b) \in 1 .. Len(b)
      BY <1>1, <2>2
    <3>3. q[Len(q)] = b[Len(b)]
      BY <1>1, <3>2
    <3>4. QED
      BY <3>1, <3>2, <3>3
  <2>3. QED
    BY <2>1, <2>2
<1>4. QED
  BY <1>2, <1>3, Zenon DEF Chain

\* What follows the head of a queue.
LEMMA ChainTail ==
    ASSUME NEW T, NEW q \in Seq(T), q # <<>>, NEW p, NEW e, Chain(q, p, e)
    PROVE  /\ Head(q).ordinate = p + (IF IsCron(Head(q)) THEN 0 ELSE 1)
           /\ Chain(Tail(q), Head(q).ordinate, e)
<1> PICK t : t = Tail(q)
  OBVIOUS
<1>1. /\ Head(q) = q[1] /\ 1 \in 1 .. Len(q) /\ t \in Seq(T) /\ Len(q) \in Nat
      /\ Len(t) = Len(q) - 1 /\ Len(t) \in Nat
      /\ \A i \in 1 .. Len(t) : t[i] = q[i + 1]
      /\ t = <<>> <=> Len(t) = 0
  <2>1. Head(q) = q[1] /\ 1 \in 1 .. Len(q) /\ t \in Seq(T) /\ Len(q) \in Nat
    OBVIOUS
  <2>2. Len(t) = Len(q) - 1 /\ \A i \in 1 .. Len(t) : t[i] = q[i + 1]
    OBVIOUS
  <2>3. t = <<>> <=> Len(t) = 0
    <3>1. \A s \in Seq(T) : s = <<>> <=> Len(s) = 0
      OBVIOUS
    <3>2. QED
      BY <2>1, <3>1, Zenon
  <2>4. Len(t) \in Nat
    BY <2>1
  <2>5. QED
    BY <2>1, <2>2, <2>3, <2>4
<1>2. q[1].ordinate = p + (IF IsCron(q[1]) THEN 0 ELSE 1)
  BY <1>1 DEF Chain
<1>3. ASSUME NEW i \in 1 .. Len(t)
      PROVE  t[i].ordinate = (IF i = 1 THEN q[1].ordinate ELSE t[i - 1].ordinate)
                               + (IF IsCron(t[i]) THEN 0 ELSE 1)
  <2>1. i + 1 \in 1 .. Len(q) /\ i + 1 # 1 /\ (i + 1) - 1 = i
    BY <1>1
  <2>2. q[i + 1].ordinate = q[i].ordinate + (IF IsCron(q[i + 1]) THEN 0 ELSE 1)
    BY <2>1 DEF Chain
  <2>3. CASE i = 1
    BY <1>1, <2>2, <2>3
  <2>4. CASE i # 1
    <3>1. i - 1 \in 1 .. Len(t) /\ (i - 1) + 1 = i
      BY <1>1, <2>4
    <3>2. t[i - 1] = q[i]
      BY <1>1, <3>1
    <3>3. QED
      BY <1>1, <2>2, <2>4, <3>2
  <2>5. QED
    BY <2>3, <2>4
<1>4. e = IF t = <<>> THEN q[1].ordinate ELSE t[Len(t)].ordinate
  <2>1. e = q[Len(q)].ordinate
    BY DEF Chain
  <2>2. CASE t = <<>>
    BY <1>1, <2>1, <2>2
  <2>3. CASE t # <<>>
    <3>1. Len(t) \in 1 .. Len(t) /\ Len(t) + 1 = Len(q)
      BY <1>1, <2>3
    <3>2. t[Len(t)] = q[Len(q)]
      BY <1>1, <3>1
    <3>3. QED
      BY <2>1, <2>3, <3>2
  <2>4. QED
    BY <2>2, <2>3
<1>5. Chain(t, q[1].ordinate, e)
  BY <1>3, <1>4, Zenon DEF Chain
<1>6. QED
  BY <1>1, <1>2, <1>5

\* Crons that have the ordinate of the message they follow.
LEMMA ChainCrons ==
    ASSUME NEW T, NEW q \in Seq(T), NEW p \in Int, \A m \in T : IsCron(m) /\ m.ordinate = p
    PROVE  Chain(q, p, p)
<1>1. \A i \in 1 .. Len(q) : q[i] \in T /\ (i # 1 => q[i - 1] \in T)
  OBVIOUS
<1>2. \A i \in 1 .. Len(q) : IsCron(q[i]) /\ q[i].ordinate = p /\ (i # 1 => q[i - 1].ordinate = p)
  BY <1>1
<1>3. \A i \in 1 .. Len(q) :
         q[i].ordinate = (IF i = 1 THEN p ELSE q[i - 1].ordinate) + (IF IsCron(q[i]) THEN 0 ELSE 1)
  BY <1>2
<1>4. p = IF q = <<>> THEN p ELSE q[Len(q)].ordinate
  <2>1. q # <<>> => Len(q) \in 1 .. Len(q)
    OBVIOUS
  <2>2. QED
    BY <1>2, <2>1
<1>5. QED
  BY <1>3, <1>4, Zenon DEF Chain

\* Queues that follow each other, each with one message.
LEMMA FlattenChain ==
    ASSUME NEW T, NEW ss \in Seq(Seq(T)), NEW p \in Int,
           \A i \in 1 .. Len(ss) : Chain(ss[i], p + i - 1, p + i)
    PROVE  Chain(FlattenSeq(ss), p, p + Len(ss))
<1>1. CASE ss = <<>>
  <2>1. FlattenSeq(ss) = <<>>
    BY <1>1 DEF FlattenSeq
  <2>2. Len(ss) = 0 /\ p + Len(ss) = p
    BY <1>1
  <2>3. Chain(<<>>, p, p)
    BY DEF Chain
  <2>4. QED
    BY <2>1, <2>2, <2>3
<1>2. CASE ss # <<>>
  <2>1. PICK f \in [1 .. Len(ss) -> Seq(T)] : Flat(f, ss) /\ f[Len(ss)] = FlattenSeq(ss)
    BY <1>2, FlattenIs
  <2> PICK n : n = Len(ss)
    OBVIOUS
  <2>2. n \in Nat /\ 1 <= n /\ n \in 1 .. n /\ \A i \in 1 .. n : ss[i] \in Seq(T) /\ f[i] \in Seq(T)
    <3>1. n \in Nat /\ 1 <= n /\ \A i \in 1 .. n : ss[i] \in Seq(T)
      BY <1>2
    <3>2. \A i \in 1 .. n : f[i] \in Seq(T)
      BY Zenon
    <3>3. QED
      BY <3>1, <3>2
  <2> PICK bad : bad = {i \in 1 .. n : ~ Chain(f[i], p, p + i)}
    OBVIOUS
  <2>3. ASSUME bad # {} PROVE FALSE
    <3>1. PICK j \in bad : \A k \in bad : j <= k
      <4>1. bad \in SUBSET Nat
        BY <2>2
      <4>2. QED
        BY <2>3, <4>1, LeastNumber, Zenon
    <3>2. CASE j = 1
      <4>1. f[1] = ss[1] /\ 1 \in 1 .. Len(ss) /\ p + 1 - 1 = p
        BY <2>1, <2>2 DEF Flat
      <4>2. Chain(ss[1], p + 1 - 1, p + 1)
        BY <4>1, Zenon
      <4>3. QED
        BY <3>2, <4>1, <4>2
    <3>3. CASE j # 1
      <4>1. /\ j \in 1 .. n /\ j > 1 /\ j - 1 \in 1 .. n /\ j - 1 \notin bad
            /\ p + (j - 1) = p + j - 1
        <5>1. j \in 1 .. n /\ j \in Nat
          OBVIOUS
        <5>2. j > 1 /\ j - 1 \in 1 .. n /\ ~ (j <= j - 1) /\ p + (j - 1) = p + j - 1
          BY <2>2, <3>3, <5>1
        <5>3. QED
          BY <3>1, <5>1, <5>2
      <4>2. f[j] = f[j - 1] \o ss[j]
        BY <2>1, <4>1 DEF Flat
      <4>3. Chain(f[j - 1], p, p + (j - 1))
        BY <4>1
      <4>4. Chain(ss[j], p + (j - 1), p + j)
        BY <4>1
      <4>5. f[j - 1] \in Seq(T) /\ ss[j] \in Seq(T)
        BY <2>2, <4>1
      <4>6. Chain(f[j], p, p + j)
        BY <4>2, <4>3, <4>4, <4>5, ChainConcat
      <4>7. QED
        BY <4>1, <4>6
    <3>4. QED
      BY <3>2, <3>3
  <2>4. n \notin bad
    BY <2>3
  <2>5. QED
    BY <2>1, <2>2, <2>4
<1>3. QED
  BY <1>1, <1>2

-----------------------------------------------------------------------------
(* The crons between two messages.                                         *)

Instants == [cron : {"blocks", "seconds"} \X Nat, ordinate : Nat, time : Nat, height : Nat]

\* The crons between a message and a time.
Between(left, right) ==
    {m \in Instants : m.ordinate = left.ordinate /\ left.time <= m.time /\ m.time < right}

LEMMA NamedIs ==
    ASSUME NEW unit \in {"blocks", "seconds"}, NEW n \in Nat, NEW order, DOMAIN order = 1 .. n
    PROVE  /\ DOMAIN Named(unit, order) = 1 .. n
           /\ \A i \in 1 .. n : Named(unit, order)[i].name \in {"blocks", "seconds"} \X Nat
BY DEF Named

LEMMA CronsAre ==
    /\ \E n \in Nat :
          /\ DOMAIN BlockBased = 1 .. n
          /\ \A i \in 1 .. n : BlockBased[i].name \in {"blocks", "seconds"} \X Nat
    /\ \E n \in Nat :
          /\ DOMAIN TimeBased = 1 .. n
          /\ \A i \in 1 .. n : TimeBased[i].name \in {"blocks", "seconds"} \X Nat
<1>1. ASSUME NEW unit PROVE Cardinality(OfUnit(unit)) \in Nat
  <2>1. DOMAIN Crons = 1 .. Len(Crons) /\ Len(Crons) \in Nat
    BY MessagesAssumption
  <2>2. IsFiniteSet(1 .. Len(Crons))
    BY <2>1, FS_Interval
  <2>3. OfUnit(unit) \subseteq 1 .. Len(Crons)
    BY <2>1 DEF OfUnit
  <2>4. QED
    BY <2>2, <2>3, FS_Subset, FS_CardinalityType
<1>2. PICK order : /\ order = InOrder(OfUnit("blocks"), LAMBDA i, j : i < j)
                   /\ BlockBased = Named("blocks", order)
  BY DEF BlockBased
<1>3. PICK order2 : /\ order2 = InOrder(OfUnit("seconds"),
                               LAMBDA i, j : \/ Crons[i].value < Crons[j].value
                                             \/ Crons[i].value = Crons[j].value /\ i < j)
                    /\ TimeBased = Named("seconds", order2)
  BY DEF TimeBased
<1>4. DOMAIN order = 1 .. Cardinality(OfUnit("blocks"))
  BY <1>2 DEF InOrder
<1>5. DOMAIN order2 = 1 .. Cardinality(OfUnit("seconds"))
  BY <1>3 DEF InOrder
<1>6. QED
  BY <1>1, <1>2, <1>3, <1>4, <1>5, NamedIs

LEMMA OfBlockType ==
    ASSUME NEW T, NEW block, NEW ordinate \in Nat, block.height \in Nat, block.time \in Nat,
           \A m \in Instants : m.ordinate = ordinate /\ m.time = block.time => m \in T
    PROVE  OfBlock(block, ordinate) \in Seq(T)
<1>1. PICK n \in Nat : /\ DOMAIN BlockBased = 1 .. n
                       /\ \A i \in 1 .. n : BlockBased[i].name \in {"blocks", "seconds"} \X Nat
  BY CronsAre
<1> DEFINE On(i) == IsBlockOnCron(block.height, BlockBased[i])
           m(i) == CronMessage(BlockBased[i], ordinate, block.time, block.height)
<1>2. \A i \in 1 .. n : m(i) \in T
  BY <1>1 DEF CronMessage, Instants
<1> PICK ss : ss = [i \in 1 .. n |-> IF On(i) THEN <<m(i)>> ELSE <<>>]
  OBVIOUS
<1>3. OfBlock(block, ordinate) = FlattenSeq(ss)
  BY <1>1 DEF OfBlock
<1> HIDE DEF On, m
<1>4. \A i \in 1 .. n : ss[i] \in Seq(T)
  BY <1>2
<1>5. ss \in Seq(Seq(T))
  BY <1>4
<1>6. QED
  BY <1>3, <1>5, FlattenType

LEMMA OfTimeType ==
    ASSUME NEW T, NEW time \in Nat, NEW ordinate \in Nat, NEW height \in Nat,
           \A m \in Instants : m.ordinate = ordinate /\ m.time = time => m \in T
    PROVE  OfTime(time, ordinate, height) \in Seq(T)
<1>1. PICK n \in Nat : /\ DOMAIN TimeBased = 1 .. n
                       /\ \A i \in 1 .. n : TimeBased[i].name \in {"blocks", "seconds"} \X Nat
  BY CronsAre
<1> DEFINE On(i) == IsTimestampOnCron(time, TimeBased[i])
           m(i) == CronMessage(TimeBased[i], ordinate, time, height)
<1>2. \A i \in 1 .. n : m(i) \in T
  BY <1>1 DEF CronMessage, Instants
<1> PICK ss : ss = [i \in 1 .. n |-> IF On(i) THEN <<m(i)>> ELSE <<>>]
  OBVIOUS
<1>3. OfTime(time, ordinate, height) = FlattenSeq(ss)
  BY <1>1 DEF OfTime
<1> HIDE DEF On, m
<1>4. \A i \in 1 .. n : ss[i] \in Seq(T)
  BY <1>2
<1>5. ss \in Seq(Seq(T))
  BY <1>4
<1>6. QED
  BY <1>3, <1>5, FlattenType

LEMMA StepsAre ==
    ASSUME NEW left, NEW right, left.time \in Nat, right.time \in Nat
    PROVE  /\ Steps(left, right) \in Nat
           /\ right.time <= left.time => Steps(left, right) = 0
           /\ \A k \in 1 .. Steps(left, right) :
                 At(left, k) \in Nat /\ left.time <= At(left, k) /\ At(left, k) < right.time
           /\ right.time <= left.time + Steps(left, right) * TicksPerSecond
<1>1. CASE right.time <= left.time
  <2>1. Steps(left, right) = 0
    BY <1>1 DEF Steps
  <2>2. 0 * TicksPerSecond = 0
    BY MessagesAssumption
  <2>3. QED
    BY <1>1, <2>1, <2>2
<1>2. CASE ~ (right.time <= left.time)
  <2> PICK T, l, r, n : /\ T = TicksPerSecond /\ l = left.time /\ r = right.time
                        /\ n = (r - l + T - 1) \div T
    OBVIOUS
  <2>1. T \in Nat \ {0} /\ l \in Nat /\ r \in Nat /\ r > l
    BY <1>2, MessagesAssumption
  <2>2. n \in Nat /\ n * T <= r - l + T - 1 /\ r - l + T - 1 < n * T + T
    <3> PICK x : x = r - l + T - 1
      OBVIOUS
    <3>1. x \in Nat
      BY <2>1
    <3>2. x \div T \in Nat /\ (x \div T) * T <= x /\ x < (x \div T) * T + T
      BY <2>1, <3>1
    <3>3. QED
      BY <3>2
  <2>3. ASSUME NEW k \in 1 .. n
        PROVE  l + (k - 1) * T \in Nat /\ l <= l + (k - 1) * T /\ l + (k - 1) * T < r
    <3>1. k \in Nat /\ k <= n /\ k >= 1
      BY <2>2
    <3>2. k * T <= n * T /\ k * T \in Int /\ n * T \in Int
      BY <2>1, <2>2, <3>1
    <3>3. (k - 1) * T = k * T - T /\ (k - 1) * T >= 0 /\ (k - 1) * T \in Int
      BY <2>1, <3>1
    <3>4. QED
      BY <2>1, <2>2, <3>2, <3>3
  <2>4. Steps(left, right) = n
    BY <1>2 DEF Steps
  <2>5. \A k \in 1 .. n : At(left, k) = l + (k - 1) * T
    BY DEF At
  <2>6. r <= l + n * T
    <3>1. n * T \in Int
      BY <2>1, <2>2
    <3>2. QED
      BY <2>1, <2>2, <3>1
  <2>7. QED
    BY <1>2, <2>2, <2>3, <2>4, <2>5, <2>6
<1>3. QED
  BY <1>1, <1>2

LEMMA LowestIs ==
    ASSUME NEW S \in SUBSET Blocks, S # {}
    PROVE  Lowest(S) \in S /\ \A b \in S : Lowest(S).height <= b.height
<1>1. \A b \in S : b.height \in Nat
  BY MessagesAssumption
<1> PICK heights : heights = {b.height : b \in S}
  OBVIOUS
<1>2. heights \in SUBSET Nat /\ heights # {}
  BY <1>1
<1>3. PICK h \in heights : \A g \in heights : h <= g
  BY <1>2, LeastNumber, Zenon
<1>4. PICK b \in S : b.height = h
  OBVIOUS
<1>5. \A a \in S : b.height <= a.height
  BY <1>3, <1>4
<1>6. QED
  BY <1>5, Zenon DEF Lowest

\* A step of the walk: the lowest block is passed if its second is reached.
WalkStep(left, k, y) ==
    IF y.rest # {} /\ Sec(At(left, k)) >= Sec(Lowest(y.rest).time)
    THEN [block |-> Lowest(y.rest), rest |-> y.rest \ {Lowest(y.rest)}]
    ELSE y

\* The blocks between the left and the right.
BlocksBetween(left, right, blocks) == {b \in blocks : left.time < b.time /\ b.time < right.time}

Walks(left, right, blocks) ==
    [block : [height : Nat, time : Nat], rest : SUBSET BlocksBetween(left, right, blocks)]

WalkMade(w, n, left, right, blocks) ==
    /\ w[0] = [block |-> [height |-> left.height, time |-> left.time],
               rest  |-> BlocksBetween(left, right, blocks)]
    /\ \A k \in 0 .. n : w[k] \in Walks(left, right, blocks)
    /\ \A k \in 1 .. n : w[k] = WalkStep(left, k, w[k - 1])

LEMMA WalkStepIs ==
    ASSUME NEW left, NEW right, NEW blocks \in SUBSET Blocks, NEW y \in Walks(left, right, blocks),
           NEW k
    PROVE  /\ WalkStep(left, k, y) \in Walks(left, right, blocks)
           /\ \/ WalkStep(left, k, y) = y
              \/ WalkStep(left, k, y).block \in BlocksBetween(left, right, blocks)
<1> PICK part : part = BlocksBetween(left, right, blocks)
  OBVIOUS
<1>1. y \in [block : [height : Nat, time : Nat], rest : SUBSET part] /\ part \subseteq Blocks
  BY DEF Walks, BlocksBetween
<1>2. CASE y.rest # {} /\ Sec(At(left, k)) >= Sec(Lowest(y.rest).time)
  <2> PICK b : b = Lowest(y.rest)
    OBVIOUS
  <2>1. y.rest \subseteq part /\ y.rest \in SUBSET Blocks /\ y.rest # {}
    BY <1>1, <1>2
  <2>2. b \in y.rest
    BY <2>1, LowestIs
  <2>3. b \in [height : Nat, time : Nat]
    BY <2>1, <2>2, MessagesAssumption
  <2>4. WalkStep(left, k, y) = [block |-> b, rest |-> y.rest \ {b}]
    BY <1>2 DEF WalkStep
  <2>5. QED
    BY <2>1, <2>2, <2>3, <2>4 DEF Walks
<1>3. CASE ~ (y.rest # {} /\ Sec(At(left, k)) >= Sec(Lowest(y.rest).time))
  BY <1>3 DEF WalkStep
<1>4. QED
  BY <1>2, <1>3

LEMMA WalkMakes ==
    ASSUME NEW left, NEW right, left.time \in Nat, left.height \in Nat, right.time \in Nat,
           NEW blocks \in SUBSET Blocks
    PROVE  WalkMade(Walk(left, right, blocks), Steps(left, right), left, right, blocks)
<1> PICK n : n = Steps(left, right)
  OBVIOUS
<1>1. n \in Nat
  BY StepsAre
<1> PICK S : S = Walks(left, right, blocks)
  OBVIOUS
<1> PICK x : x = [block |-> [height |-> left.height, time |-> left.time],
                  rest |-> BlocksBetween(left, right, blocks)]
  OBVIOUS
<1> DEFINE step(k, y) == WalkStep(left, k, y)
<1>2. x \in S
  BY DEF Walks
<1>3. ASSUME NEW y \in S, NEW k PROVE step(k, y) \in S
  BY WalkStepIs
<1> PICK F : F = [p \in Nat \X S |-> step(p[1], p[2])]
  OBVIOUS
<1> DEFINE IsWalk(f) == f = [k \in 0 .. n |-> IF k = 0 THEN x ELSE step(k, f[k - 1])]
           w == CHOOSE f : IsWalk(f)
<1>4. Walk(left, right, blocks) = w
  BY DEF Walk, WalkStep, BlocksBetween
<1> HIDE DEF step
<1>5. F \in [Nat \X S -> S]
  BY <1>3
<1>6. PICK g \in [0 .. n -> S] : Made(g, 0, n, x, F)
  <2>1. 0 \in Nat /\ 0 <= n
    BY <1>1
  <2>2. QED
    BY <1>1, <1>2, <1>5, <2>1, Recursion, Zenon
<1>7. \A k \in 0 .. n : g[k] = IF k = 0 THEN x ELSE step(k, g[k - 1])
  <2>1. g[0] = x
    BY <1>6 DEF Made
  <2>2. ASSUME NEW k \in 0 .. n, k # 0 PROVE g[k] = step(k, g[k - 1])
    <3>1. k > 0 /\ k \in Nat /\ k - 1 \in 0 .. n
      BY <1>1, <2>2
    <3>2. g[k - 1] \in S
      BY <3>1
    <3>3. g[k] = F[<<k, g[k - 1]>>]
      BY <1>6, <3>1 DEF Made
    <3>4. QED
      BY <3>1, <3>2, <3>3
  <2>3. QED
    BY <2>1, <2>2
<1>8. IsWalk(g)
  BY <1>7
<1>9. IsWalk(w)
  <2> HIDE DEF IsWalk
  <2>1. QED
    BY <1>8, Zenon
<1> HIDE DEF w
<1>10. ASSUME NEW k \in 0 .. n, w[k] # g[k] PROVE FALSE
  <2> PICK bad : bad = {j \in 0 .. n : w[j] # g[j]}
    OBVIOUS
  <2>1. PICK j \in bad : \A i \in bad : j <= i
    <3>1. k \in bad
      BY <1>10
    <3>2. bad \in SUBSET Nat
      BY <1>1
    <3>3. QED
      BY <3>1, <3>2, LeastNumber, Zenon
  <2>2. w[j] = (IF j = 0 THEN x ELSE step(j, w[j - 1]))
    BY <1>9
  <2>3. j # 0
    BY <1>7, <2>2
  <2>4. j - 1 \in 0 .. n /\ j - 1 \notin bad
    BY <1>1, <2>1, <2>3
  <2>5. w[j - 1] = g[j - 1]
    BY <2>4
  <2>6. QED
    BY <1>7, <2>2, <2>3, <2>5
<1>11. w[0] = x /\ \A k \in 0 .. n : w[k] \in S
  BY <1>1, <1>6, <1>10 DEF Made
<1>12. ASSUME NEW k \in 1 .. n PROVE w[k] = step(k, w[k - 1])
  <2>1. k \in 0 .. n /\ k # 0 /\ k - 1 \in 0 .. n
    BY <1>1
  <2>2. QED
    BY <1>7, <1>10, <2>1
<1>13. WalkMade(w, n, left, right, blocks)
  BY <1>11, <1>12 DEF WalkMade, step
<1>14. QED
  BY <1>4, <1>13

\* A walk passes blocks of the chain, between the left and the right.
Walked(w, n, left, right, blocks) ==
    /\ \A k \in 0 .. n : w[k].block.height \in Nat
    /\ \A k \in 1 .. n : w[k] # w[k - 1] =>
          /\ w[k].block \in blocks
          /\ left.time < w[k].block.time
          /\ w[k].block.time < right.time

LEMMA WalkIs ==
    ASSUME NEW left, NEW right, left.time \in Nat, left.height \in Nat, right.time \in Nat,
           NEW blocks \in SUBSET Blocks
    PROVE  Walked(Walk(left, right, blocks), Steps(left, right), left, right, blocks)
<1> PICK n, w, S : /\ n = Steps(left, right) /\ w = Walk(left, right, blocks)
                   /\ S = Walks(left, right, blocks)
  OBVIOUS
<1>1. n \in Nat
  BY StepsAre
<1>2. WalkMade(w, n, left, right, blocks)
  BY WalkMakes
<1>3. ASSUME NEW k \in 0 .. n PROVE w[k].block.height \in Nat
  BY <1>2 DEF WalkMade, Walks
<1>4. ASSUME NEW k \in 1 .. n, w[k] # w[k - 1] PROVE w[k].block \in BlocksBetween(left, right, blocks)
  <2>1. k - 1 \in 0 .. n
    BY <1>1
  <2>2. w[k - 1] \in S /\ w[k] = WalkStep(left, k, w[k - 1])
    BY <1>2, <2>1 DEF WalkMade
  <2>3. QED
    BY <1>4, <2>2, WalkStepIs
<1>5. QED
  BY <1>3, <1>4 DEF Walked, BlocksBetween

LEMMA CronMessagesType ==
    ASSUME NEW left, NEW right, left.time \in Nat, left.height \in Nat, left.ordinate \in Nat,
           right.time \in Nat, NEW blocks \in SUBSET Blocks
    PROVE  /\ CronMessages(left, right, blocks) \in Seq(Between(left, right.time))
           /\ right.time <= left.time => CronMessages(left, right, blocks) = <<>>
<1> PICK n, T, w, o : /\ n = Steps(left, right) /\ T = Between(left, right.time)
                      /\ w = Walk(left, right, blocks) /\ o = left.ordinate
  OBVIOUS
<1>1. n \in Nat /\ (right.time <= left.time => n = 0)
  BY StepsAre
<1> DEFINE crons(k) == (IF w[k] = w[k - 1] THEN <<>> ELSE OfBlock(w[k].block, o))
                         \o OfTime(At(left, k), o, w[k].block.height)
<1> PICK ss : ss = [k \in 1 .. n |-> crons(k)]
  OBVIOUS
<1>2. CronMessages(left, right, blocks) = FlattenSeq(ss)
  BY DEF CronMessages
<1> HIDE DEF crons
<1>3. Walked(w, n, left, right, blocks)
  BY WalkIs
<1>4. ASSUME NEW k \in 1 .. n PROVE crons(k) \in Seq(T)
  <2>1. At(left, k) \in Nat /\ left.time <= At(left, k) /\ At(left, k) < right.time
    BY StepsAre
  <2>2. k \in 0 .. n
    BY <1>1
  <2>3. w[k].block.height \in Nat
    BY <1>3, <2>2 DEF Walked
  <2>4. OfTime(At(left, k), o, w[k].block.height) \in Seq(T)
    <3>1. \A m \in Instants : m.ordinate = o /\ m.time = At(left, k) => m \in T
      BY <2>1 DEF Between
    <3>2. QED
      BY <2>1, <2>3, <3>1, OfTimeType
  <2>5. CASE w[k] = w[k - 1]
    <3>1. crons(k) = <<>> \o OfTime(At(left, k), o, w[k].block.height)
      BY <2>5 DEF crons
    <3>2. \A s \in Seq(T) : <<>> \o s \in Seq(T)
      OBVIOUS
    <3>3. QED
      BY <2>4, <3>1, <3>2, Zenon
  <2>6. CASE w[k] # w[k - 1]
    <3>1. /\ w[k].block \in blocks
          /\ left.time < w[k].block.time
          /\ w[k].block.time < right.time
      BY <1>3, <2>6 DEF Walked
    <3>2. w[k].block.height \in Nat /\ w[k].block.time \in Nat
      BY <3>1, MessagesAssumption
    <3>3. \A m \in Instants : m.ordinate = o /\ m.time = w[k].block.time => m \in T
      BY <3>1, <3>2 DEF Between
    <3>4. OfBlock(w[k].block, o) \in Seq(T)
      BY <3>2, <3>3, OfBlockType
    <3>5. crons(k) = OfBlock(w[k].block, o) \o OfTime(At(left, k), o, w[k].block.height)
      BY <2>6 DEF crons
    <3>6. \A s, t \in Seq(T) : s \o t \in Seq(T)
      OBVIOUS
    <3>7. QED
      BY <2>4, <3>4, <3>5, <3>6, Zenon
  <2>7. QED
    BY <2>5, <2>6
<1>5. ss \in Seq(Seq(T))
  BY <1>1, <1>4
<1>6. FlattenSeq(ss) \in Seq(T)
  BY <1>5, FlattenType
<1>7. ASSUME right.time <= left.time PROVE FlattenSeq(ss) = <<>>
  <2>1. n = 0
    BY <1>1, <1>7
  <2>2. ss = <<>>
    BY <2>1
  <2>3. QED
    BY <2>2 DEF FlattenSeq
<1>8. QED
  BY <1>2, <1>6, <1>7

-----------------------------------------------------------------------------
(* The blocks of a stream.                                                 *)

LEMMA SecGrows ==
    ASSUME NEW s \in Int, NEW t \in Int, s <= t
    PROVE  Sec(s) <= Sec(t)
<1> PICK T : T = TicksPerSecond
  OBVIOUS
<1>1. T \in Nat \ {0}
  BY MessagesAssumption
<1>2. s \div T <= t \div T
  BY <1>1
<1>3. QED
  BY <1>2 DEF Sec

LEMMA HighestIs ==
    ASSUME NEW found \in SUBSET Blocks, found # {}, NEW top \in Nat,
           \A b \in found : b.time <= top
    PROVE  \E b \in found : \A a \in found : a.height <= b.height
<1>1. \A b \in Blocks : b.height \in Nat /\ b.time \in Nat
  BY MessagesAssumption
<1> PICK below : below = {top - b.time : b \in found}
  OBVIOUS
<1>2. below \in SUBSET Nat /\ below # {}
  BY <1>1
<1>3. PICK d \in below : \A c \in below : d <= c
  BY <1>2, LeastNumber, Zenon
<1>4. PICK b \in found : d = top - b.time
  OBVIOUS
<1>5. ASSUME NEW a \in found PROVE a.height <= b.height
  <2>1. d <= top - a.time
    BY <1>3
  <2>2. /\ a.time \in Nat /\ b.time \in Nat /\ a.height \in Nat /\ b.height \in Nat
        /\ a \in Blocks /\ b \in Blocks
    BY <1>1
  <2>3. ~ (b.time < a.time)
    BY <1>4, <2>1, <2>2
  <2>4. ~ (b.height < a.height)
    BY <2>2, <2>3, MessagesAssumption
  <2>5. QED
    BY <2>2, <2>4
<1>6. QED
  BY <1>5

\* What is asked of the gateway is not later than the latest time.
LEMMA RangesAre ==
    ASSUME NEW found \in SUBSET Blocks, NEW min \in Nat, NEW maxTime \in Nat,
           \A b \in found : b.time <= maxTime,
           NEW range \in FindMissingBlocks(found, min, maxTime)
    PROVE  range.maxTime \in Int /\ range.maxTime <= maxTime
<1>1. \A b \in Blocks : b.height \in Nat /\ b.time \in Nat
  BY MessagesAssumption
<1>2. CASE found = {}
  BY <1>2 DEF FindMissingBlocks
<1>3. CASE found # {}
  <2> PICK highest, missing :
        /\ highest = (CHOOSE b \in found : \A a \in found : a.height <= b.height)
        /\ missing = (min .. highest.height - 1) \ {b.height : b \in found}
    OBVIOUS
  <2>1. highest \in found /\ \A a \in found : a.height <= highest.height
    <3>1. \E b \in found : \A a \in found : a.height <= b.height
      BY <1>3, HighestIs
    <3>2. QED
      BY <3>1, Zenon
  <2>2. highest.height \in Nat
    BY <1>1, <2>1
  <2>3. CASE missing = {}
    <3>1. FindMissingBlocks(found, min, maxTime) \subseteq {[min |-> highest.height, maxTime |-> maxTime]}
      BY <1>3, <2>3 DEF FindMissingBlocks
    <3>2. QED
      BY <3>1
  <2>4. CASE missing # {}
    <3>1. range \in MakeRanges(found, missing)
      BY <1>3, <2>4 DEF FindMissingBlocks
    <3> DEFINE Next_(h, b) == b.height > h /\ h .. b.height - 1 \subseteq missing
    <3>2. PICK h \in missing :
            range = [min |-> h, maxTime |-> (CHOOSE b \in found : Next_(h, b)).time - 1]
      BY <3>1 DEF MakeRanges
    <3>3. h \in Nat /\ min <= h /\ h < highest.height /\ \A b \in found : b.height # h
      BY <2>2
    <3>4. \E b \in found : Next_(h, b)
      <4> PICK above : above = {b.height : b \in {a \in found : a.height > h}}
        OBVIOUS
      <4>1. above \in SUBSET Nat /\ above # {}
        BY <1>1, <2>1, <3>3
      <4>2. PICK g \in above : \A i \in above : g <= i
        BY <4>1, LeastNumber, Zenon
      <4>3. PICK b \in found : b.height = g /\ g > h
        OBVIOUS
      <4>4. g \in Nat /\ g <= highest.height
        BY <1>1, <2>1, <4>3
      <4>5. ASSUME NEW k \in h .. g - 1 PROVE k \in missing
        <5>1. k \in Nat /\ h <= k /\ k < g /\ k \in min .. highest.height - 1
          BY <2>2, <3>3, <4>4
        <5>2. ASSUME NEW a \in found, a.height = k PROVE FALSE
          <6>1. k > h
            BY <3>3, <5>1, <5>2
          <6>2. k \in above
            BY <5>2, <6>1
          <6>3. QED
            BY <4>2, <4>4, <5>1, <6>2
        <5>3. QED
          BY <5>1, <5>2
      <4>6. QED
        BY <4>3, <4>5
    <3> PICK b : b = CHOOSE a \in found : Next_(h, a)
      OBVIOUS
    <3>5. b \in found
      <4> HIDE DEF Next_
      <4>1. QED
        BY <3>4, Zenon
    <3>6. b.time \in Nat /\ b.time <= maxTime
      BY <1>1, <3>5
    <3>7. range.maxTime = b.time - 1
      BY <3>2
    <3>8. QED
      BY <3>6, <3>7
  <2>5. QED
    BY <2>3, <2>4
<1>4. QED
  BY <1>2, <1>3

LEMMA LoadedIs ==
    ASSUME NEW known \in SUBSET Blocks, NEW mined, NEW min \in Nat, NEW maxTime \in Nat,
           mined \subseteq Blocks
    PROVE  /\ \A b \in Loaded(known, mined, min, maxTime) :
                 b \in mined /\ Sec(b.time) <= Sec(maxTime)
           /\ \A b \in ReconcileBlocks(known, mined, min, maxTime) :
                 b \in known \cup mined /\ Sec(b.time) <= Sec(maxTime)
<1>1. \A b \in Blocks : b.height \in Nat /\ b.time \in Nat
  BY MessagesAssumption
<1> PICK found : found = FindBlocks(known, min, maxTime)
  OBVIOUS
<1>2. found \subseteq known /\ \A b \in found : b.time <= maxTime
  BY DEF FindBlocks
<1>3. ASSUME NEW b \in Loaded(known, mined, min, maxTime)
      PROVE  b \in mined /\ Sec(b.time) <= Sec(maxTime)
  <2>1. PICK range \in FindMissingBlocks(found, min, maxTime) : b \in LoadBlocksMeta(mined, range)
    BY DEF Loaded
  <2>2. b \in mined /\ Sec(b.time) <= Sec(range.maxTime)
    BY <2>1 DEF LoadBlocksMeta
  <2>3. range.maxTime \in Int /\ range.maxTime <= maxTime
    BY <1>2, RangesAre
  <2>4. Sec(range.maxTime) <= Sec(maxTime)
    BY <2>3, SecGrows
  <2>5. b.time \in Nat
    BY <1>1, <2>2
  <2>6. Sec(b.time) \in Int /\ Sec(range.maxTime) \in Int /\ Sec(maxTime) \in Int
    BY <2>3, <2>5, MessagesAssumption DEF Sec
  <2>7. QED
    BY <2>2, <2>4, <2>6
<1>4. ASSUME NEW b \in found PROVE Sec(b.time) <= Sec(maxTime)
  BY <1>1, <1>2, SecGrows
<1>5. QED
  BY <1>2, <1>3, <1>4 DEF ReconcileBlocks

-----------------------------------------------------------------------------
(* The pages of a schedule.                                                *)

\* What the SU saves.
Assignments == [nonce : Nat, time : Nat, height : Nat, item : Items \cup {ProcessItem}]

\* Nonces have no gaps, and messages come in the order of their times.
InSchedule(s) ==
    /\ s \in Seq(Assignments)
    /\ \A i \in 1 .. Len(s) : s[i].nonce = i
    /\ \A i, j \in 1 .. Len(s) : i < j => s[i].time <= s[j].time

LEMMA ScheduleTimes ==
    ASSUME NEW s, InSchedule(s)
    PROVE  Len(s) \in Nat /\ \A j \in 1 .. Len(s) : s[j] \in Assignments /\ s[j].time \in Nat
<1>1. Len(s) \in Nat /\ \A j \in 1 .. Len(s) : s[j] \in Assignments
  BY DEF InSchedule
<1>2. \A m \in Assignments : m.time \in Nat
  BY DEF Assignments
<1>3. QED
  BY <1>1, <1>2

\* The part of a schedule after a and up to b.
PartOf(s, a, b) == {s[j] : j \in a + 1 .. b}

ListOf(s, a, b) == [i \in 1 .. b - a |-> s[a + i]]

LEMMA PartCount ==
    ASSUME NEW s, InSchedule(s), NEW a \in Nat, NEW b \in Nat, a <= b, b <= Len(s)
    PROVE  IsFiniteSet(PartOf(s, a, b)) /\ Cardinality(PartOf(s, a, b)) = b - a
<1> PICK f : f = [j \in a + 1 .. b |-> s[j]]
  OBVIOUS
<1>1. \A j \in a + 1 .. b : s[j].nonce = j
  BY DEF InSchedule
<1>2. f \in Bijection(a + 1 .. b, PartOf(s, a, b))
  BY <1>1 DEF Bijection, Injection, Surjection, IsInjective, PartOf
<1>3. IsFiniteSet(a + 1 .. b) /\ Cardinality(a + 1 .. b) = b - a
  <2>1. /\ IsFiniteSet(a + 1 .. b)
        /\ Cardinality(a + 1 .. b) = IF a + 1 > b THEN 0 ELSE b - (a + 1) + 1
    BY FS_Interval
  <2>2. QED
    BY <2>1
<1>4. QED
  <2>1. ExistsBijection(a + 1 .. b, PartOf(s, a, b))
    BY <1>2 DEF ExistsBijection
  <2>2. QED
    BY <1>3, <2>1, FS_Bijection

LEMMA PartByTime ==
    ASSUME NEW s, InSchedule(s), NEW a \in Nat, NEW b \in Nat, a <= b, b <= Len(s)
    PROVE  ByTime(PartOf(s, a, b)) = ListOf(s, a, b)
<1> PICK R : R = PartOf(s, a, b)
  OBVIOUS
<1>1. Len(s) \in Nat /\ \A j \in 1 .. Len(s) : s[j].nonce = j /\ s[j].time \in Nat
  BY ScheduleTimes DEF InSchedule
<1>2. ASSUME NEW k \in a + 1 .. b
      PROVE  Cardinality({m \in R : Earlier(m, s[k])}) = k - a - 1
  <2>1. k - 1 \in Nat /\ a <= k - 1 /\ k - 1 <= Len(s) /\ k \in 1 .. Len(s)
    BY <1>1
  <2>2. ASSUME NEW j \in a + 1 .. b PROVE Earlier(s[j], s[k]) <=> j \in a + 1 .. k - 1
    <3>1. j \in 1 .. Len(s) /\ j \in Nat /\ k \in Nat
      BY <1>1
    <3>2. (j < k => s[j].time <= s[k].time) /\ (k < j => s[k].time <= s[j].time)
      BY <2>1, <3>1 DEF InSchedule
    <3>3. s[j].time \in Nat /\ s[k].time \in Nat /\ s[j].nonce = j /\ s[k].nonce = k
      BY <1>1, <2>1, <3>1
    <3>4. Earlier(s[j], s[k]) <=> j < k
      BY <3>1, <3>2, <3>3 DEF Earlier
    <3>5. QED
      BY <2>1, <3>1, <3>4
  <2>3. {m \in R : Earlier(m, s[k])} = PartOf(s, a, k - 1)
    <3>1. a + 1 .. k - 1 \subseteq a + 1 .. b
      BY <2>1
    <3>2. QED
      BY <2>2, <3>1 DEF PartOf
  <2>4. Cardinality(PartOf(s, a, k - 1)) = k - 1 - a
    BY <2>1, PartCount
  <2>5. k \in Int /\ k - 1 - a = k - a - 1
    OBVIOUS
  <2>6. QED
    BY <2>3, <2>4, <2>5
<1> DEFINE count(m) == Cardinality({n \in R : Earlier(n, m)})
           ith(i) == CHOOSE m \in R : count(m) = i - 1
<1>3. ByTime(R) = [i \in 1 .. Cardinality(R) |-> ith(i)]
  BY DEF ByTime, InOrder
<1>4. \A k \in a + 1 .. b : count(s[k]) = k - a - 1
  BY <1>2
<1> HIDE DEF count
<1>5. ASSUME NEW i \in 1 .. b - a PROVE ith(i) = s[a + i]
  <2>1. a + i \in a + 1 .. b /\ (a + i) - a - 1 = i - 1
    OBVIOUS
  <2>2. s[a + i] \in R /\ count(s[a + i]) = i - 1
    BY <1>4, <2>1 DEF PartOf
  <2>3. ith(i) \in R /\ count(ith(i)) = i - 1
    BY <2>2, Zenon
  <2> HIDE DEF ith
  <2>4. PICK k \in a + 1 .. b : ith(i) = s[k]
    BY <2>3 DEF PartOf
  <2>5. k - a - 1 = i - 1
    BY <1>4, <2>3, <2>4
  <2>6. k = a + i
    BY <2>5
  <2>7. QED
    BY <2>4, <2>6
<1> HIDE DEF ith
<1>6. Cardinality(R) = b - a
  BY PartCount
<1>7. QED
  BY <1>3, <1>5, <1>6 DEF ListOf

\* A time divides a schedule.
LEMMA CutIs ==
    ASSUME NEW s, InSchedule(s), NEW t \in Int
    PROVE  \E a \in 0 .. Len(s) : \A j \in 1 .. Len(s) : j <= a <=> s[j].time <= t
<1>1. Len(s) \in Nat /\ \A j \in 1 .. Len(s) : s[j].time \in Nat
  BY ScheduleTimes
<1> PICK A : A = {k \in 0 .. Len(s) : \A j \in k + 1 .. Len(s) : s[j].time > t}
  OBVIOUS
<1>2. Len(s) \in A /\ A \in SUBSET Nat
  BY <1>1
<1>3. PICK a \in A : \A k \in A : a <= k
  BY <1>2, LeastNumber, Zenon
<1>4. a \in Nat /\ a <= Len(s) /\ \A j \in a + 1 .. Len(s) : s[j].time > t
  BY <1>1
<1>5. ASSUME NEW j \in 1 .. Len(s), j <= a PROVE s[j].time <= t
  <2>1. a \in 1 .. Len(s) /\ a - 1 \notin A /\ a - 1 \in 0 .. Len(s)
    <3>1. a \in 1 .. Len(s) /\ ~ (a <= a - 1) /\ a - 1 \in 0 .. Len(s)
      BY <1>1, <1>4, <1>5
    <3>2. QED
      BY <1>3, <3>1
  <2>2. PICK k \in (a - 1) + 1 .. Len(s) : ~ (s[k].time > t)
    BY <2>1
  <2>3. k = a
    BY <1>4, <2>1, <2>2
  <2>4. s[a].time <= t
    BY <1>1, <2>1, <2>2, <2>3
  <2>5. s[j].time <= s[a].time
    BY <1>1, <1>5, <2>1 DEF InSchedule
  <2>6. QED
    BY <1>1, <2>1, <2>4, <2>5
<1>6. ASSUME NEW j \in 1 .. Len(s), ~ (j <= a) PROVE ~ (s[j].time <= t)
  <2>1. j \in a + 1 .. Len(s)
    BY <1>1, <1>4, <1>6
  <2>2. QED
    BY <1>1, <1>4, <2>1
<1>7. a \in 0 .. Len(s)
  BY <1>1, <1>4
<1>8. QED
  BY <1>5, <1>6, <1>7

\* A page shows the n messages after c, and claims to be the last if no other is
\* in range.
PageOf(page, q, c, n) ==
    /\ c \in -1 .. Len(schedule) /\ n \in Nat /\ c + n <= Len(schedule)
    /\ page.edges \in Seq(Assignments)
    /\ Len(page.edges) = n /\ DOMAIN page.edges = 1 .. n
    /\ \A i \in 1 .. n : page.edges[i] = Slot(c + i)
    /\ q.from = None <=> c = -1
    /\ q.from = None => n > 0
    /\ q.from # None => \A j \in 1 .. Len(schedule) : j <= c <=> schedule[j].time <= q.from
    /\ page.more => n = q.limit
    /\ ~ page.more => \A j \in 1 .. Len(schedule) :
          j > c + n => q.to # None /\ schedule[j].time > q.to

\* What a stream asks the SU.
Queries == [mode : {"timestamp"}, from : Nat \cup {None}, to : Nat \cup {None},
            limit : Nat \ {0}]

LEMMA RowsAre ==
    ASSUME InSchedule(schedule), NEW q \in Queries
    PROVE  \E a \in 0 .. Len(schedule), n \in Nat :
              /\ a + n <= Len(schedule)
              /\ ByTime({m \in ToSet(schedule) : InRange(q, m)}) = [i \in 1 .. n |-> schedule[a + i]]
              /\ q.from = None => a = 0
              /\ q.from # None => \A j \in 1 .. Len(schedule) : j <= a <=> schedule[j].time <= q.from
              /\ \A j \in 1 .. Len(schedule) : j > a + n => q.to # None /\ schedule[j].time > q.to
<1> PICK s, L : s = schedule /\ L = Len(s)
  OBVIOUS
<1>1. L \in Nat /\ \A j \in 1 .. L : s[j] \in Assignments /\ s[j].time \in Nat
  BY ScheduleTimes
<1>2. /\ q.mode = "timestamp" /\ q.from \in Nat \cup {None} /\ q.to \in Nat \cup {None}
      /\ None \in Int
  BY DEF Queries, None
<1>3. PICK a \in 0 .. L : /\ q.from = None => a = 0
                          /\ q.from # None => \A j \in 1 .. L : j <= a <=> s[j].time <= q.from
  <2>1. CASE q.from = None
    BY <1>1, <2>1
  <2>2. CASE q.from # None
    <3>1. q.from \in Int
      BY <1>2, <2>2
    <3>2. QED
      BY <2>2, <3>1, CutIs
  <2>3. QED
    BY <2>1, <2>2
<1>4. PICK b \in 0 .. L : /\ q.to = None => b = L
                          /\ q.to # None => \A j \in 1 .. L : j <= b <=> s[j].time <= q.to
  <2>1. CASE q.to = None
    BY <1>1, <2>1
  <2>2. CASE q.to # None
    <3>1. q.to \in Int
      BY <1>2, <2>2
    <3>2. QED
      BY <2>2, <3>1, CutIs
  <2>3. QED
    BY <2>1, <2>2
<1>5. ASSUME NEW j \in 1 .. L PROVE InRange(q, s[j]) <=> a < j /\ j <= b
  <2>1. InRange(q, s[j]) <=> /\ q.from # None => s[j].time > q.from
                             /\ q.to # None => s[j].time <= q.to
    BY <1>2 DEF InRange, Cursor
  <2>2. (q.from # None => s[j].time > q.from) <=> a < j
    <3>1. CASE q.from = None
      BY <1>1, <1>3, <3>1
    <3>2. CASE q.from # None
      <4>1. j <= a <=> s[j].time <= q.from
        BY <1>3, <3>2
      <4>2. s[j].time \in Int /\ q.from \in Int /\ j \in Int /\ a \in Int
        BY <1>1, <1>2
      <4>3. QED
        BY <3>2, <4>1, <4>2
    <3>3. QED
      BY <3>1, <3>2
  <2>3. (q.to # None => s[j].time <= q.to) <=> j <= b
    <3>1. CASE q.to = None
      BY <1>1, <1>4, <3>1
    <3>2. CASE q.to # None
      BY <1>4, <3>2
    <3>3. QED
      BY <3>1, <3>2
  <2>4. QED
    BY <2>1, <2>2, <2>3
<1> PICK e : e = IF b < a THEN a ELSE b
  OBVIOUS
<1>6. /\ a \in Nat /\ b \in Nat /\ e \in Nat /\ a <= e /\ e <= L /\ b <= e
      /\ \A j \in Int : a < j /\ j <= b <=> j \in a + 1 .. e
  BY <1>1
<1>7. {m \in ToSet(s) : InRange(q, m)} = PartOf(s, a, e)
  <2>1. \A j \in 1 .. L : InRange(q, s[j]) <=> j \in a + 1 .. e
    BY <1>5, <1>6
  <2>2. a + 1 .. e \subseteq 1 .. L
    BY <1>6
  <2>3. ToSet(s) = {s[j] : j \in 1 .. L}
    BY DEF ToSet, InSchedule
  <2>4. QED
    BY <2>1, <2>2, <2>3 DEF PartOf
<1>8. ByTime(PartOf(s, a, e)) = ListOf(s, a, e)
  <2>1. InSchedule(s) /\ a \in Nat /\ e \in Nat /\ a <= e /\ e <= Len(s)
    BY <1>6
  <2>2. QED
    BY <2>1, PartByTime, Zenon
<1>9. ASSUME NEW j \in 1 .. L, j > a + (e - a) PROVE q.to # None /\ s[j].time > q.to
  <2>1. j > b /\ j <= L /\ j \in Nat
    BY <1>1, <1>6, <1>9
  <2>2. q.to # None
    BY <1>4, <1>6, <2>1
  <2>3. ~ (s[j].time <= q.to)
    BY <1>4, <1>6, <2>1, <2>2
  <2>4. QED
    BY <1>1, <1>2, <2>2, <2>3
<1>10. e - a \in Nat /\ a + (e - a) <= L
  BY <1>6
<1> PICK n : n = e - a
  OBVIOUS
<1>11. ByTime({m \in ToSet(s) : InRange(q, m)}) = [i \in 1 .. n |-> s[a + i]]
  BY <1>7, <1>8 DEF ListOf
<1>12. \A j \in 1 .. L : j > a + n => q.to # None /\ s[j].time > q.to
  BY <1>9
<1>13. n \in Nat /\ a + n <= L
  BY <1>10
<1>14. /\ a \in 0 .. Len(schedule) /\ n \in Nat /\ a + n <= Len(schedule)
       /\ ByTime({m \in ToSet(schedule) : InRange(q, m)}) = [i \in 1 .. n |-> schedule[a + i]]
  BY <1>6, <1>11, <1>13
<1>15. /\ q.from = None => a = 0
       /\ q.from # None => \A j \in 1 .. Len(schedule) : j <= a <=> schedule[j].time <= q.from
       /\ \A j \in 1 .. Len(schedule) : j > a + n => q.to # None /\ schedule[j].time > q.to
  BY <1>3, <1>12
<1>16. QED
  BY <1>14, <1>15, Zenon

LEMMA ProcessIs == Process \in Assignments /\ Process.nonce = 0
BY MessagesAssumption DEF Process, Assignments

LEMMA PageIs ==
    ASSUME InSchedule(schedule), NEW q \in Queries
    PROVE  \E c \in Int, n \in Nat : PageOf(SqlPage(Process, ToSet(schedule), q), q, c, n)
<1> PICK page, rows2 : /\ page = SqlPage(Process, ToSet(schedule), q)
                       /\ rows2 = ByTime({m \in ToSet(schedule) : InRange(q, m)})
  OBVIOUS
<1>1. Len(schedule) \in Nat
  BY ScheduleTimes
<1>2. q.limit \in Nat \ {0} /\ q.mode = "timestamp"
  BY DEF Queries
<1>3. PICK a \in 0 .. Len(schedule), n \in Nat :
         /\ a + n <= Len(schedule)
         /\ rows2 = [i \in 1 .. n |-> schedule[a + i]]
         /\ q.from = None => a = 0
         /\ q.from # None => \A j \in 1 .. Len(schedule) : j <= a <=> schedule[j].time <= q.from
         /\ \A j \in 1 .. Len(schedule) : j > a + n => q.to # None /\ schedule[j].time > q.to
  BY RowsAre
<1>4. \A i \in 1 .. n : a + i \in 1 .. Len(schedule) /\ schedule[a + i] = Slot(a + i)
                        /\ schedule[a + i] \in Assignments
  BY <1>1, <1>3, ScheduleTimes DEF Slot
<1>5. rows2 \in Seq(Assignments) /\ Len(rows2) = n
  <2>1. \A i \in 1 .. n : rows2[i] \in Assignments
    BY <1>3, <1>4
  <2>2. rows2 \in [1 .. n -> Assignments]
    BY <1>3, <2>1
  <2>3. \A f \in [1 .. n -> Assignments] : f \in Seq(Assignments) /\ Len(f) = n
    OBVIOUS
  <2>4. QED
    BY <2>2, <2>3, Zenon
<1>6. IncludesProcess(q) <=> q.from = None
  BY <1>2 DEF IncludesProcess
<1> PICK room : room = IF IncludesProcess(q) THEN q.limit - 1 ELSE q.limit
  OBVIOUS
<1> PICK p, l : p = Prefix(rows2, room) /\ l = Len(p)
  OBVIOUS
<1>7. room \in Nat
  BY <1>2
<1>8. /\ p \in Seq(Assignments)
      /\ l = (IF room < n THEN room ELSE n)
      /\ DOMAIN p = 1 .. l
      /\ \A i \in 1 .. l : p[i] = rows2[i]
  <2>1. PrefixOf(p, rows2, room, Assignments)
    BY <1>5, <1>7, PrefixIs
  <2>2. QED
    BY <1>5, <2>1, Zenon DEF PrefixOf
<1>9. l \in Nat /\ l <= n /\ (room >= n => l = n) /\ (room < n => l = room)
  BY <1>7, <1>8
<1>10. \A i \in 1 .. l : p[i] = Slot(a + i)
  <2>1. \A i \in 1 .. l : i \in 1 .. n
    BY <1>9
  <2>2. QED
    BY <1>3, <1>4, <1>8, <2>1
<1>11. page.more <=> n > room
  <2>1. page = [edges |-> page.edges, more |-> Len(rows2) > room]
    BY DEF SqlPage
  <2>2. page.more = (Len(rows2) > room)
    BY <2>1
  <2>3. QED
    BY <1>5, <2>2
<1>12. page.edges = (IF IncludesProcess(q) THEN <<Process>> ELSE <<>>) \o p
  BY DEF SqlPage
<1>13. CASE q.from = None
  <2>1. page.edges = <<Process>> \o p /\ room = q.limit - 1 /\ a = 0
    BY <1>3, <1>6, <1>12, <1>13
  <2>2. /\ Len(page.edges) = 1 + l /\ DOMAIN page.edges = 1 .. 1 + l
        /\ page.edges[1] = Process
        /\ \A i \in 1 .. l : page.edges[i + 1] = p[i]
    BY <1>8, <1>9, <2>1
  <2>3. ASSUME NEW i \in 1 .. 1 + l PROVE page.edges[i] = Slot(-1 + i)
    <3>1. CASE i = 1
      BY <2>2, <3>1 DEF Slot
    <3>2. CASE i # 1
      <4>1. i - 1 \in 1 .. l /\ (i - 1) + 1 = i /\ -1 + i = a + (i - 1)
        BY <1>9, <2>1, <3>2
      <4>2. page.edges[(i - 1) + 1] = Slot(a + (i - 1))
        BY <1>10, <2>2, <4>1
      <4>3. QED
        BY <4>1, <4>2
    <3>3. QED
      BY <3>1, <3>2
  <2>4. /\ -1 \in -1 .. Len(schedule) /\ 1 + l \in Nat /\ 1 + l > 0 /\ -1 + (1 + l) <= Len(schedule)
        /\ page.more => 1 + l = q.limit
    <3>1. page.more => l = room
      BY <1>9, <1>11
    <3>2. a + n <= Len(schedule)
      BY <1>3
    <3>3. QED
      BY <1>1, <1>2, <1>9, <2>1, <3>1, <3>2
  <2>5. ASSUME ~ page.more, NEW j \in 1 .. Len(schedule), j > -1 + (1 + l)
        PROVE  q.to # None /\ schedule[j].time > q.to
    <3>1. l = n
      BY <1>7, <1>9, <1>11, <2>5
    <3>2. j > a + n
      BY <2>1, <2>5, <3>1
    <3>3. QED
      BY <1>3, <3>2
  <2>0. page.edges \in Seq(Assignments)
    BY <1>8, <2>1, ProcessIs
  <2>6. PageOf(page, q, -1, 1 + l)
    BY <1>11, <2>0, <1>13, <2>2, <2>3, <2>4, <2>5 DEF PageOf
  <2>7. QED
    BY <2>4, <2>6
<1>14. CASE q.from # None
  <2>1. page.edges = p /\ room = q.limit
    <3>1. page.edges = <<>> \o p
      BY <1>6, <1>12, <1>14
    <3>2. \A s \in Seq(Assignments) : <<>> \o s = s
      OBVIOUS
    <3>3. QED
      BY <1>6, <1>8, <1>14, <3>1, <3>2
  <2>2. /\ a \in -1 .. Len(schedule) /\ a # -1 /\ a + l <= Len(schedule)
        /\ page.more => l = q.limit
    <3>1. page.more => l = room
      BY <1>9, <1>11
    <3>2. a + n <= Len(schedule)
      BY <1>3
    <3>3. QED
      BY <1>1, <1>2, <1>9, <2>1, <3>1, <3>2
  <2>3. ASSUME ~ page.more, NEW j \in 1 .. Len(schedule), j > a + l
        PROVE  q.to # None /\ schedule[j].time > q.to
    <3>1. l = n
      BY <1>7, <1>9, <1>11, <2>3
    <3>2. QED
      BY <1>3, <2>3, <3>1
  <2>4. PageOf(page, q, a, l)
    BY <1>3, <1>8, <1>9, <1>10, <1>11, <1>14, <2>1, <2>2, <2>3 DEF PageOf
  <2>5. QED
    BY <1>9, <2>2, <2>4
<1>15. QED
  BY <1>13, <1>14

-----------------------------------------------------------------------------
(* The inductive invariant.                                                *)

CronNames == {"blocks", "seconds"} \X Nat

\* What a stream passes, and where it may start.
Messages == [cron : {NoCron}, ordinate : Nat, time : Nat, height : Nat,
             item : Items \cup {ProcessItem}]

Entries == Messages \cup Instants

Lefts == [ordinate : Nat, height : Nat, time : Nat] \cup Messages

Traces == [cron : {NoCron} \cup CronNames, at : Nat]

Memories == [fold : Seq(Traces), time : Nat, height : Nat, ordinate : Nat,
             cron : {NoCron} \cup CronNames, anchor : Nat]

Streams == [step   : {"fetch", "drain", "rejected"},
            query  : Queries,
            right  : Nat,
            prev   : Lefts,
            blocks : SUBSET Blocks,
            chain  : Nat \cup {None},
            queue  : Seq(Entries),
            evaled : SUBSET [cron : CronNames, time : Nat],
            anchor : Nat \cup {None},
            fold   : Seq(Traces),
            last   : Seq(Entries)]

\* What a stream may have of the schedule and of the time.
Known == {m \in Entries : m.time <= now /\ (~ IsCron(m) => m.ordinate <= Len(schedule))}

\* A stream that has passed nothing begins with the process.
Opening ==
    stream.anchor = None =>
        /\ stream.last = <<>>
        /\ stream.queue = <<>> =>
              /\ stream.step = "fetch" /\ stream.query.from = None
              /\ stream.prev.time = Origin.time /\ stream.chain = None
        /\ stream.queue # <<>> => ~ IsCron(Head(stream.queue))

StreamTyped ==
    stream # NoStream =>
        /\ stream \in Streams
        /\ stream.right <= now
        /\ \A b \in stream.blocks : b.time <= now /\ Sec(b.time) <= Sec(stream.right)
        /\ stream.prev.time <= now
        /\ stream.queue \in Seq(Known)
        /\ stream.last \in Seq(Known)
        /\ stream.anchor # None => stream.anchor <= Len(schedule)
        /\ Opening

TypeInv ==
    /\ now \in Nat /\ Origin.time <= now /\ now <= MaxNow
    /\ InSchedule(schedule)
    /\ \A i \in 1 .. Len(schedule) : schedule[i].time <= now
    /\ pending # <<>> =>
          /\ pending = <<pending[1]>> /\ pending[1] \in Assignments
          /\ pending[1].nonce = Len(schedule) + 1
          /\ pending[1].time <= now
          /\ \A i \in 1 .. Len(schedule) : schedule[i].time <= pending[1].time
    /\ table \subseteq Mined
    /\ \A a, b \in rows : a.id = b.id => a = b
    /\ saves \subseteq {memory \in Memories :
                          memory.anchor <= Len(schedule) /\ memory.time <= now}
    /\ StreamTyped

-----------------------------------------------------------------------------
(* A page that is fetched.                                                 *)

Page == SqlPage(Process, ToSet(schedule), stream.query)

Taken == Valid(stream.chain, Page.edges)

Bounds == <<stream.prev>> \o [i \in DOMAIN Taken |-> Scheduled(Taken[i])]

\* The crons before a message, and the message.
UpTo(i) == CronMessages(Bounds[i], Bounds[i + 1], stream.blocks) \o <<Bounds[i + 1]>>

Merged == FlattenSeq([i \in DOMAIN Taken |-> UpTo(i)])

Whole == Len(Taken) = Len(Page.edges)

LastCrons ==
    IF Whole /\ ~ Page.more
    THEN Trailing(Last(Bounds), stream.right, stream.blocks) ELSE <<>>

LEMMA FetchIs ==
    Fetch => stream' = [stream EXCEPT
                !.step  = IF ~ Whole THEN "rejected" ELSE IF Page.more THEN "fetch" ELSE "drain",
                !.query = NextQuery(stream.query, Page),
                !.prev  = Last(Bounds),
                !.chain = IF Taken = <<>> THEN stream.chain ELSE Last(Taken).nonce,
                !.queue = stream.queue \o Merged \o LastCrons]
BY DEF Fetch, Page, Taken, Bounds, UpTo, Merged, Whole, LastCrons

LEMMA SlotIs ==
    ASSUME InSchedule(schedule), NEW i \in 0 .. Len(schedule)
    PROVE  /\ Slot(i) \in Assignments /\ Slot(i).nonce = i
           /\ Scheduled(Slot(i)) \in Messages
           /\ Scheduled(Slot(i)).ordinate = i
           /\ Scheduled(Slot(i)).time = Slot(i).time
           /\ ~ IsCron(Scheduled(Slot(i)))
<1>1. Process \in Assignments /\ Process.nonce = 0
  BY ProcessIs
<1>2. i # 0 => schedule[i] \in Assignments /\ schedule[i].nonce = i
  <2>1. i # 0 => i \in 1 .. Len(schedule)
    OBVIOUS
  <2>2. QED
    BY <2>1, ScheduleTimes DEF InSchedule
<1>4. Slot(i) \in Assignments /\ Slot(i).nonce = i
  BY <1>1, <1>2 DEF Slot
<1> PICK m : m = Slot(i)
  OBVIOUS
<1>5. /\ Scheduled(m) \in Messages /\ Scheduled(m).ordinate = i
      /\ Scheduled(m).time = m.time /\ Scheduled(m).cron = NoCron
  BY <1>4 DEF Scheduled, Messages, Assignments
<1>6. QED
  BY <1>4, <1>5 DEF IsCron

\* The first v edges of a page are taken, one at least if there is no hash chain.
TakenOf(taken, edges, chain, v) ==
    /\ v \in Nat /\ v <= Len(edges)
    /\ taken \in Seq(Assignments) /\ Len(taken) = v /\ DOMAIN taken = 1 .. v
    /\ \A i \in 1 .. v : taken[i] = edges[i]
    /\ chain = None /\ Len(edges) > 0 => v > 0

LEMMA ValidIs ==
    ASSUME NEW edges \in Seq(Assignments), NEW chain
    PROVE  \E v \in Nat : TakenOf(Valid(chain, edges), edges, chain, v)
<1> DEFINE before(i) == IF i = 1 THEN chain ELSE edges[i - 1].nonce
<1> PICK invalid, v :
      /\ invalid = {i \in DOMAIN edges : Validated /\ ~ IsHashChainValid(before(i), edges[i])}
      /\ v = IF invalid = {} THEN Len(edges) ELSE Min(invalid) - 1
  OBVIOUS
<1>1. Valid(chain, edges) = Prefix(edges, v)
  BY DEF Valid
<1>2. DOMAIN edges = 1 .. Len(edges) /\ Len(edges) \in Nat
  OBVIOUS
<1>3. v \in Nat /\ v <= Len(edges) /\ (chain = None /\ Len(edges) > 0 => v > 0)
  <2>1. CASE invalid = {}
    <3>1. v = Len(edges)
      BY <2>1
    <3>2. QED
      BY <1>2, <3>1
  <2>2. CASE invalid # {}
    <3>1. invalid \in SUBSET Nat
      BY <1>2
    <3>2. \E n \in invalid : \A m \in invalid : n <= m
      BY <2>2, <3>1, LeastNumber, Zenon
    <3>3. Min(invalid) \in invalid
      BY <3>2, Zenon DEF Min
    <3>4. v = Min(invalid) - 1
      BY <2>2
    <3> PICK k : k = Min(invalid)
      OBVIOUS
    <3>5. k \in 1 .. Len(edges) /\ ~ IsHashChainValid(before(k), edges[k])
      BY <1>2, <3>3
    <3>6. chain = None => k # 1
      BY <3>5 DEF IsHashChainValid
    <3>7. QED
      BY <1>2, <3>4, <3>5, <3>6
  <2>3. QED
    BY <2>1, <2>2
<1>4. PrefixOf(Prefix(edges, v), edges, v, Assignments)
  BY <1>3, PrefixIs
<1>5. (IF v < Len(edges) THEN v ELSE Len(edges)) = v
  <2>1. \A a, b \in Nat : a <= b => (IF a < b THEN a ELSE b) = a
    OBVIOUS
  <2>2. QED
    BY <1>2, <1>3, <2>1
<1>6. TakenOf(Prefix(edges, v), edges, chain, v)
  BY <1>3, <1>4, <1>5 DEF PrefixOf, TakenOf
<1>7. QED
  BY <1>1, <1>3, <1>6

\* What a fetch has found: n edges after c, of which v are taken.
Fetching(c, n, v) ==
    /\ InSchedule(schedule) /\ stream \in Streams
    /\ PageOf(Page, stream.query, c, n)
    /\ TakenOf(Taken, Page.edges, stream.chain, v)

LEMMA FetchFinds ==
    ASSUME InSchedule(schedule), stream \in Streams
    PROVE  \E c \in Int, n, v \in Nat : Fetching(c, n, v)
<1>1. stream.query \in Queries
  BY DEF Streams
<1>2. PICK c \in Int, n \in Nat : PageOf(Page, stream.query, c, n)
  BY <1>1, PageIs DEF Page
<1>3. Page.edges \in Seq(Assignments)
  BY <1>2 DEF PageOf
<1>4. PICK v \in Nat : TakenOf(Taken, Page.edges, stream.chain, v)
  BY <1>3, ValidIs DEF Taken
<1>5. Fetching(c, n, v)
  BY <1>2, <1>4 DEF Fetching
<1>6. QED
  BY <1>5

\* The places of a page: where it starts from, and each message that is taken.
LEMMA BoundsAre ==
    ASSUME NEW c \in Int, NEW n \in Nat, NEW v \in Nat, Fetching(c, n, v)
    PROVE  /\ Bounds \in Seq(Lefts) /\ Len(Bounds) = v + 1 /\ DOMAIN Taken = 1 .. v
           /\ v <= n /\ c + n <= Len(schedule) /\ Len(schedule) \in Nat /\ -1 <= c
           /\ Bounds[1] = stream.prev /\ stream.prev \in Lefts
           /\ \A i \in 1 .. v : c + i \in 0 .. Len(schedule) /\ Bounds[i + 1] = Scheduled(Slot(c + i))
           /\ Last(Bounds) = IF v = 0 THEN stream.prev ELSE Scheduled(Slot(c + v))
<1>1. /\ Len(schedule) \in Nat /\ c \in -1 .. Len(schedule) /\ c + n <= Len(schedule)
      /\ v <= n /\ DOMAIN Taken = 1 .. v
      /\ \A i \in 1 .. v : Taken[i] = Page.edges[i]
  BY ScheduleTimes DEF Fetching, PageOf, TakenOf
<1>2. \A i \in 1 .. v : i \in 1 .. n /\ c + i \in 0 .. Len(schedule)
  BY <1>1
<1>3. \A i \in 1 .. v : Taken[i] = Slot(c + i)
  BY <1>1, <1>2 DEF Fetching, PageOf
<1>4. stream.prev \in Lefts
  BY DEF Fetching, Streams
<1> PICK later : later = [i \in DOMAIN Taken |-> Scheduled(Taken[i])]
  OBVIOUS
<1>5. \A i \in 1 .. v : later[i] = Scheduled(Slot(c + i)) /\ later[i] \in Lefts
  <2>1. \A i \in 1 .. v : Scheduled(Slot(c + i)) \in Messages
    BY <1>2, SlotIs DEF Fetching
  <2>2. QED
    BY <1>1, <1>3, <2>1 DEF Lefts
<1>6. later \in Seq(Lefts) /\ Len(later) = v
  <2>1. later \in [1 .. v -> Lefts]
    BY <1>1, <1>5
  <2>2. \A f \in [1 .. v -> Lefts] : f \in Seq(Lefts) /\ Len(f) = v
    OBVIOUS
  <2>3. QED
    BY <2>1, <2>2, Zenon
<1>7. Bounds = <<stream.prev>> \o later
  BY DEF Bounds
<1>8. /\ Bounds \in Seq(Lefts) /\ Len(Bounds) = v + 1 /\ Bounds[1] = stream.prev
      /\ \A i \in 1 .. v : Bounds[i + 1] = later[i]
  BY <1>4, <1>6, <1>7
<1>9. Last(Bounds) = IF v = 0 THEN stream.prev ELSE Scheduled(Slot(c + v))
  <2>1. Last(Bounds) = Bounds[v + 1]
    BY <1>8 DEF Last
  <2>2. CASE v = 0
    BY <1>8, <2>1, <2>2
  <2>3. CASE v # 0
    <3>1. v \in 1 .. v
      BY <2>3
    <3>2. QED
      BY <1>5, <1>8, <2>1, <2>3, <3>1
  <2>4. QED
    BY <2>2, <2>3
<1>10. -1 <= c
  BY <1>1
<1>11. \A i \in 1 .. v : c + i \in 0 .. Len(schedule) /\ Bounds[i + 1] = Scheduled(Slot(c + i))
  BY <1>2, <1>5, <1>8
<1>12. QED
  BY <1>1, <1>4, <1>8, <1>9, <1>10, <1>11, Zenon

LEMMA SeqGrows ==
    ASSUME NEW S, NEW T, S \subseteq T, NEW s \in Seq(S)
    PROVE  s \in Seq(T)
OBVIOUS

LEMMA LeftsAre ==
    ASSUME NEW left \in Lefts
    PROVE  left.ordinate \in Nat /\ left.height \in Nat /\ left.time \in Nat
BY DEF Lefts, Messages

LEMMA BetweenAre ==
    ASSUME NEW left, NEW right, NEW m \in Between(left, right)
    PROVE  /\ m \in Entries /\ IsCron(m)
           /\ m.ordinate = left.ordinate /\ left.time <= m.time /\ m.time < right
<1>1. m \in Instants /\ m.ordinate = left.ordinate /\ left.time <= m.time /\ m.time < right
  BY DEF Between
<1>2. m.cron # <<>>
  <2>1. m.cron \in {"blocks", "seconds"} \X Nat
    BY <1>1 DEF Instants
  <2>2. \A x \in {"blocks", "seconds"} \X Nat : x # <<>>
    OBVIOUS
  <2>3. QED
    BY <2>1, <2>2
<1>3. QED
  BY <1>1, <1>2 DEF Entries, IsCron, NoCron

\* The crons before a message of a page.
LEMMA UpToIs ==
    ASSUME NEW c \in Int, NEW n \in Nat, NEW v \in Nat, Fetching(c, n, v), NEW i \in 1 .. v
    PROVE  \E crons \in Seq(Between(Bounds[i], Bounds[i + 1].time)) :
              /\ UpTo(i) = crons \o <<Bounds[i + 1]>>
              /\ Bounds[i + 1].time <= Bounds[i].time => crons = <<>>
<1>1. Bounds \in Seq(Lefts) /\ Len(Bounds) = v + 1
  BY BoundsAre
<1>2. i \in 1 .. v + 1 /\ i + 1 \in 1 .. v + 1
  OBVIOUS
<1>3. Bounds[i] \in Lefts /\ Bounds[i + 1] \in Lefts
  BY <1>1, <1>2
<1>4. /\ Bounds[i].time \in Nat /\ Bounds[i].height \in Nat /\ Bounds[i].ordinate \in Nat
      /\ Bounds[i + 1].time \in Nat
  BY <1>3, LeftsAre
<1>5. stream.blocks \in SUBSET Blocks
  BY DEF Fetching, Streams
<1> PICK crons : crons = CronMessages(Bounds[i], Bounds[i + 1], stream.blocks)
  OBVIOUS
<1>6. /\ crons \in Seq(Between(Bounds[i], Bounds[i + 1].time))
      /\ Bounds[i + 1].time <= Bounds[i].time => crons = <<>>
  BY <1>4, <1>5, CronMessagesType
<1>7. UpTo(i) = crons \o <<Bounds[i + 1]>>
  BY DEF UpTo
<1>8. QED
  BY <1>6, <1>7

LEMMA MergedType ==
    ASSUME NEW c \in Int, NEW n \in Nat, NEW v \in Nat, Fetching(c, n, v), NEW T,
           \A i \in 1 .. v : Bounds[i + 1] \in T /\ Between(Bounds[i], Bounds[i + 1].time) \subseteq T
    PROVE  /\ [i \in DOMAIN Taken |-> UpTo(i)] \in Seq(Seq(T))
           /\ Merged \in Seq(T)
<1>1. DOMAIN Taken = 1 .. v
  BY BoundsAre
<1>2. ASSUME NEW i \in 1 .. v PROVE UpTo(i) \in Seq(T)
  <2>1. PICK crons \in Seq(Between(Bounds[i], Bounds[i + 1].time)) :
          UpTo(i) = crons \o <<Bounds[i + 1]>>
    BY UpToIs
  <2>2. crons \in Seq(T)
    BY SeqGrows
  <2>3. Bounds[i + 1] \in T
    OBVIOUS
  <2> HIDE DEF Bounds, UpTo
  <2>4. \A s \in Seq(T), x \in T : s \o <<x>> \in Seq(T)
    OBVIOUS
  <2>5. QED
    BY <2>1, <2>2, <2>3, <2>4
<1> PICK ss : ss = [i \in DOMAIN Taken |-> UpTo(i)]
  OBVIOUS
<1>3. ss \in [1 .. v -> Seq(T)]
  BY <1>1, <1>2
<1>4. ss \in Seq(Seq(T))
  <2>1. \A f \in [1 .. v -> Seq(T)] : f \in Seq(Seq(T))
    OBVIOUS
  <2>2. QED
    BY <1>3, <2>1, Zenon
<1>5. Merged = FlattenSeq(ss)
  BY DEF Merged
<1>6. Merged \in Seq(T)
  BY <1>4, <1>5, FlattenType
<1>7. QED
  BY <1>4, <1>6

\* The crons that follow the last page.
LEMMA LastCronsAre ==
    ASSUME NEW c \in Int, NEW n \in Nat, NEW v \in Nat, Fetching(c, n, v)
    PROVE  LastCrons \in Seq(Between(Last(Bounds), stream.right))
<1>1. Last(Bounds) \in Lefts
  <2>1. Bounds \in Seq(Lefts) /\ Len(Bounds) = v + 1
    BY BoundsAre
  <2>2. \A s \in Seq(Lefts) : Len(s) > 0 => Last(s) \in Lefts
    BY DEF Last
  <2>3. v + 1 > 0
    OBVIOUS
  <2>4. QED
    BY <2>1, <2>2, <2>3
<1> PICK left : left = Last(Bounds)
  OBVIOUS
<1>2. left.time \in Nat /\ left.height \in Nat /\ left.ordinate \in Nat
  BY <1>1, LeftsAre
<1>3. stream.blocks \in SUBSET Blocks /\ stream.right \in Nat
  BY DEF Fetching, Streams
<1>4. CronMessages(left, [time |-> stream.right], stream.blocks) \in Seq(Between(left, stream.right))
  <2> PICK right : right = [time |-> stream.right]
    OBVIOUS
  <2>1. right.time = stream.right
    OBVIOUS
  <2>2. CronMessages(left, right, stream.blocks) \in Seq(Between(left, right.time))
    BY <1>2, <1>3, <2>1, CronMessagesType
  <2>3. QED
    BY <2>1, <2>2
<1>5. \/ LastCrons = CronMessages(left, [time |-> stream.right], stream.blocks)
      \/ LastCrons = <<>>
  BY DEF LastCrons, Trailing
<1>6. <<>> \in Seq(Between(left, stream.right))
  OBVIOUS
<1>7. QED
  BY <1>4, <1>5, <1>6

\* The first page begins with the process.
LEMMA MergedFirst ==
    ASSUME NEW c \in Int, NEW n \in Nat, NEW v \in Nat, Fetching(c, n, v),
           stream.chain = None, stream.query.from = None, stream.prev.time = Origin.time
    PROVE  c = -1 /\ v > 0 /\ Merged # <<>> /\ ~ IsCron(Head(Merged))
<1>1. c = -1 /\ n > 0 /\ Len(Page.edges) = n
  BY DEF Fetching, PageOf
<1>2. v > 0 /\ DOMAIN Taken = 1 .. v
  BY <1>1 DEF Fetching, TakenOf
<1>3. 1 \in 1 .. v
  BY <1>2
<1>4. Bounds[1] = stream.prev /\ Bounds[1 + 1] = Scheduled(Slot(0)) /\ 0 \in 0 .. Len(schedule)
  <2>1. c + 1 = 0
    BY <1>1
  <2>2. Bounds[1] = stream.prev
    BY BoundsAre
  <2>3. c + 1 \in 0 .. Len(schedule) /\ Bounds[1 + 1] = Scheduled(Slot(c + 1))
    BY <1>3, BoundsAre
  <2>4. QED
    BY <2>1, <2>2, <2>3
<1> PICK m : m = Scheduled(Slot(0))
  OBVIOUS
<1>5. m \in Messages /\ m.time = Origin.time /\ ~ IsCron(m)
  <2>1. Slot(0).time = Origin.time
    BY DEF Slot, Process
  <2>2. QED
    BY <1>4, <2>1, SlotIs DEF Fetching
<1>6. Origin.time \in Nat
  BY MessagesAssumption
<1>7. UpTo(1) = <<m>>
  <2>1. PICK crons \in Seq(Between(Bounds[1], Bounds[1 + 1].time)) :
          /\ UpTo(1) = crons \o <<Bounds[1 + 1]>>
          /\ Bounds[1 + 1].time <= Bounds[1].time => crons = <<>>
    BY <1>3, UpToIs
  <2>2. crons = <<>>
    BY <1>4, <1>5, <1>6, <2>1
  <2>3. UpTo(1) = <<>> \o <<m>>
    BY <1>4, <2>1, <2>2
  <2>4. QED
    BY <2>3
<1> PICK ss : ss = [i \in DOMAIN Taken |-> UpTo(i)]
  OBVIOUS
<1>8. ss \in Seq(Seq(Entries)) /\ Merged = FlattenSeq(ss)
  <2>1. \A i \in 1 .. v : /\ Bounds[i + 1] \in Entries
                          /\ Between(Bounds[i], Bounds[i + 1].time) \subseteq Entries
    <3>1. \A i \in 1 .. v : c + i \in 0 .. Len(schedule) /\ Bounds[i + 1] = Scheduled(Slot(c + i))
      BY BoundsAre
    <3>2. \A i \in 1 .. v : Bounds[i + 1] \in Messages
      BY <3>1, SlotIs DEF Fetching
    <3>3. QED
      BY <3>2 DEF Between, Entries
  <2>2. QED
    BY <2>1, MergedType DEF Merged
<1>9. ss # <<>> /\ ss[1] = <<m>>
  BY <1>2, <1>3, <1>7
<1>10. ss[1] # <<>> /\ Head(ss[1]) = m
  <2>1. <<m>> # <<>> /\ Head(<<m>>) = m
    OBVIOUS
  <2>2. QED
    BY <1>9, <2>1
<1>11. Merged # <<>> /\ Head(Merged) = m
  BY <1>8, <1>9, <1>10, FlattenFirst
<1>12. QED
  BY <1>1, <1>2, <1>5, <1>11

LEMMA MergedChain ==
    ASSUME NEW c \in Int, NEW n \in Nat, NEW v \in Nat, Fetching(c, n, v),
           \/ stream.prev.ordinate = c
           \/ c = -1 /\ stream.prev.time = Origin.time
    PROVE  Chain(Merged, c, c + v)
<1>1. DOMAIN Taken = 1 .. v /\ Bounds[1] = stream.prev
  BY BoundsAre
<1>2. \A i \in 1 .. v : c + i \in 0 .. Len(schedule) /\ Bounds[i + 1] = Scheduled(Slot(c + i))
  BY BoundsAre
<1>3. ASSUME NEW i \in 1 .. v
      PROVE  /\ Bounds[i + 1] \in Messages /\ ~ IsCron(Bounds[i + 1])
             /\ Bounds[i + 1].ordinate = c + i /\ Bounds[i + 1].time = Slot(c + i).time
  BY <1>2, SlotIs DEF Fetching
<1>4. ASSUME NEW i \in 1 .. v PROVE UpTo(i) \in Seq(Entries) /\ Chain(UpTo(i), c + i - 1, c + i)
  <2>1. PICK crons \in Seq(Between(Bounds[i], Bounds[i + 1].time)) :
          /\ UpTo(i) = crons \o <<Bounds[i + 1]>>
          /\ Bounds[i + 1].time <= Bounds[i].time => crons = <<>>
    BY UpToIs
  <2> PICK m : m = Bounds[i + 1]
    OBVIOUS
  <2>2. m \in Entries /\ ~ IsCron(m) /\ m.ordinate = c + i
    BY <1>3 DEF Entries
  <2>3. crons \in Seq(Entries)
    BY BetweenAre, SeqGrows
  <2>4. Chain(crons, c + i - 1, c + i - 1)
    <3>1. CASE crons = <<>>
      <4>1. Chain(<<>>, c + i - 1, c + i - 1)
        BY DEF Chain
      <4>2. QED
        BY <3>1, <4>1
    <3>2. CASE Bounds[i].ordinate = c + i - 1
      <4>1. \A x \in Between(Bounds[i], Bounds[i + 1].time) : IsCron(x) /\ x.ordinate = c + i - 1
        BY <3>2, BetweenAre
      <4>2. c + i - 1 \in Int
        OBVIOUS
      <4>3. QED
        BY <4>1, <4>2, ChainCrons
    <3>3. CASE i = 1
      <4>1. CASE stream.prev.ordinate = c
        <5>1. Bounds[i].ordinate = c + i - 1
          BY <1>1, <3>3, <4>1
        <5>2. QED
          BY <3>2, <5>1
      <4>2. CASE c = -1 /\ stream.prev.time = Origin.time
        <5>1. Bounds[i + 1].time = Slot(0).time
          BY <1>3, <3>3, <4>2
        <5>2. Slot(0).time = Origin.time /\ Origin.time \in Nat
          BY MessagesAssumption DEF Slot, Process
        <5>3. Bounds[i].time = Origin.time
          BY <1>1, <3>3, <4>2
        <5>4. crons = <<>>
          BY <2>1, <5>1, <5>2, <5>3
        <5>5. QED
          BY <3>1, <5>4
      <4>3. QED
        BY <4>1, <4>2
    <3>4. CASE i # 1
      <4>1. i - 1 \in 1 .. v /\ (i - 1) + 1 = i /\ c + (i - 1) = c + i - 1
        BY <3>4
      <4>2. Bounds[(i - 1) + 1].ordinate = c + (i - 1)
        BY <1>3, <4>1
      <4>3. Bounds[i].ordinate = c + i - 1
        BY <4>1, <4>2
      <4>4. QED
        BY <3>2, <4>3
    <3>5. QED
      BY <3>3, <3>4
  <2>5. Chain(<<m>>, c + i - 1, c + i)
    <3>1. m.ordinate = (c + i - 1) + 1
      BY <2>2
    <3>2. Len(<<m>>) = 1 /\ <<m>>[1] = m /\ <<m>> # <<>>
      OBVIOUS
    <3>3. QED
      BY <2>2, <3>1, <3>2 DEF Chain
  <2>6. <<m>> \in Seq(Entries)
    BY <2>2
  <2>7. Chain(crons \o <<m>>, c + i - 1, c + i)
    BY <2>3, <2>4, <2>5, <2>6, ChainConcat
  <2>8. crons \o <<m>> \in Seq(Entries)
    BY <2>3, <2>6
  <2>9. QED
    BY <2>1, <2>7, <2>8
<1> PICK ss : ss = [i \in DOMAIN Taken |-> UpTo(i)]
  OBVIOUS
<1>5. ss \in Seq(Seq(Entries)) /\ Len(ss) = v
  <2>1. ss \in [1 .. v -> Seq(Entries)]
    BY <1>1, <1>4
  <2>2. \A f \in [1 .. v -> Seq(Entries)] : f \in Seq(Seq(Entries)) /\ Len(f) = v
    OBVIOUS
  <2>3. QED
    BY <2>1, <2>2, Zenon
<1>6. \A i \in 1 .. Len(ss) : Chain(ss[i], c + i - 1, c + i)
  BY <1>1, <1>4, <1>5
<1>7. Chain(FlattenSeq(ss), c, c + Len(ss))
  BY <1>5, <1>6, FlattenChain
<1>8. QED
  BY <1>5, <1>7 DEF Merged

-----------------------------------------------------------------------------
(* The types.                                                              *)

LEMMA MinedAre ==
    \A b \in Mined : b \in Blocks /\ b.height \in Nat /\ b.time \in Nat /\ b.time <= now
BY MessagesAssumption DEF Mined

LEMMA TypeInit == Init => TypeInv
<1> SUFFICES ASSUME Init PROVE TypeInv
  OBVIOUS
<1>1. now \in Nat /\ Origin.time <= now /\ now <= MaxNow
  BY MessagesAssumption, EvaluateAssumption DEF Init
<1>2. InSchedule(schedule) /\ \A i \in 1 .. Len(schedule) : schedule[i].time <= now
  BY DEF Init, InSchedule
<1>3. QED
  BY <1>1, <1>2 DEF Init, TypeInv, StreamTyped

LEMMA KnownGrows ==
    ASSUME now \in Nat, now' \in Nat, Len(schedule) \in Nat, Len(schedule)' \in Nat,
           now <= now', Len(schedule) <= Len(schedule)'
    PROVE  Known \subseteq Known'
<1>1. ASSUME NEW m \in Known PROVE m \in Known'
  <2>1. m \in Entries /\ m.time <= now /\ (~ IsCron(m) => m.ordinate <= Len(schedule))
    BY DEF Known
  <2>2. m.time \in Nat /\ m.ordinate \in Nat
    BY <2>1 DEF Entries, Messages, Instants
  <2>3. m.time <= now' /\ (~ IsCron(m) => m.ordinate <= Len(schedule)')
    BY <2>1, <2>2
  <2>4. QED
    BY <2>1, <2>3 DEF Known
<1>2. QED
  BY <1>1

LEMMA StreamStays ==
    ASSUME StreamTyped, stream' = stream, now \in Nat, now' \in Nat,
           Len(schedule) \in Nat, Len(schedule)' \in Nat,
           now <= now', Len(schedule) <= Len(schedule)'
    PROVE  StreamTyped'
<1> SUFFICES ASSUME stream # NoStream PROVE StreamTyped'
  BY DEF StreamTyped
<1>1. /\ stream \in Streams
      /\ stream.right <= now
      /\ \A b \in stream.blocks : b.time <= now /\ Sec(b.time) <= Sec(stream.right)
      /\ stream.prev.time <= now
      /\ stream.queue \in Seq(Known)
      /\ stream.last \in Seq(Known)
      /\ stream.anchor # None => stream.anchor <= Len(schedule)
      /\ Opening
  BY DEF StreamTyped
<1>2. /\ stream.right \in Nat /\ stream.prev \in Lefts /\ stream.blocks \in SUBSET Blocks
      /\ stream.anchor \in Nat \cup {None}
  BY <1>1 DEF Streams
<1>3. stream.prev.time \in Nat
  BY <1>2, LeftsAre
<1>4. stream.right <= now' /\ stream.prev.time <= now'
  BY <1>1, <1>2, <1>3
<1>5. \A b \in stream.blocks : b.time <= now'
  <2>1. \A b \in stream.blocks : b.time \in Nat
    BY <1>2, MessagesAssumption
  <2>2. QED
    BY <1>1, <2>1
<1>6. stream.queue \in Seq(Known') /\ stream.last \in Seq(Known')
  BY <1>1, KnownGrows, SeqGrows
<1>7. stream.anchor # None => stream.anchor <= Len(schedule)'
  BY <1>1, <1>2
<1>8. Opening'
  BY <1>1 DEF Opening
<1>9. QED
  BY <1>1, <1>4, <1>5, <1>6, <1>7, <1>8 DEF StreamTyped

\* The crons that a stream knows once it has passed m.
Knows(m) ==
    IF IsCron(m) THEN stream.evaled \cup {[cron |-> m.cron, time |-> m.time]} ELSE stream.evaled

\* The head of a queue is passed.
PassedOf(s, m) ==
    /\ s \in Streams
    /\ s.queue = Tail(stream.queue) /\ s.queue \in Seq(Known)
    /\ s.anchor = IF IsCron(m) THEN stream.anchor ELSE m.ordinate
    /\ s.anchor # None /\ s.anchor <= Len(schedule)
    /\ s.step = stream.step /\ s.query = stream.query /\ s.right = stream.right
    /\ s.prev = stream.prev /\ s.blocks = stream.blocks /\ s.chain = stream.chain
    /\ s.evaled = Knows(m) /\ s.fold = stream.fold /\ s.last = stream.last

LEMMA HeadIs ==
    ASSUME StreamTyped, stream # NoStream, stream.queue # <<>>
    PROVE  /\ Head(stream.queue) \in Known /\ Head(stream.queue) \in Entries
           /\ Tail(stream.queue) \in Seq(Known) /\ Tail(stream.queue) \in Seq(Entries)
<1>1. stream.queue \in Seq(Known) /\ stream.queue \in Seq(Entries)
  BY DEF StreamTyped, Streams
<1>2. QED
  BY <1>1

LEMMA PassedIs ==
    ASSUME StreamTyped, stream # NoStream, stream.queue # <<>>, NEW m, m = Head(stream.queue)
    PROVE  PassedOf(Passed(m), m)
<1>1. /\ m \in Known /\ m \in Entries
      /\ Tail(stream.queue) \in Seq(Known) /\ Tail(stream.queue) \in Seq(Entries)
  BY HeadIs
<1>2. stream \in Streams /\ Opening /\ (stream.anchor # None => stream.anchor <= Len(schedule))
  BY DEF StreamTyped
<1>3. m.ordinate \in Nat /\ m.time \in Nat /\ (IsCron(m) => m.cron \in CronNames)
  BY <1>1 DEF Entries, Messages, Instants, IsCron, CronNames
<1> PICK evaled, anchor :
      /\ evaled = Knows(m)
      /\ anchor = IF IsCron(m) THEN stream.anchor ELSE m.ordinate
  OBVIOUS
<1>4. Passed(m) = [stream EXCEPT !.queue = Tail(stream.queue), !.evaled = evaled, !.anchor = anchor]
  BY DEF Passed, Knows
<1>5. evaled \in SUBSET [cron : CronNames, time : Nat]
  <2>1. stream.evaled \in SUBSET [cron : CronNames, time : Nat]
    BY <1>2 DEF Streams
  <2>2. IsCron(m) => [cron |-> m.cron, time |-> m.time] \in [cron : CronNames, time : Nat]
    BY <1>3
  <2>3. QED
    BY <2>1, <2>2 DEF Knows
<1>6. anchor \in Nat /\ anchor # None /\ anchor <= Len(schedule)
  <2>1. CASE IsCron(m)
    <3>1. stream.anchor # None
      BY <2>1 DEF StreamTyped, Opening
    <3>2. stream.anchor \in Nat
      BY <1>2, <3>1 DEF Streams
    <3>3. QED
      BY <1>2, <2>1, <3>1, <3>2
  <2>2. CASE ~ IsCron(m)
    BY <1>1, <1>3, <2>2 DEF Known, None
  <2>3. QED
    BY <2>1, <2>2
<1> PICK s : s = Passed(m)
  OBVIOUS
<1>7. /\ s \in Streams
      /\ s.queue = Tail(stream.queue) /\ s.anchor = anchor
      /\ s.step = stream.step /\ s.query = stream.query /\ s.right = stream.right
      /\ s.prev = stream.prev /\ s.blocks = stream.blocks /\ s.chain = stream.chain
      /\ s.evaled = evaled /\ s.fold = stream.fold /\ s.last = stream.last
  BY <1>1, <1>2, <1>4, <1>5, <1>6 DEF Streams
<1>8. QED
  BY <1>1, <1>6, <1>7 DEF PassedOf

\* A stream begins after a memory that was saved, or cold.
LEMMA StartIs ==
    ASSUME TypeInv, NEW memory \in saves \cup {Cold}
    PROVE  /\ memory.time \in Nat \cup {None} /\ memory.anchor \in Nat \cup {None}
           /\ memory.ordinate \in Nat /\ memory.height \in Nat /\ memory.fold \in Seq(Traces)
           /\ memory.time \in Nat => memory.time <= now
           /\ memory.cron # NoCron => memory.cron \in CronNames /\ memory.time \in Nat
           /\ memory.anchor # None => memory.anchor <= Len(schedule)
           /\ memory.anchor = None <=> memory = Cold
           /\ memory.time = None <=> memory = Cold
           /\ LeftMost(memory) \in [ordinate : Nat, height : Nat, time : Nat]
           /\ LeftMost(memory).time <= now
           /\ LeftMost(memory).ordinate = memory.ordinate
           /\ LeftMost(memory).time = IF memory.time = None THEN Origin.time ELSE memory.time
<1>1. Origin.time \in Nat /\ Origin.height \in Nat /\ now \in Nat /\ Origin.time <= now
  BY MessagesAssumption DEF TypeInv
<1>2. /\ Cold.time = None /\ Cold.anchor = None /\ Cold.ordinate = 0 /\ Cold.height \in Nat
      /\ Cold.fold \in Seq(Traces) /\ Cold.cron = NoCron
  BY <1>1 DEF Cold
<1>3. None \notin Nat
  BY DEF None
<1>4. ASSUME memory # Cold
      PROVE  /\ memory \in Memories /\ memory.anchor <= Len(schedule) /\ memory.time <= now
             /\ memory.time \in Nat /\ memory.anchor \in Nat /\ memory.ordinate \in Nat
             /\ memory.height \in Nat /\ memory.fold \in Seq(Traces)
             /\ memory.cron \in {NoCron} \cup CronNames
  <2>1. memory \in Memories /\ memory.anchor <= Len(schedule) /\ memory.time <= now
    BY <1>4 DEF TypeInv
  <2>2. QED
    BY <2>1 DEF Memories
<1>5. /\ memory.time \in Nat \cup {None} /\ memory.anchor \in Nat \cup {None}
      /\ memory.ordinate \in Nat /\ memory.height \in Nat /\ memory.fold \in Seq(Traces)
      /\ memory.time \in Nat => memory.time <= now
      /\ memory.cron # NoCron => memory.cron \in CronNames /\ memory.time \in Nat
      /\ memory.anchor # None => memory.anchor <= Len(schedule)
      /\ memory.anchor = None <=> memory = Cold
      /\ memory.time = None <=> memory = Cold
  <2>1. CASE memory = Cold
    BY <1>2, <1>3, <2>1
  <2>2. CASE memory # Cold
    BY <1>3, <1>4, <2>2
  <2>3. QED
    BY <2>1, <2>2
<1> PICK time : time = IF memory.time = None THEN Origin.time ELSE memory.time
  OBVIOUS
<1>6. time \in Nat /\ time <= now
  BY <1>1, <1>5
<1>7. LeftMost(memory) = [ordinate |-> memory.ordinate, height |-> memory.height, time |-> time]
  BY DEF LeftMost
<1>8. QED
  BY <1>5, <1>6, <1>7

\* The stream that begins after a memory.
BegunOf(s, memory, to, right) ==
    /\ right = (IF to = None THEN now ELSE to) /\ right \in Nat /\ right <= now
    /\ s \in Streams
    /\ s.step = "fetch" /\ s.right = right /\ s.prev = LeftMost(memory)
    /\ s.query = [mode |-> "timestamp", from |-> memory.time, to |-> to, limit |-> PageSize]
    /\ s.blocks \subseteq Mined /\ \A b \in s.blocks : Sec(b.time) <= Sec(right)
    /\ s.chain = memory.anchor /\ s.queue = <<>> /\ s.anchor = memory.anchor
    /\ s.evaled = Seed(memory) /\ s.fold = memory.fold /\ s.last = <<>>
    /\ s # NoStream

LEMMA BeginIs ==
    ASSUME TypeInv, NEW memory \in saves \cup {Cold},
           NEW to \in {None} \cup Origin.time .. now, Begin(memory, to)
    PROVE  /\ \E right : BegunOf(stream', memory, to, right)
           /\ table' \subseteq Mined
<1> PICK right, left, blocks :
      /\ right = (IF to = None THEN now ELSE to) /\ left = LeftMost(memory)
      /\ blocks = ReconcileBlocks(table, Mined, left.height, right)
  OBVIOUS
<1>1. now \in Nat /\ Origin.time \in Nat /\ Origin.time <= now /\ table \subseteq Mined
  BY MessagesAssumption DEF TypeInv
<1>2. right \in Nat /\ right <= now /\ to \in Nat \cup {None}
  BY <1>1
<1>3. /\ memory.time \in Nat \cup {None} /\ memory.anchor \in Nat \cup {None}
      /\ memory.fold \in Seq(Traces)
      /\ memory.cron # NoCron => memory.cron \in CronNames /\ memory.time \in Nat
      /\ left \in [ordinate : Nat, height : Nat, time : Nat]
  BY StartIs
<1>4. /\ \A b \in Loaded(table, Mined, left.height, right) : b \in Mined
      /\ \A b \in blocks : b \in Mined /\ Sec(b.time) <= Sec(right)
  <2>1. Mined \subseteq Blocks /\ left.height \in Nat /\ table \in SUBSET Blocks
    BY <1>1, <1>3, MinedAre
  <2>2. /\ \A b \in Loaded(table, Mined, left.height, right) :
              b \in Mined /\ Sec(b.time) <= Sec(right)
        /\ \A b \in ReconcileBlocks(table, Mined, left.height, right) :
              b \in table \cup Mined /\ Sec(b.time) <= Sec(right)
    BY <1>2, <2>1, LoadedIs
  <2>3. QED
    BY <1>1, <2>2
<1>5. table' \subseteq Mined
  <2>1. table' = table \/ table' = table \cup Loaded(table, Mined, left.height, right)
    BY DEF Begin
  <2>2. QED
    BY <1>1, <1>4, <2>1
<1> PICK evaled : evaled = Seed(memory)
  OBVIOUS
<1>6. evaled \in SUBSET [cron : CronNames, time : Nat]
  BY <1>3 DEF Seed
<1> PICK query : query = [mode |-> "timestamp", from |-> memory.time, to |-> to, limit |-> PageSize]
  OBVIOUS
<1>7. query \in Queries
  BY <1>2, <1>3, EvaluateAssumption DEF Queries
<1>8. left \in Lefts /\ blocks \in SUBSET Blocks
  BY <1>3, <1>4, MinedAre DEF Lefts
<1> PICK s : s = stream'
  OBVIOUS
<1>9. s = [step |-> "fetch", query |-> query, right |-> right, prev |-> left, blocks |-> blocks,
           chain |-> memory.anchor, queue |-> <<>>, evaled |-> evaled, anchor |-> memory.anchor,
           fold |-> memory.fold, last |-> <<>>]
  BY DEF Begin
<1>10. s \in Streams
  BY <1>2, <1>3, <1>6, <1>7, <1>8, <1>9 DEF Streams
<1>11. BegunOf(s, memory, to, right)
  <2>1. s.step = "fetch" /\ s # NoStream
    BY <1>9 DEF NoStream
  <2>2. QED
    BY <1>2, <1>4, <1>9, <1>10, <2>1 DEF BegunOf
<1>12. QED
  BY <1>5, <1>11

\* The head of a queue is evaluated.
EvaluatedOf(s, m) ==
    /\ s \in Streams
    /\ s.queue = Tail(stream.queue) /\ s.queue \in Seq(Known)
    /\ s.anchor # None /\ s.anchor <= Len(schedule)
    /\ s.step = stream.step /\ s.query = stream.query /\ s.right = stream.right
    /\ s.prev = stream.prev /\ s.blocks = stream.blocks /\ s.evaled = Knows(m)
    /\ s.fold = IF Fails(m) THEN stream.fold ELSE Append(stream.fold, Trace(m))
    /\ s.last = <<m>> /\ s.last \in Seq(Known)

LEMMA EvaluateIs ==
    ASSUME StreamTyped, Evaluate, NEW m, m = Head(stream.queue)
    PROVE  /\ stream # NoStream /\ stream.queue # <<>> /\ ~ IsDuplicate(m)
           /\ EvaluatedOf(stream', m)
<1>1. stream # NoStream /\ stream.queue # <<>> /\ ~ IsDuplicate(m)
  BY DEF Evaluate
<1>2. PassedOf(Passed(m), m)
  BY <1>1, PassedIs
<1> PICK s, fold : s = Passed(m) /\ fold = IF Fails(m) THEN stream.fold ELSE Append(stream.fold, Trace(m))
  OBVIOUS
<1>3. s \in Streams /\ s.fold = stream.fold
  BY <1>2 DEF PassedOf
<1>4. stream' = [s EXCEPT !.fold = fold, !.last = <<m>>]
  BY <1>3 DEF Evaluate
<1>5. m \in Known /\ m \in Entries
  BY <1>1, HeadIs
<1>6. Trace(m) \in Traces
  <2>1. m.time \in Nat /\ m.ordinate \in Nat /\ m.cron \in {NoCron} \cup CronNames
    BY <1>5 DEF Entries, Messages, Instants, CronNames
  <2>2. QED
    BY <2>1 DEF Trace, Traces
<1>7. fold \in Seq(Traces)
  <2>1. stream.fold \in Seq(Traces)
    BY <1>3 DEF Streams
  <2>2. QED
    BY <1>6, <2>1
<1>8. <<m>> \in Seq(Entries) /\ <<m>> \in Seq(Known)
  BY <1>5
<1> PICK t : t = stream'
  OBVIOUS
<1>9. /\ t \in Streams /\ t.fold = fold /\ t.last = <<m>>
      /\ t.queue = s.queue /\ t.anchor = s.anchor
      /\ t.step = s.step /\ t.query = s.query /\ t.right = s.right
      /\ t.prev = s.prev /\ t.blocks = s.blocks /\ t.evaled = s.evaled
  BY <1>3, <1>4, <1>7, <1>8 DEF Streams
<1>10. EvaluatedOf(t, m)
  BY <1>2, <1>8, <1>9 DEF PassedOf, EvaluatedOf
<1>11. QED
  BY <1>1, <1>10

\* A page is fetched.
FetchedOf(s) ==
    /\ s \in Streams
    /\ s.step = IF ~ Whole THEN "rejected" ELSE IF Page.more THEN "fetch" ELSE "drain"
    /\ s.query = NextQuery(stream.query, Page)
    /\ s.prev = Last(Bounds)
    /\ s.queue = stream.queue \o Merged \o LastCrons
    /\ s.right = stream.right /\ s.blocks = stream.blocks /\ s.anchor = stream.anchor
    /\ s.evaled = stream.evaled /\ s.fold = stream.fold /\ s.last = stream.last

LEMMA NextQueryIs ==
    ASSUME NEW c \in Int, NEW n \in Nat, NEW v \in Nat, Fetching(c, n, v)
    PROVE  /\ NextQuery(stream.query, Page) \in Queries
           /\ NextQuery(stream.query, Page).to = stream.query.to
           /\ NextQuery(stream.query, Page).limit = stream.query.limit
           /\ NextQuery(stream.query, Page).from = IF n = 0 THEN None ELSE Slot(c + n).time
<1> PICK q, e : q = stream.query /\ e = Page.edges
  OBVIOUS
<1>1. q \in Queries
  BY DEF Fetching, Streams
<1>2. /\ e \in Seq(Assignments) /\ Len(e) = n /\ \A i \in 1 .. n : e[i] = Slot(c + i)
  BY DEF Fetching, PageOf
<1> PICK from : from = IF e = <<>> THEN None ELSE Cursor(q.mode, Last(e))
  OBVIOUS
<1>3. from = (IF n = 0 THEN None ELSE Slot(c + n).time) /\ from \in Nat \cup {None}
  <2>1. CASE e = <<>>
    BY <1>2, <2>1
  <2>2. CASE e # <<>>
    <3>1. n > 0 /\ n \in 1 .. n
      BY <1>2, <2>2
    <3>2. Last(e) = Slot(c + n) /\ Last(e) \in Assignments
      BY <1>2, <3>1 DEF Last
    <3>3. q.mode = "timestamp"
      BY <1>1 DEF Queries
    <3>4. from = Slot(c + n).time
      BY <2>2, <3>2, <3>3 DEF Cursor
    <3>5. from \in Nat
      BY <3>2, <3>4 DEF Assignments
    <3>6. QED
      BY <3>1, <3>4, <3>5
  <2>3. QED
    BY <2>1, <2>2
<1>4. NextQuery(q, Page) = [q EXCEPT !.from = from]
  BY DEF NextQuery
<1>5. QED
  BY <1>1, <1>3, <1>4 DEF Queries

LEMMA FetchTypes ==
    ASSUME NEW c \in Int, NEW n \in Nat, NEW v \in Nat, Fetching(c, n, v), Fetch
    PROVE  FetchedOf(stream')
<1>1. stream \in Streams
  BY DEF Fetching
<1> PICK step, query, prev, chain, queue :
      /\ step = (IF ~ Whole THEN "rejected" ELSE IF Page.more THEN "fetch" ELSE "drain")
      /\ query = NextQuery(stream.query, Page)
      /\ prev = Last(Bounds)
      /\ chain = (IF Taken = <<>> THEN stream.chain ELSE Last(Taken).nonce)
      /\ queue = stream.queue \o Merged \o LastCrons
  OBVIOUS
<1>2. stream' = [stream EXCEPT !.step = step, !.query = query, !.prev = prev, !.chain = chain,
                               !.queue = queue]
  BY FetchIs
<1>3. step \in {"fetch", "drain", "rejected"} /\ query \in Queries
  BY NextQueryIs
<1>4. /\ Bounds \in Seq(Lefts) /\ Len(Bounds) = v + 1 /\ stream.prev \in Lefts
      /\ \A i \in 1 .. v : c + i \in 0 .. Len(schedule) /\ Bounds[i + 1] = Scheduled(Slot(c + i))
  BY BoundsAre
<1>5. prev \in Lefts
  <2>1. v + 1 \in 1 .. v + 1
    OBVIOUS
  <2>2. QED
    BY <1>4, <2>1 DEF Last
<1>6. chain \in Nat \cup {None}
  <2>1. Taken \in Seq(Assignments)
    BY DEF Fetching, TakenOf
  <2>2. ASSUME Taken # <<>> PROVE Last(Taken) \in Assignments
    BY <2>1, <2>2 DEF Last
  <2>3. stream.chain \in Nat \cup {None}
    BY <1>1 DEF Streams
  <2>4. QED
    BY <2>2, <2>3 DEF Assignments
<1>7. Merged \in Seq(Entries)
  <2>1. \A i \in 1 .. v : Bounds[i + 1] \in Entries
    BY <1>4, SlotIs DEF Fetching, Entries
  <2>2. \A i \in 1 .. v : Between(Bounds[i], Bounds[i + 1].time) \subseteq Entries
    BY BetweenAre
  <2>3. QED
    BY <2>1, <2>2, MergedType
<1>8. LastCrons \in Seq(Entries)
  <2>1. LastCrons \in Seq(Between(Last(Bounds), stream.right))
    BY LastCronsAre
  <2>2. Between(Last(Bounds), stream.right) \subseteq Entries
    BY BetweenAre
  <2>3. QED
    BY <2>1, <2>2, SeqGrows
<1>9. queue \in Seq(Entries)
  <2>1. stream.queue \in Seq(Entries)
    BY <1>1 DEF Streams
  <2>2. \A a, b, d \in Seq(Entries) : a \o b \o d \in Seq(Entries)
    OBVIOUS
  <2>3. QED
    BY <1>7, <1>8, <2>1, <2>2
<1> PICK s : s = stream'
  OBVIOUS
<1>10. /\ s \in Streams /\ s.step = step /\ s.query = query /\ s.prev = prev /\ s.queue = queue
       /\ s.right = stream.right /\ s.blocks = stream.blocks /\ s.anchor = stream.anchor
       /\ s.evaled = stream.evaled /\ s.fold = stream.fold /\ s.last = stream.last
  <2>1. s = [stream EXCEPT !.step = step, !.query = query, !.prev = prev,
                           !.chain = chain, !.queue = queue]
    BY <1>1, <1>2
  <2>2. /\ step \in {"fetch", "drain", "rejected"} /\ query \in Queries /\ prev \in Lefts
        /\ chain \in Nat \cup {None} /\ queue \in Seq(Entries)
    BY <1>3, <1>5, <1>6, <1>9
  <2>3. s \in Streams
    BY <1>1, <2>1, <2>2 DEF Streams
  <2>4. QED
    BY <1>1, <2>1, <2>3 DEF Streams
<1>11. QED
  BY <1>10 DEF FetchedOf

\* A fetch keeps the types of the stream.
LEMMA FetchKeeps == ASSUME TypeInv, Fetch PROVE StreamTyped'
<1>1. /\ stream # NoStream /\ stream.step = "fetch"
      /\ now' = now /\ schedule' = schedule
  BY DEF Fetch, NoStream
<1>2. /\ stream \in Streams /\ InSchedule(schedule)
      /\ stream.right <= now /\ stream.prev.time <= now
      /\ \A b \in stream.blocks : b.time <= now /\ Sec(b.time) <= Sec(stream.right)
      /\ stream.queue \in Seq(Known) /\ stream.last \in Seq(Known)
      /\ stream.anchor # None => stream.anchor <= Len(schedule)
      /\ Opening
  BY <1>1 DEF TypeInv, StreamTyped
<1>3. PICK c \in Int, n \in Nat, v \in Nat : Fetching(c, n, v)
  BY <1>2, FetchFinds
<1>4. /\ Len(Bounds) = v + 1 /\ stream.prev \in Lefts /\ Len(schedule) \in Nat
      /\ \A i \in 1 .. v : c + i \in 0 .. Len(schedule) /\ Bounds[i + 1] = Scheduled(Slot(c + i))
      /\ Last(Bounds) = IF v = 0 THEN stream.prev ELSE Scheduled(Slot(c + v))
  <2>1. Len(Bounds) = v + 1 /\ stream.prev \in Lefts /\ Len(schedule) \in Nat
    BY <1>3, BoundsAre
  <2>2. \A i \in 1 .. v : c + i \in 0 .. Len(schedule) /\ Bounds[i + 1] = Scheduled(Slot(c + i))
    BY <1>3, BoundsAre
  <2>3. Last(Bounds) = IF v = 0 THEN stream.prev ELSE Scheduled(Slot(c + v))
    BY <1>3, BoundsAre
  <2>4. QED
    BY <2>1, <2>2, <2>3
<1>5. now \in Nat /\ stream.right \in Nat /\ stream.prev.time \in Nat
  BY <1>2, <1>4, LeftsAre DEF TypeInv, Streams
<1>6. ASSUME NEW k \in 0 .. Len(schedule)
      PROVE  Scheduled(Slot(k)) \in Known /\ Slot(k).time \in Nat /\ Slot(k).time <= now
  <2>1. Slot(k).time <= now
    BY <1>4, <1>6 DEF Slot, Process, TypeInv
  <2>2. /\ Slot(k) \in Assignments /\ Scheduled(Slot(k)) \in Messages
        /\ Scheduled(Slot(k)).ordinate = k /\ Scheduled(Slot(k)).time = Slot(k).time
    BY <1>2, SlotIs
  <2>3. QED
    BY <1>4, <2>1, <2>2 DEF Known, Entries, Assignments
<1>7. \A i \in 1 .. v : /\ Bounds[i + 1] \in Known
                        /\ Bounds[i + 1].time \in Nat /\ Bounds[i + 1].time <= now
  <2>1. ASSUME NEW i \in 1 .. v
        PROVE  /\ Bounds[i + 1] \in Known
               /\ Bounds[i + 1].time \in Nat /\ Bounds[i + 1].time <= now
    <3>1. c + i \in 0 .. Len(schedule) /\ Bounds[i + 1] = Scheduled(Slot(c + i))
      BY <1>4
    <3>2. Bounds[i + 1].time = Slot(c + i).time
      BY <1>2, <3>1, SlotIs
    <3>3. QED
      BY <1>6, <3>1, <3>2
  <2>2. QED
    BY <2>1
<1>8. ASSUME NEW left, NEW right \in Nat, right <= now PROVE Between(left, right) \subseteq Known
  <2>1. ASSUME NEW m \in Between(left, right) PROVE m \in Known
    <3>1. m \in Entries /\ IsCron(m) /\ m.time < right
      BY BetweenAre
    <3>2. m.time \in Nat
      BY <3>1 DEF Entries, Messages, Instants
    <3>3. m.time <= now
      BY <1>5, <1>8, <3>1, <3>2
    <3>4. QED
      BY <3>1, <3>3 DEF Known
  <2>2. QED
    BY <2>1
<1>9. Merged \in Seq(Known)
  BY <1>3, <1>7, <1>8, MergedType
<1>10. LastCrons \in Seq(Known)
  BY <1>2, <1>3, <1>5, <1>8, LastCronsAre, SeqGrows
<1> PICK s : s = stream'
  OBVIOUS
<1>11. FetchedOf(s)
  BY <1>3, FetchTypes
<1>12. s.prev.time <= now
  <2>1. CASE v = 0
    BY <1>2, <1>4, <1>11, <2>1 DEF FetchedOf
  <2>2. CASE v # 0
    <3>1. v \in 1 .. v
      BY <2>2
    <3>2. c + v \in 0 .. Len(schedule)
      BY <1>4, <3>1
    <3>3. s.prev.time = Slot(c + v).time
      BY <1>2, <1>4, <1>11, <2>2, <3>2, SlotIs DEF FetchedOf
    <3>4. QED
      BY <1>6, <3>2, <3>3
  <2>3. QED
    BY <2>1, <2>2
<1>13. s.queue \in Seq(Known)
  <2>1. \A a, b, d \in Seq(Known) : a \o b \o d \in Seq(Known)
    OBVIOUS
  <2>2. QED
    BY <1>2, <1>9, <1>10, <1>11, <2>1 DEF FetchedOf
<1>14. ASSUME stream.anchor = None
       PROVE  stream.last = <<>> /\ s.queue # <<>> /\ ~ IsCron(Head(s.queue))
  <2> PICK q, r : q = stream.queue /\ r = LastCrons
    OBVIOUS
  <2>1. s.queue = q \o Merged \o r
    BY <1>11 DEF FetchedOf
  <2>2. q \in Seq(Known) /\ Merged \in Seq(Known) /\ r \in Seq(Known)
    BY <1>2, <1>9, <1>10
  <2>3. stream.last = <<>> /\ (q # <<>> => ~ IsCron(Head(q)))
    BY <1>2, <1>14 DEF Opening
  <2>4. q = <<>> => Merged # <<>> /\ ~ IsCron(Head(Merged))
    <3>1. ASSUME q = <<>>
          PROVE  stream.chain = None /\ stream.query.from = None /\ stream.prev.time = Origin.time
      BY <1>2, <1>14, <3>1 DEF Opening
    <3>2. QED
      BY <1>3, <3>1, MergedFirst
  <2>5. \A a, b, d \in Seq(Known) : a # <<>> => a \o b \o d # <<>> /\ Head(a \o b \o d) = Head(a)
    OBVIOUS
  <2>6. \A b, d \in Seq(Known) :
           b # <<>> => <<>> \o b \o d # <<>> /\ Head(<<>> \o b \o d) = Head(b)
    OBVIOUS
  <2>7. CASE q = <<>>
    BY <2>1, <2>2, <2>3, <2>4, <2>6, <2>7
  <2>8. CASE q # <<>>
    BY <2>1, <2>2, <2>3, <2>5, <2>8
  <2>9. QED
    BY <2>7, <2>8
<1>15. /\ s \in Streams /\ s.right = stream.right /\ s.blocks = stream.blocks
       /\ s.anchor = stream.anchor /\ s.last = stream.last
  BY <1>11 DEF FetchedOf
<1>16. Known' = Known
  BY <1>1 DEF Known
<1>17. Opening'
  BY <1>14, <1>15 DEF Opening
<1>18. QED
  BY <1>1, <1>2, <1>12, <1>13, <1>15, <1>16, <1>17 DEF StreamTyped

\* Passing a message keeps the types of the stream.
LEMMA PassKeeps ==
    ASSUME TypeInv, stream # NoStream, stream.queue # <<>>,
           now' = now, schedule' = schedule,
           NEW m, m = Head(stream.queue),
           PassedOf(stream', m) \/ EvaluatedOf(stream', m)
    PROVE  StreamTyped'
<1> PICK s : s = stream'
  OBVIOUS
<1>1. /\ s \in Streams /\ s.queue \in Seq(Known)
      /\ s.anchor # None /\ s.anchor <= Len(schedule)
      /\ s.right = stream.right /\ s.prev = stream.prev /\ s.blocks = stream.blocks
      /\ s.last = stream.last \/ s.last \in Seq(Known)
  BY DEF PassedOf, EvaluatedOf
<1>2. /\ stream.right <= now /\ stream.prev.time <= now /\ stream.last \in Seq(Known)
      /\ \A b \in stream.blocks : b.time <= now /\ Sec(b.time) <= Sec(stream.right)
  BY DEF TypeInv, StreamTyped
<1>3. Known' = Known
  BY DEF Known
<1>4. Opening'
  BY <1>1 DEF Opening
<1>5. QED
  BY <1>1, <1>2, <1>3, <1>4 DEF StreamTyped

LEMMA RowsKept ==
    ASSUME TypeInv, Evaluate
    PROVE  \A a, b \in rows' : a.id = b.id => a = b
<1> PICK m : m = Head(stream.queue)
  OBVIOUS
<1>1. PICK saved \in BOOLEAN :
         rows' = IF IsCron(m) \/ ~ saved \/ \E row \in rows : row.id = MessageId(m.item)
                 THEN rows ELSE rows \cup {[id |-> MessageId(m.item), nonce |-> m.ordinate]}
  BY DEF Evaluate
<1>2. \A a, b \in rows : a.id = b.id => a = b
  BY DEF TypeInv
<1>3. CASE rows' = rows
  BY <1>2, <1>3
<1>4. CASE rows' # rows
  <2>1. \A row \in rows : row.id # MessageId(m.item)
    BY <1>1, <1>4
  <2>2. rows' = rows \cup {[id |-> MessageId(m.item), nonce |-> m.ordinate]}
    BY <1>1, <1>4
  <2>3. QED
    BY <1>2, <2>1, <2>2
<1>5. QED
  BY <1>3, <1>4

LEMMA CommitKeeps ==
    ASSUME TypeInv, Commit
    PROVE  /\ Len(schedule)' = Len(schedule) + 1 /\ Len(schedule) \in Nat
           /\ \A i \in 1 .. Len(schedule) : schedule'[i] = schedule[i]
           /\ schedule'[Len(schedule) + 1] = pending[1]
           /\ InSchedule(schedule') /\ \A i \in 1 .. Len(schedule') : schedule'[i].time <= now
<1>1. /\ pending = <<pending[1]>> /\ pending[1] \in Assignments
      /\ pending[1].nonce = Len(schedule) + 1
      /\ pending[1].time <= now
      /\ \A i \in 1 .. Len(schedule) : schedule[i].time <= pending[1].time
  BY DEF Commit, TypeInv
<1> PICK p, s, l : p = pending[1] /\ s = schedule' /\ l = Len(schedule)
  OBVIOUS
<1>2. s = schedule \o <<p>>
  BY <1>1 DEF Commit
<1>3. InSchedule(schedule) /\ \A i \in 1 .. l : schedule[i].time <= now
  BY DEF TypeInv
<1>4. schedule \in Seq(Assignments) /\ l \in Nat
  BY <1>3 DEF InSchedule
<1>5. /\ s \in Seq(Assignments) /\ Len(s) = l + 1 /\ s[l + 1] = p
      /\ \A i \in 1 .. l : s[i] = schedule[i]
  BY <1>1, <1>2, <1>4
<1>6. ASSUME NEW i \in 1 .. l + 1 PROVE i = l + 1 \/ i \in 1 .. l
  BY <1>4
<1>7. \A i \in 1 .. Len(s) : s[i].nonce = i /\ s[i].time <= now
  <2>1. \A i \in 1 .. l : s[i].nonce = i /\ s[i].time <= now
    BY <1>3, <1>5 DEF InSchedule
  <2>2. QED
    BY <1>1, <1>5, <1>6, <2>1
<1>8. ASSUME NEW i \in 1 .. Len(s), NEW j \in 1 .. Len(s), i < j PROVE s[i].time <= s[j].time
  <2>1. i \in 1 .. l
    BY <1>4, <1>5, <1>8
  <2>2. CASE j = l + 1
    BY <1>1, <1>5, <2>1, <2>2
  <2>3. CASE j \in 1 .. l
    BY <1>3, <1>5, <1>8, <2>1, <2>3 DEF InSchedule
  <2>4. QED
    BY <1>5, <1>6, <2>2, <2>3
<1>9. QED
  BY <1>4, <1>5, <1>7, <1>8 DEF InSchedule

LEMMA ScheduleKeeps ==
    ASSUME TypeInv, NEW item \in Items, Schedule(item)
    PROVE  \E p : /\ pending' = <<p>> /\ p \in Assignments
                  /\ p.nonce = Len(schedule) + 1 /\ p.time = now /\ p.item = item
<1>1. PICK b \in Mined \cup {Origin} :
        pending' = <<[nonce |-> Len(schedule) + 1, time |-> now, height |-> b.height, item |-> item]>>
  BY DEF Schedule
<1>2. b.height \in Nat
  BY MinedAre, MessagesAssumption
<1>3. Len(schedule) + 1 \in Nat /\ now \in Nat
  BY ScheduleTimes DEF TypeInv
<1> PICK p : p = [nonce |-> Len(schedule) + 1, time |-> now, height |-> b.height, item |-> item]
  OBVIOUS
<1>4. /\ p \in Assignments /\ p.nonce = Len(schedule) + 1 /\ p.time = now /\ p.item = item
      /\ pending' = <<p>>
  BY <1>1, <1>2, <1>3 DEF Assignments
<1>5. QED
  BY <1>4

LEMMA ResultIs ==
    ASSUME TypeInv, Finish, stream.last # <<>>
    PROVE  /\ Result \in Memories
           /\ Result.anchor <= Len(schedule) /\ Result.time <= now
           /\ Result.time = stream.last[1].time /\ Result.ordinate = stream.last[1].ordinate
           /\ Result.fold = stream.fold
<1>1. stream # NoStream
  BY DEF Finish, NoStream
<1>2. /\ stream \in Streams /\ stream.last \in Seq(Known)
      /\ stream.anchor # None => stream.anchor <= Len(schedule)
      /\ Opening
  BY <1>1 DEF TypeInv, StreamTyped
<1> PICK m : m = stream.last[1]
  OBVIOUS
<1>3. m \in Known
  BY <1>2
<1>4. /\ m.time \in Nat /\ m.height \in Nat /\ m.ordinate \in Nat /\ m.time <= now
      /\ m.cron \in {NoCron} \cup CronNames
  BY <1>3 DEF Known, Entries, Messages, Instants, CronNames
<1>5. stream.anchor # None
  BY <1>2 DEF Opening
<1>6. stream.anchor \in Nat /\ stream.fold \in Seq(Traces)
  BY <1>2, <1>5 DEF Streams
<1> PICK r : r = Result
  OBVIOUS
<1>7. r = [fold |-> stream.fold, time |-> m.time, height |-> m.height,
           ordinate |-> m.ordinate, cron |-> m.cron, anchor |-> stream.anchor]
  BY DEF Result
<1>8. r \in Memories
  BY <1>4, <1>6, <1>7 DEF Memories
<1>9. QED
  BY <1>2, <1>4, <1>5, <1>7, <1>8

LEMMA TypeNext == TypeInv /\ [Next]_vars => TypeInv'
<1> SUFFICES ASSUME TypeInv, [Next]_vars PROVE TypeInv'
  OBVIOUS
<1>1. /\ now \in Nat /\ Origin.time <= now /\ now <= MaxNow
      /\ InSchedule(schedule)
      /\ \A i \in 1 .. Len(schedule) : schedule[i].time <= now
      /\ pending # <<>> =>
            /\ pending = <<pending[1]>> /\ pending[1] \in Assignments
            /\ pending[1].nonce = Len(schedule) + 1
            /\ pending[1].time <= now
            /\ \A i \in 1 .. Len(schedule) : schedule[i].time <= pending[1].time
      /\ table \subseteq Mined
      /\ \A a, b \in rows : a.id = b.id => a = b
      /\ saves \subseteq {memory \in Memories :
                            memory.anchor <= Len(schedule) /\ memory.time <= now}
      /\ StreamTyped
  BY DEF TypeInv
<1>2. /\ Len(schedule) \in Nat /\ Origin.time \in Nat /\ MaxNow \in Nat
      /\ \A i \in 1 .. Len(schedule) : schedule[i].time \in Nat
  BY <1>1, ScheduleTimes, MessagesAssumption, EvaluateAssumption
<1>3. ASSUME now' = now, schedule' = schedule, pending' = pending PROVE
        /\ table' \subseteq Mined => table' \subseteq Mined'
        /\ table' \subseteq Mined /\ rows' = rows /\ saves' = saves /\ StreamTyped' => TypeInv'
  <2>1. Mined' = Mined
    BY <1>3 DEF Mined
  <2>2. QED
    BY <1>1, <1>3, <2>1 DEF TypeInv
<1>4. CASE Tick
  <2>1. now' = now + 1 /\ now < MaxNow
        /\ UNCHANGED <<schedule, pending, table, rows, saves, stream>>
    BY <1>4 DEF Tick
  <2>2. now' \in Nat /\ now <= now' /\ Origin.time <= now' /\ now' <= MaxNow
    BY <1>1, <1>2, <2>1
  <2>3. Mined \subseteq Mined'
    BY <1>1, <2>2, MinedAre DEF Mined
  <2>4. StreamTyped'
    BY <1>1, <1>2, <2>1, <2>2, StreamStays
  <2>5. \A i \in 1 .. Len(schedule) : schedule[i].time <= now'
    BY <1>1, <1>2, <2>2
  <2>6. pending # <<>> => pending[1].time <= now'
    BY <1>1, <2>2 DEF Assignments
  <2>7. saves \subseteq {memory \in Memories : memory.anchor <= Len(schedule) /\ memory.time <= now'}
    BY <1>1, <2>2 DEF Memories
  <2>8. QED
    BY <1>1, <2>1, <2>2, <2>3, <2>4, <2>5, <2>6, <2>7 DEF TypeInv
<1>5. ASSUME NEW item \in Items, Schedule(item) PROVE TypeInv'
  <2>1. UNCHANGED <<now, schedule, table, rows, saves, stream>>
    BY <1>5 DEF Schedule
  <2>2. PICK p : /\ pending' = <<p>> /\ p \in Assignments
                 /\ p.nonce = Len(schedule) + 1 /\ p.time = now
    BY <1>5, ScheduleKeeps
  <2>3. StreamTyped'
    BY <1>1, <1>2, <2>1, StreamStays
  <2>4. pending' = <<pending'[1]>> /\ pending'[1] = p
    BY <2>2
  <2>5. Mined' = Mined
    BY <2>1 DEF Mined
  <2>6. QED
    BY <1>1, <2>1, <2>2, <2>3, <2>4, <2>5 DEF TypeInv
<1>6. CASE Commit
  <2>1. UNCHANGED <<now, table, rows, saves, stream>> /\ pending' = <<>>
    BY <1>6 DEF Commit
  <2>2. /\ Len(schedule)' = Len(schedule) + 1
        /\ InSchedule(schedule') /\ \A i \in 1 .. Len(schedule') : schedule'[i].time <= now
    BY <1>6, CommitKeeps
  <2>3. Len(schedule)' \in Nat /\ Len(schedule) <= Len(schedule)'
    BY <1>2, <2>2
  <2>4. StreamTyped'
    BY <1>1, <1>2, <2>1, <2>3, StreamStays
  <2>5. saves \subseteq {memory \in Memories : memory.anchor <= Len(schedule)' /\ memory.time <= now}
    BY <1>1, <1>2, <2>2 DEF Memories
  <2>6. Mined' = Mined
    BY <2>1 DEF Mined
  <2>7. QED
    BY <1>1, <2>1, <2>2, <2>4, <2>5, <2>6 DEF TypeInv
<1>7. ASSUME NEW b \in Blocks, SaveBlock(b) PROVE TypeInv'
  <2>1. UNCHANGED <<now, schedule, pending, rows, saves, stream>>
    BY <1>7 DEF SaveBlock
  <2>2. table' \subseteq Mined
    BY <1>1, <1>7 DEF SaveBlock
  <2>3. StreamTyped'
    BY <1>1, <1>2, <2>1, StreamStays
  <2>4. QED
    BY <1>3, <2>1, <2>2, <2>3
<1>8. ASSUME NEW memory \in saves \cup {Cold}, NEW to \in {None} \cup Origin.time .. now,
             Begin(memory, to)
      PROVE  TypeInv'
  <2>1. UNCHANGED <<now, schedule, pending, rows, saves>>
    BY <1>8 DEF Begin
  <2>2. PICK right : BegunOf(stream', memory, to, right)
    BY <1>8, BeginIs
  <2>3. table' \subseteq Mined
    BY <1>8, BeginIs
  <2> PICK s : s = stream'
    OBVIOUS
  <2>4. /\ s \in Streams /\ s.right = right /\ right <= now /\ s.prev = LeftMost(memory)
        /\ s.blocks \subseteq Mined /\ \A b \in s.blocks : Sec(b.time) <= Sec(right)
        /\ s.queue = <<>> /\ s.last = <<>> /\ s.anchor = memory.anchor
        /\ s.step = "fetch" /\ s.query.from = memory.time /\ s.chain = memory.anchor
    BY <2>2 DEF BegunOf
  <2>5. /\ LeftMost(memory).time <= now
        /\ memory.anchor # None => memory.anchor <= Len(schedule)
        /\ memory.anchor = None <=> memory = Cold
        /\ memory.time = None <=> memory = Cold
        /\ LeftMost(memory).time = IF memory.time = None THEN Origin.time ELSE memory.time
    BY <1>8, StartIs
  <2>6. Opening'
    BY <2>4, <2>5 DEF Opening
  <2>7. \A b \in s.blocks : b.time <= now
    BY <2>4, MinedAre
  <2>8. s.queue \in Seq(Known') /\ s.last \in Seq(Known')
    BY <2>4
  <2>9. StreamTyped'
    BY <2>1, <2>4, <2>5, <2>6, <2>7, <2>8 DEF StreamTyped
  <2>10. QED
    BY <1>3, <2>1, <2>3, <2>9
<1>9. CASE Fetch
  <2>1. StreamTyped'
    BY <1>9, FetchKeeps
  <2>2. UNCHANGED <<now, schedule, pending, table, rows, saves>>
    BY <1>9 DEF Fetch
  <2>3. QED
    BY <1>1, <1>3, <2>1, <2>2
<1>10. CASE Skip
  <2>1. /\ stream # NoStream /\ stream.queue # <<>>
        /\ stream' = Passed(Head(stream.queue))
        /\ UNCHANGED <<now, schedule, pending, table, rows, saves>>
    BY <1>10 DEF Skip
  <2>2. PassedOf(stream', Head(stream.queue))
    BY <1>1, <2>1, PassedIs
  <2>3. StreamTyped'
    BY <2>1, <2>2, PassKeeps
  <2>4. QED
    BY <1>1, <1>3, <2>1, <2>3
<1>11. CASE Evaluate
  <2>1. UNCHANGED <<now, schedule, pending, table, saves>>
    BY <1>11 DEF Evaluate
  <2>2. /\ stream # NoStream /\ stream.queue # <<>>
        /\ EvaluatedOf(stream', Head(stream.queue))
    BY <1>1, <1>11, EvaluateIs
  <2>3. StreamTyped'
    BY <2>1, <2>2, PassKeeps
  <2>4. \A a, b \in rows' : a.id = b.id => a = b
    BY <1>11, RowsKept
  <2>5. Mined' = Mined
    BY <2>1 DEF Mined
  <2>6. QED
    BY <1>1, <2>1, <2>3, <2>4, <2>5 DEF TypeInv
<1>12. CASE Finish
  <2>1. /\ UNCHANGED <<now, schedule, pending, table, rows>>
        /\ stream' = NoStream
        /\ saves' = IF stream.last = <<>> \/ stream.fold = <<>> THEN saves ELSE saves \cup {Result}
    BY <1>12 DEF Finish
  <2>2. saves' \subseteq {memory \in Memories : memory.anchor <= Len(schedule) /\ memory.time <= now}
    BY <1>1, <1>12, <2>1, ResultIs
  <2>3. StreamTyped'
    BY <2>1 DEF StreamTyped
  <2>4. Mined' = Mined
    BY <2>1 DEF Mined
  <2>5. QED
    BY <1>1, <2>1, <2>2, <2>3, <2>4 DEF TypeInv
<1>13. CASE Fail
  <2>1. /\ UNCHANGED <<now, schedule, pending, table, saves>>
        /\ stream' = NoStream /\ rows' \subseteq rows
    BY <1>13 DEF Fail
  <2>2. StreamTyped'
    BY <2>1 DEF StreamTyped
  <2>3. Mined' = Mined
    BY <2>1 DEF Mined
  <2>4. QED
    BY <1>1, <2>1, <2>2, <2>3 DEF TypeInv
<1>14. CASE UNCHANGED vars
  <2>1. UNCHANGED <<now, schedule, pending, table, rows, saves, stream>>
    BY <1>14 DEF vars
  <2>2. StreamTyped'
    BY <1>1, <1>2, <2>1, StreamStays
  <2>3. QED
    BY <1>1, <1>3, <2>1, <2>2
<1>15. QED
  BY <1>4, <1>5, <1>6, <1>7, <1>8, <1>9, <1>10, <1>11, <1>12, <1>13, <1>14 DEF Next

LEMMA TypeHolds == Spec => []TypeInv
<1>1. QED
  BY TypeInit, TypeNext, PTL DEF Spec

\* Nonces have no gaps, only mined blocks are known, an id keeps one nonce, and a
\* stream knows no block that is later than its right boundary: however the stores
\* fail, whatever is scheduled at one time, and wherever streams start and stop.
THEOREM TypeCorrect == Spec => []TypeOK
<1>1. TypeInv => TypeOK
  <2> SUFFICES ASSUME TypeInv PROVE TypeOK
    OBVIOUS
  <2>1. now \in Origin.time .. MaxNow
    BY MessagesAssumption, EvaluateAssumption DEF TypeInv
  <2>2. \A i \in DOMAIN schedule : schedule[i].nonce = i /\ schedule[i].time <= now
    BY DEF TypeInv, InSchedule
  <2>3. \A memory \in saves : memory.anchor \in 0 .. Len(schedule) /\ memory.time <= now
    BY ScheduleTimes DEF TypeInv, Memories
  <2>4. ASSUME stream # NoStream
        PROVE  /\ stream.step \in {"fetch", "drain", "rejected"}
               /\ \A b \in stream.blocks : b \in Mined /\ Sec(b.time) <= Sec(stream.right)
    BY <2>4 DEF TypeInv, StreamTyped, Streams, Mined
  <2>5. table \subseteq Mined /\ \A a, b \in rows : a.id = b.id => a = b
    BY DEF TypeInv
  <2>6. QED
    BY <2>1, <2>2, <2>3, <2>4, <2>5 DEF TypeOK
<1>2. QED
  BY TypeHolds, <1>1, PTL

-----------------------------------------------------------------------------
(* What a memory shows.                                                    *)

\* Whether two messages say the same is told by the names of their results.
ItemsNamed ==
    \A a, b \in Items :
        /\ MessageId(a) # "process"
        /\ MessageId(a) = MessageId(b)
              <=> \/ a.id = b.id
                  \/ a.deepHash # NoHash /\ a.deepHash = b.deepHash

\* Only an assignment repeats an id, as the SU promises the CU.
IdsOnce(s) ==
    \A i \in 1 .. Len(s) :
        /\ s[i].item \in Items
        /\ s[i].item.assigned \/ \A j \in 1 .. i - 1 : s[j].item.id # s[i].item.id

\* The messages have different times, and the one that is being saved the latest.
ScheduleInv ==
    /\ \A i, j \in 0 .. Len(schedule) : i < j => Slot(i).time < Slot(j).time
    /\ IdsOnce(schedule \o pending)
    /\ pending # <<>> => pending[1].time = now /\ Slot(Len(schedule)).time < now

\* The first k messages and the process have results.
NamesIn(k) == \A i \in 0 .. k : \E row \in rows : row.id = MessageId(Slot(i).item)

\* A result is that of the first message with its name.
RowsInv ==
    \A row \in rows :
        /\ row.nonce \in 0 .. Len(schedule)
        /\ row.id = MessageId(Slot(row.nonce).item)
        /\ \A i \in 0 .. row.nonce - 1 : row.id # MessageId(Slot(i).item)

\* What is to be shown of the first k messages and the process.
Due(k) == {i \in 0 .. k : ~ Repeats(i) /\ Slot(i).item.id \notin Failing}

ShownIn(fold) == {i \in DOMAIN fold : ~ IsCron(fold[i])}

FoldIs(fold, k) ==
    /\ {fold[i].at : i \in ShownIn(fold)} = Due(k)
    /\ \A i, j \in ShownIn(fold) : i < j => fold[i].at < fold[j].at

\* A time between message k and the one after it, also if that is yet to come.
Placed(time, k) ==
    /\ k \in 0 .. Len(schedule)
    /\ Slot(k).time <= time
    /\ \A j \in k + 1 .. Len(schedule) : time < Slot(j).time
    /\ time < now \/ time <= Slot(Len(schedule)).time

\* What a stream passes is a message of the schedule, or a cron between two.
Lined ==
    {m \in Entries : Placed(m.time, m.ordinate) /\ (~ IsCron(m) => m = Scheduled(Slot(m.ordinate)))}

\* After the message at which a stream was last evaluated, it has only passed
\* messages that repeat what was said.
LastIs(s, p) ==
    s.last # <<>> =>
        /\ s.last[1] \in Lined
        /\ s.last[1].ordinate <= p
        /\ \A i \in s.last[1].ordinate + 1 .. p : Repeats(i)

\* The next page begins after message e.
NextPageIs(s, e) ==
    s.step = "fetch" =>
        /\ s.query.to \in {None, s.right}
        /\ s.query.from = None => e = -1 /\ s.prev.time = Origin.time
        /\ s.query.from # None =>
              /\ s.query.from = s.prev.time
              /\ s.prev.ordinate = e /\ Placed(s.prev.time, e)

\* A stream has folded the messages up to p, and has those up to e in its queue.
ReadTo(s, p, e) ==
    /\ p \in -1 .. Len(schedule) /\ e \in -1 .. Len(schedule)
    /\ s.queue \in Seq(Lined) /\ Chain(s.queue, p, e)
    /\ FoldIs(s.fold, p) /\ LastIs(s, p) /\ NextPageIs(s, e)

StreamAt(s, p, e) == ReadTo(s, p, e) /\ NamesIn(p)

MemoryInv(memory) ==
    /\ Placed(memory.time, memory.ordinate)
    /\ FoldIs(memory.fold, memory.ordinate) /\ NamesIn(memory.ordinate)

FoldInv ==
    /\ ScheduleInv /\ RowsInv
    /\ \A memory \in saves : MemoryInv(memory)
    /\ stream # NoStream => \E p, e \in -1 .. Len(schedule) : StreamAt(stream, p, e)

-----------------------------------------------------------------------------
(* What is kept while the schedule and the table of results grow.          *)

\* A message that is added is later than the others, and the table of results grows.
Grows ==
    /\ Len(schedule) \in Nat /\ Len(schedule') \in Nat /\ Len(schedule) <= Len(schedule')
    /\ now \in Nat /\ now' \in Nat /\ now <= now'
    /\ \A i \in 0 .. Len(schedule) : Slot(i)' = Slot(i) /\ Slot(i).time \in Nat
    /\ \A j \in Len(schedule) + 1 .. Len(schedule') : Slot(j)'.time = now
    /\ Len(schedule) < Len(schedule') => Slot(Len(schedule)).time < now
    /\ rows \subseteq rows'

LEMMA PlacedStays ==
    ASSUME Grows, NEW t \in Nat, NEW k, Placed(t, k)
    PROVE  Placed(t, k)'
<1> PICK n : n = Len(schedule)
  OBVIOUS
<1> PICK m : m = Len(schedule')
  OBVIOUS
<1>1. /\ n \in Nat /\ m \in Nat /\ n <= m /\ now \in Nat /\ now' \in Nat /\ now <= now'
      /\ \A i \in 0 .. n : Slot(i)' = Slot(i) /\ Slot(i).time \in Nat
      /\ \A j \in n + 1 .. m : Slot(j)'.time = now
      /\ n < m => Slot(n).time < now
  BY DEF Grows
<1>2. /\ k \in 0 .. n /\ Slot(k).time <= t
      /\ \A j \in k + 1 .. n : t < Slot(j).time
      /\ t < now \/ t <= Slot(n).time
  BY DEF Placed
<1>3. k \in 0 .. m /\ Slot(k)'.time <= t
  BY <1>1, <1>2
<1>4. t < now' \/ t <= Slot(m)'.time
  BY <1>1, <1>2
<1>5. ASSUME NEW j \in k + 1 .. m PROVE t < Slot(j)'.time
  <2>1. CASE j <= n
    BY <2>1, <1>1, <1>2, <1>5
  <2>2. CASE n < j
    BY <2>2, <1>1, <1>2, <1>5
  <2>3. QED
    BY <2>1, <2>2, <1>1, <1>2, <1>5
<1>6. Placed(t, k)' <=>
        /\ k \in 0 .. m
        /\ Slot(k)'.time <= t
        /\ \A j \in k + 1 .. m : t < Slot(j)'.time
        /\ t < now' \/ t <= Slot(m)'.time
  BY DEF Placed
<1>7. QED
  BY <1>3, <1>4, <1>5, <1>6

LEMMA DueStays ==
    ASSUME Grows, NEW k \in -1 .. Len(schedule)
    PROVE  /\ Due(k)' = Due(k)
           /\ NamesIn(k) => NamesIn(k)'
           /\ \A i \in 0 .. k : Repeats(i)' <=> Repeats(i)
<1>1. ASSUME NEW i \in 0 .. k PROVE Repeats(i)' <=> Repeats(i)
  <2>1. ASSUME NEW j \in 1 .. i PROVE schedule'[j] = schedule[j]
    <3>1. j \in 0 .. Len(schedule) /\ j # 0
      BY <2>1 DEF Grows
    <3>2. QED
      BY <3>1 DEF Grows, Slot
  <2>2. \A j \in 1 .. i - 1 : schedule'[j] = schedule[j]
    BY <2>1
  <2>3. CASE i = 0
    BY <2>3 DEF Repeats
  <2>4. CASE i # 0
    <3>1. schedule'[i] = schedule[i]
      BY <2>4, <2>1
    <3>2. QED
      BY <3>1, <2>2 DEF Repeats
  <2>5. QED
    BY <2>3, <2>4
<1>2. \A i \in 0 .. k : Slot(i)' = Slot(i)
  BY DEF Grows
<1>3. Due(k)' = Due(k)
  BY <1>1, <1>2 DEF Due
<1>4. NamesIn(k) => NamesIn(k)'
  BY <1>2 DEF NamesIn, Grows
<1>5. QED
  BY <1>1, <1>3, <1>4

LEMMA FoldStays ==
    ASSUME Grows, NEW k \in -1 .. Len(schedule), NEW fold, FoldIs(fold, k)
    PROVE  FoldIs(fold, k)'
<1>1. Due(k)' = Due(k)
  BY DueStays
<1>2. QED
  BY <1>1 DEF FoldIs, ShownIn, IsCron, NoCron

LEMMA LinedStays ==
    ASSUME Grows
    PROVE  Lined \subseteq Lined'
<1> SUFFICES ASSUME NEW m \in Lined PROVE m \in Lined'
  OBVIOUS
<1>1. m \in Entries /\ m.time \in Nat /\ Placed(m.time, m.ordinate)
  BY DEF Lined, Entries, Messages, Instants
<1>2. Placed(m.time, m.ordinate)'
  BY <1>1, PlacedStays
<1>3. Slot(m.ordinate)' = Slot(m.ordinate)
  BY <1>1 DEF Placed, Grows
<1>4. ~ IsCron(m) => m = Scheduled(Slot(m.ordinate)')
  BY <1>3 DEF Lined
<1>5. QED
  BY <1>1, <1>2, <1>4 DEF Lined, IsCron, Scheduled, NoCron

LEMMA MemoryStays ==
    ASSUME Grows, NEW memory, memory.time \in Nat, MemoryInv(memory)
    PROVE  MemoryInv(memory)'
<1>1. memory.ordinate \in -1 .. Len(schedule)
  BY DEF MemoryInv, Placed
<1>2. QED
  BY <1>1, PlacedStays, FoldStays, DueStays DEF MemoryInv

LEMMA ReadStays ==
    ASSUME Grows, NEW s \in Streams, NEW p, NEW e, ReadTo(s, p, e)
    PROVE  ReadTo(s, p, e)'
<1>1. p \in -1 .. Len(schedule) /\ e \in -1 .. Len(schedule)
  BY DEF ReadTo
<1>2. p \in -1 .. Len(schedule') /\ e \in -1 .. Len(schedule')
  BY <1>1 DEF Grows
<1>3. s.queue \in Seq(Lined')
  BY LinedStays, SeqGrows DEF ReadTo
<1>4. FoldIs(s.fold, p)'
  BY <1>1, FoldStays DEF ReadTo
<1>5. LastIs(s, p)'
  <2>1. \A i \in 0 .. p : Repeats(i)' <=> Repeats(i)
    BY <1>1, DueStays
  <2>2. LastIs(s, p)
    BY DEF ReadTo
  <2>3. ASSUME s.last # <<>>
        PROVE  /\ s.last[1] \in Lined'
               /\ \A i \in s.last[1].ordinate + 1 .. p : Repeats(i)'
    <3>1. s.last[1] \in Lined /\ s.last[1].ordinate \in Nat
      BY <2>2, <2>3 DEF LastIs, Lined, Placed
    <3>2. \A i \in s.last[1].ordinate + 1 .. p : i \in 0 .. p
      BY <3>1, <1>1
    <3>3. QED
      BY <3>1, <3>2, <2>1, <2>2, <2>3, LinedStays DEF LastIs
  <2>4. QED
    BY <2>2, <2>3 DEF LastIs
<1>6. NextPageIs(s, e)'
  <2>1. NextPageIs(s, e) /\ s.prev.time \in Nat
    BY LeftsAre DEF ReadTo, Streams
  <2>2. Placed(s.prev.time, e) => Placed(s.prev.time, e)'
    BY <2>1, PlacedStays
  <2>3. QED
    BY <2>1, <2>2 DEF NextPageIs
<1>7. Chain(s.queue, p, e)'
  BY DEF ReadTo, Chain, IsCron, NoCron
<1>8. QED
  BY <1>2, <1>3, <1>4, <1>5, <1>6, <1>7 DEF ReadTo

LEMMA SlotTimes ==
    ASSUME TypeInv
    PROVE  /\ Len(schedule) \in Nat /\ now \in Nat
           /\ \A i \in 0 .. Len(schedule) : Slot(i).time \in Nat /\ Slot(i).time <= now
<1>1. InSchedule(schedule) /\ now \in Nat /\ Origin.time <= now
  BY DEF TypeInv
<1>2. ASSUME NEW i \in 0 .. Len(schedule) PROVE Slot(i).time \in Nat /\ Slot(i).time <= now
  <2>1. Slot(i).time \in Nat
    BY <1>1, SlotIs DEF Assignments
  <2>2. Slot(i).time <= now
    BY <1>1, ScheduleTimes DEF Slot, Process, TypeInv
  <2>3. QED
    BY <2>1, <2>2
<1>3. QED
  BY <1>1, <1>2, ScheduleTimes

LEMMA GrowsStill ==
    ASSUME TypeInv, schedule' = schedule, now' \in Nat, now <= now', rows \subseteq rows'
    PROVE  Grows
<1>1. \A i \in 0 .. Len(schedule) : Slot(i)' = Slot(i)
  BY DEF Slot
<1>2. QED
  BY <1>1, SlotTimes DEF Grows

LEMMA CommitGrows ==
    ASSUME TypeInv, ScheduleInv, Commit
    PROVE  Grows
<1>1. /\ Len(schedule') = Len(schedule) + 1 /\ Len(schedule) \in Nat
      /\ \A i \in 1 .. Len(schedule) : schedule'[i] = schedule[i]
      /\ schedule'[Len(schedule) + 1] = pending[1]
  BY CommitKeeps
<1>2. now' = now /\ rows' = rows /\ pending # <<>>
  BY DEF Commit
<1>3. \A i \in 0 .. Len(schedule) : Slot(i)' = Slot(i)
  BY <1>1 DEF Slot
<1>4. ASSUME NEW j \in Len(schedule) + 1 .. Len(schedule') PROVE Slot(j)'.time = now
  <2>1. j = Len(schedule) + 1 /\ j # 0
    BY <1>1, <1>4
  <2>2. QED
    BY <1>1, <1>2, <2>1 DEF Slot, ScheduleInv
<1>5. QED
  BY <1>1, <1>2, <1>3, <1>4, SlotTimes DEF Grows, ScheduleInv

\* What is said of the memories, the results and the stream holds of a schedule
\* that has grown.
LEMMA WorldStays ==
    ASSUME TypeInv, FoldInv, Grows, rows' = rows, saves' = saves, stream' = stream
    PROVE  /\ RowsInv'
           /\ \A memory \in saves' : MemoryInv(memory)'
           /\ stream' # NoStream => \E p, e \in -1 .. Len(schedule') : StreamAt(stream, p, e)'
<1>1. RowsInv'
  <2> SUFFICES ASSUME NEW row \in rows
               PROVE  /\ row.nonce \in 0 .. Len(schedule')
                      /\ row.id = MessageId(Slot(row.nonce)'.item)
                      /\ \A i \in 0 .. row.nonce - 1 : row.id # MessageId(Slot(i)'.item)
    BY DEF RowsInv, MessageId, NoHash
  <2>1. /\ row.nonce \in 0 .. Len(schedule)
        /\ row.id = MessageId(Slot(row.nonce).item)
        /\ \A i \in 0 .. row.nonce - 1 : row.id # MessageId(Slot(i).item)
    BY DEF FoldInv, RowsInv
  <2>2. QED
    BY <2>1 DEF Grows
<1>2. \A memory \in saves' : MemoryInv(memory)'
  <2> SUFFICES ASSUME NEW memory \in saves PROVE MemoryInv(memory)'
    OBVIOUS
  <2>1. memory.time \in Nat /\ MemoryInv(memory)
    BY DEF TypeInv, Memories, FoldInv
  <2>2. QED
    BY <2>1, MemoryStays
<1>3. ASSUME stream' # NoStream
      PROVE  \E p, e \in -1 .. Len(schedule') : StreamAt(stream, p, e)'
  <2>1. PICK p \in -1 .. Len(schedule), e \in -1 .. Len(schedule) : StreamAt(stream, p, e)
    BY <1>3 DEF FoldInv
  <2> PICK s : s = stream
    OBVIOUS
  <2>2. s \in Streams
    BY <1>3 DEF TypeInv, StreamTyped
  <2>3. StreamAt(s, p, e)'
    <3>1. ReadTo(s, p, e) /\ NamesIn(p) /\ p \in -1 .. Len(schedule)
      BY <2>1 DEF StreamAt
    <3>2. QED
      BY <2>2, <3>1, ReadStays, DueStays DEF StreamAt
  <2>4. s = stream'
    OBVIOUS
  <2>5. StreamAt(stream, p, e)'
    BY <2>3, <2>4
  <2>6. p \in -1 .. Len(schedule') /\ e \in -1 .. Len(schedule')
    BY DEF Grows
  <2>7. QED
    BY <2>5, <2>6
<1>4. QED
  BY <1>1, <1>2, <1>3

\* A stream has moved, and the schedule has not.
LEMMA StreamMoves ==
    ASSUME TypeInv, FoldInv, RowsInv', rows \subseteq rows',
           saves' = saves, now' = now, schedule' = schedule, pending' = pending,
           NEW s \in Streams, s = stream', NEW p, NEW e, ReadTo(s, p, e), NamesIn(p)'
    PROVE  FoldInv'
<1>1. Grows
  BY SlotTimes, GrowsStill
<1>2. ReadTo(s, p, e)'
  BY <1>1, ReadStays
<1>3. StreamAt(stream, p, e)'
  BY <1>2 DEF StreamAt
<1>4. p \in -1 .. Len(schedule') /\ e \in -1 .. Len(schedule')
  BY DEF ReadTo
<1>5. \A memory \in saves' : MemoryInv(memory)'
  <2> SUFFICES ASSUME NEW memory \in saves PROVE MemoryInv(memory)'
    OBVIOUS
  <2>1. memory.time \in Nat /\ MemoryInv(memory)
    BY DEF TypeInv, Memories, FoldInv
  <2>2. QED
    BY <1>1, <2>1, MemoryStays
<1>6. ScheduleInv'
  BY DEF FoldInv, ScheduleInv, IdsOnce, Slot
<1>7. QED
  BY <1>3, <1>4, <1>5, <1>6 DEF FoldInv

LEMMA BeginReads ==
    ASSUME TypeInv, FoldInv, NEW memory \in saves \cup {Cold}, NEW to, NEW right, NEW s,
           BegunOf(s, memory, to, right)
    PROVE  \E p : ReadTo(s, p, p) /\ NamesIn(p)
<1>1. /\ s.queue = <<>> /\ s.fold = memory.fold /\ s.last = <<>>
      /\ s.query.to = to /\ s.query.from = memory.time /\ to \in {None, s.right}
      /\ s.prev = LeftMost(memory)
  BY DEF BegunOf
<1>2. s.queue \in Seq(Lined)
  BY <1>1
<1>3. ASSUME NEW p PROVE Chain(s.queue, p, p)
  BY <1>1 DEF Chain
<1>4. Len(schedule) \in Nat
  BY SlotTimes
<1>5. CASE memory = Cold
  <2>1. memory.fold = <<>> /\ memory.time = None
    BY <1>5 DEF Cold
  <2>2. FoldIs(s.fold, -1) /\ NamesIn(-1)
    BY <1>1, <2>1 DEF FoldIs, ShownIn, Due, NamesIn
  <2>3. NextPageIs(s, -1)
    BY <1>1, <2>1 DEF NextPageIs, LeftMost
  <2>4. LastIs(s, -1)
    BY <1>1 DEF LastIs
  <2>5. ReadTo(s, -1, -1)
    BY <1>2, <1>3, <1>4, <2>2, <2>3, <2>4 DEF ReadTo
  <2>6. QED
    BY <2>2, <2>5
<1>6. CASE memory # Cold
  <2>1. memory \in saves /\ MemoryInv(memory) /\ memory.time # None /\ memory.ordinate \in 0 .. Len(schedule)
    BY <1>6, StartIs DEF FoldInv, MemoryInv, Placed
  <2>2. FoldIs(s.fold, memory.ordinate) /\ NamesIn(memory.ordinate)
    BY <1>1, <2>1 DEF MemoryInv
  <2>3. NextPageIs(s, memory.ordinate)
    BY <1>1, <2>1 DEF NextPageIs, LeftMost, MemoryInv
  <2>4. LastIs(s, memory.ordinate)
    BY <1>1 DEF LastIs
  <2>5. ReadTo(s, memory.ordinate, memory.ordinate)
    BY <1>2, <1>3, <1>4, <2>1, <2>2, <2>3, <2>4 DEF ReadTo
  <2>6. QED
    BY <2>2, <2>5
<1>7. QED
  BY <1>5, <1>6

\* A page is fetched from where the queue ends.
LEMMA FetchFrom ==
    ASSUME TypeInv, ScheduleInv, NEW c \in Int, NEW n \in Nat, NEW v \in Nat, Fetching(c, n, v),
           NEW e \in -1 .. Len(schedule), NextPageIs(stream, e), stream.step = "fetch"
    PROVE  c = e
<1>1. CASE stream.query.from = None
  BY <1>1 DEF Fetching, PageOf, NextPageIs
<1>2. CASE stream.query.from # None
  <2> PICK t : t = stream.query.from
    OBVIOUS
  <2> PICK len : len = Len(schedule)
    OBVIOUS
  <2>1. /\ len \in Nat /\ c \in 0 .. len /\ e \in 0 .. len
        /\ \A j \in 1 .. len : j <= c <=> schedule[j].time <= t
    BY <1>2, SlotTimes DEF Fetching, PageOf, NextPageIs, Placed
  <2>2. /\ Slot(e).time <= t
        /\ \A j \in e + 1 .. len : t < Slot(j).time
    BY <1>2 DEF NextPageIs, Placed
  <2>3. /\ \A i, j \in 0 .. len : i < j => Slot(i).time < Slot(j).time
        /\ \A i \in 0 .. len : Slot(i).time \in Nat
    BY SlotTimes DEF ScheduleInv
  <2>4. t \in Nat
    BY <1>2 DEF Fetching, Streams, Queries
  <2>5. \A j \in 1 .. len : Slot(j) = schedule[j]
    BY DEF Slot
  <2>6. ~ c < e
    <3>1. SUFFICES ASSUME c < e PROVE FALSE
      OBVIOUS
    <3>2. e \in 1 .. len /\ ~ schedule[e].time <= t
      BY <2>1, <3>1
    <3>3. QED
      BY <2>2, <2>5, <3>2
  <2>7. ~ e < c
    <3>1. SUFFICES ASSUME e < c PROVE FALSE
      OBVIOUS
    <3>2. c \in 1 .. len /\ c \in e + 1 .. len /\ schedule[c].time <= t
      BY <2>1, <3>1
    <3>3. t < schedule[c].time /\ schedule[c].time \in Nat
      BY <2>2, <2>3, <2>5, <3>2
    <3>4. QED
      BY <3>2, <3>3, <2>4
  <2>8. QED
    BY <2>1, <2>6, <2>7
<1>3. QED
  BY <1>1, <1>2

\* A time after message k, and before the next one, is placed at k.
LEMMA PlacedAt ==
    ASSUME TypeInv, ScheduleInv, NEW k \in 0 .. Len(schedule), NEW t \in Nat,
           Slot(k).time <= t,
           \/ k = Len(schedule) /\ t < now
           \/ t = Slot(k).time
           \/ k + 1 \in 0 .. Len(schedule) /\ t < Slot(k + 1).time
           \/ t < now /\ \A j \in k + 1 .. Len(schedule) : t < Slot(j).time
    PROVE  Placed(t, k)
<1> PICK len : len = Len(schedule)
  OBVIOUS
<1>1. /\ len \in Nat /\ now \in Nat
      /\ \A i, j \in 0 .. len : i < j => Slot(i).time < Slot(j).time
      /\ \A i \in 0 .. len : Slot(i).time \in Nat
  BY SlotTimes DEF ScheduleInv
<1>2. CASE k = len /\ t < now
  BY <1>1, <1>2 DEF Placed
<1>3. CASE t = Slot(k).time
  <2>1. \A j \in k + 1 .. len : t < Slot(j).time
    BY <1>1, <1>3
  <2>2. t <= Slot(len).time
    BY <1>1, <1>3
  <2>3. QED
    BY <2>1, <2>2 DEF Placed
<1>4. CASE k + 1 \in 0 .. len /\ t < Slot(k + 1).time
  <2>1. \A j \in k + 1 .. len : t < Slot(j).time
    BY <1>1, <1>4
  <2>2. t < Slot(len).time
    BY <1>1, <2>1, <1>4
  <2>3. QED
    BY <1>1, <2>1, <2>2 DEF Placed
<1>5. CASE t < now /\ \A j \in k + 1 .. len : t < Slot(j).time
  BY <1>5 DEF Placed
<1>6. QED
  BY <1>2, <1>3, <1>4, <1>5

LEMMA SlotLined ==
    ASSUME TypeInv, ScheduleInv, NEW k \in 0 .. Len(schedule)
    PROVE  Scheduled(Slot(k)) \in Lined
<1> PICK m : m = Scheduled(Slot(k))
  OBVIOUS
<1>1. m \in Entries /\ m.ordinate = k /\ m.time = Slot(k).time /\ Slot(k).time \in Nat
  BY SlotIs, SlotTimes DEF TypeInv, Entries
<1>2. Placed(m.time, m.ordinate)
  BY <1>1, PlacedAt
<1>3. QED
  BY <1>1, <1>2 DEF Lined

\* The messages of a page, and the crons before them, are in line.
LEMMA MergedLined ==
    ASSUME TypeInv, ScheduleInv, NEW c \in Int, NEW n \in Nat, NEW v \in Nat, Fetching(c, n, v),
           NextPageIs(stream, c), stream.step = "fetch"
    PROVE  Merged \in Seq(Lined)
<1>1. ASSUME NEW i \in 1 .. v
      PROVE  Bounds[i + 1] \in Lined /\ Between(Bounds[i], Bounds[i + 1].time) \subseteq Lined
  <2>1. /\ c + i \in 0 .. Len(schedule) /\ Bounds[i + 1] = Scheduled(Slot(c + i))
        /\ c \in Int /\ -1 <= c /\ Len(schedule) \in Nat
    BY BoundsAre
  <2>2. Scheduled(Slot(c + i)).time = Slot(c + i).time /\ Slot(c + i).time \in Nat
    BY <2>1, SlotIs, SlotTimes DEF TypeInv
  <2>3. ASSUME NEW m \in Between(Bounds[i], Bounds[i + 1].time) PROVE m \in Lined
    <3>1. /\ m \in Entries /\ IsCron(m) /\ m.time \in Nat
          /\ m.ordinate = Bounds[i].ordinate /\ Bounds[i].time <= m.time /\ m.time < Slot(c + i).time
      BY <2>1, <2>2, <2>3, BetweenAre DEF Between, Instants
    <3>2. /\ c + i - 1 \in 0 .. Len(schedule)
          /\ Bounds[i].ordinate = c + i - 1 /\ Slot(c + i - 1).time <= m.time
      <4>1. CASE i = 1
        <5>1. Bounds[i] = stream.prev
          BY <4>1, BoundsAre
        <5>2. CASE stream.query.from = None
          <6>1. c = -1 /\ stream.prev.time = Origin.time
            BY <5>2 DEF NextPageIs
          <6>2. Slot(c + i).time = Origin.time
            BY <6>1, <4>1 DEF Slot, Process
          <6>3. QED
            BY <6>1, <6>2, <5>1, <3>1, MessagesAssumption
        <5>3. CASE stream.query.from # None
          <6>1. stream.prev.ordinate = c /\ Placed(stream.prev.time, c)
            BY <5>3 DEF NextPageIs
          <6>2. c \in 0 .. Len(schedule) /\ Slot(c).time <= stream.prev.time /\ c + i - 1 = c
            BY <6>1, <4>1 DEF Placed
          <6>3. Slot(c).time \in Nat /\ stream.prev.time \in Nat
            BY <6>2, SlotTimes, BoundsAre, LeftsAre
          <6>4. Bounds[i].ordinate = c /\ Slot(c).time <= m.time
            BY <6>1, <6>2, <6>3, <5>1, <3>1
          <6>5. QED
            BY <6>2, <6>4
        <5>4. QED
          BY <5>2, <5>3
      <4>2. CASE i # 1
        <5> PICK h : h = i - 1
          OBVIOUS
        <5>1. h \in 1 .. v /\ h + 1 = i /\ c + i - 1 = c + h
          BY <4>2, <1>1
        <5>2. c + h \in 0 .. Len(schedule) /\ Bounds[h + 1] = Scheduled(Slot(c + h))
          BY <5>1, BoundsAre
        <5>3. Scheduled(Slot(c + h)).ordinate = c + h /\ Scheduled(Slot(c + h)).time = Slot(c + h).time
          BY <5>2, SlotIs DEF TypeInv
        <5>4. QED
          BY <5>1, <5>2, <5>3, <3>1
      <4>3. QED
        BY <4>1, <4>2
    <3>3. c + i - 1 + 1 = c + i
      BY <2>1
    <3>4. Placed(m.time, m.ordinate)
      BY <3>1, <3>2, <3>3, <2>1, PlacedAt
    <3>5. QED
      BY <3>1, <3>4 DEF Lined
  <2>4. QED
    BY <2>1, <2>3, SlotLined
<1>2. QED
  BY <1>1, MergedType

\* The crons after the last page are in line.
LEMMA LastLined ==
    ASSUME TypeInv, ScheduleInv, NEW c \in Int, NEW n \in Nat, NEW v \in Nat, Fetching(c, n, v),
           NextPageIs(stream, c), stream.step = "fetch", StreamTyped, stream # NoStream
    PROVE  /\ LastCrons \in Seq(Lined)
           /\ Chain(LastCrons, c + v, c + v)
<1> PICK T : T = {m \in Lined : IsCron(m) /\ m.ordinate = c + v}
  OBVIOUS
<1>1. LastCrons \in Seq(T)
  <2>1. CASE ~ (Whole /\ ~ Page.more)
    BY <2>1 DEF LastCrons
  <2>2. CASE Whole /\ ~ Page.more
    <3>1. v = n
      BY <2>2 DEF Whole, Fetching, PageOf, TakenOf
    <3> PICK left : left = Last(Bounds)
      OBVIOUS
    <3>2. left = IF v = 0 THEN stream.prev ELSE Scheduled(Slot(c + v))
      BY BoundsAre
    <3>3. /\ c + v \in 0 .. Len(schedule) /\ left.ordinate = c + v
          /\ left.time \in Nat /\ Slot(c + v).time <= left.time
      <4>1. CASE v = 0
        <5>1. stream.query.from # None
          BY <4>1, <3>1 DEF Fetching, PageOf
        <5>2. stream.prev.ordinate = c /\ Placed(stream.prev.time, c)
          BY <5>1 DEF NextPageIs
        <5>3. stream.prev.time \in Nat
          BY BoundsAre, LeftsAre
        <5>4. QED
          BY <5>2, <5>3, <4>1, <3>2 DEF Placed
      <4>2. CASE v # 0
        <5>1. v \in 1 .. v
          BY <4>2
        <5>2. c + v \in 0 .. Len(schedule)
          BY <5>1, BoundsAre
        <5>3. QED
          BY <5>2, <4>2, <3>2, SlotIs, SlotTimes DEF TypeInv
      <4>3. QED
        BY <4>1, <4>2
    <3>4. \A j \in c + v + 1 .. Len(schedule) : stream.query.to = stream.right /\ stream.right < Slot(j).time
      <4> SUFFICES ASSUME NEW j \in c + v + 1 .. Len(schedule)
                   PROVE  stream.query.to = stream.right /\ stream.right < Slot(j).time
        OBVIOUS
      <4>1. j \in 1 .. Len(schedule) /\ j > c + n /\ j # 0
        BY <3>1, <3>3, SlotTimes
      <4>2. stream.query.to # None /\ schedule[j].time > stream.query.to
        BY <4>1, <2>2 DEF Fetching, PageOf
      <4>3. QED
        BY <4>1, <4>2 DEF NextPageIs, Slot
    <3>5. ASSUME NEW m \in Between(left, stream.right) PROVE m \in T
      <4>1. /\ m \in Entries /\ IsCron(m) /\ m.time \in Nat
            /\ m.ordinate = c + v /\ left.time <= m.time /\ m.time < stream.right
        BY <3>3, <3>5, BetweenAre DEF Between, Instants
      <4>2. stream.right \in Nat /\ stream.right <= now /\ now \in Nat
        BY SlotTimes DEF StreamTyped, Streams
      <4>3. /\ Slot(c + v).time \in Nat
            /\ \A j \in c + v + 1 .. Len(schedule) : Slot(j).time \in Nat
        BY <3>3, SlotTimes
      <4>4. /\ Slot(c + v).time <= m.time /\ m.time < now
            /\ \A j \in c + v + 1 .. Len(schedule) : m.time < Slot(j).time
        BY <4>1, <4>2, <4>3, <3>3, <3>4
      <4>5. Placed(m.time, c + v)
        BY <4>1, <4>4, <3>3, PlacedAt
      <4>6. QED
        BY <4>1, <4>5 DEF Lined
    <3>6. LastCrons \in Seq(Between(left, stream.right))
      BY LastCronsAre
    <3>7. QED
      BY <3>5, <3>6, SeqGrows
  <2>3. QED
    BY <2>1, <2>2
<1>2. Chain(LastCrons, c + v, c + v)
  BY <1>1, ChainCrons
<1>3. T \subseteq Lined
  OBVIOUS
<1>4. QED
  BY <1>1, <1>2, <1>3, SeqGrows

LEMMA FetchReads ==
    ASSUME TypeInv, FoldInv, Fetch, NEW p, NEW e, ReadTo(stream, p, e),
           NEW s, s = stream'
    PROVE  s \in Streams /\ \E f : ReadTo(s, p, f)
<1>1. /\ stream.step = "fetch" /\ stream # NoStream /\ StreamTyped
      /\ stream \in Streams /\ InSchedule(schedule) /\ ScheduleInv
  <2>1. stream.step = "fetch"
    BY DEF Fetch
  <2>2. stream # NoStream
    BY <2>1 DEF NoStream
  <2>3. QED
    BY <2>1, <2>2 DEF TypeInv, StreamTyped, FoldInv
<1>2. PICK c \in Int, n \in Nat, v \in Nat : Fetching(c, n, v)
  BY <1>1, FetchFinds
<1>3. FetchedOf(s)
  BY <1>2, FetchTypes
<1>4. /\ p \in -1 .. Len(schedule) /\ e \in -1 .. Len(schedule) /\ NextPageIs(stream, e)
      /\ stream.queue \in Seq(Lined) /\ Chain(stream.queue, p, e)
      /\ FoldIs(stream.fold, p) /\ LastIs(stream, p)
  BY DEF ReadTo
<1>5. c = e /\ NextPageIs(stream, c)
  BY <1>1, <1>2, <1>4, FetchFrom
<1>6. /\ v \in Nat /\ v <= n /\ c + n <= Len(schedule) /\ Len(schedule) \in Nat /\ -1 <= c
  BY <1>2, BoundsAre
<1>7. Merged \in Seq(Lined) /\ LastCrons \in Seq(Lined) /\ Chain(LastCrons, c + v, c + v)
  BY <1>1, <1>2, <1>5, MergedLined, LastLined
<1>8. Chain(Merged, c, c + v)
  <2>1. stream.prev.ordinate = c \/ (c = -1 /\ stream.prev.time = Origin.time)
    <3>1. CASE stream.query.from = None
      BY <1>1, <1>5, <3>1 DEF NextPageIs
    <3>2. CASE stream.query.from # None
      BY <1>1, <1>5, <3>2 DEF NextPageIs
    <3>3. QED
      BY <3>1, <3>2
  <2>2. QED
    BY <1>2, <2>1, MergedChain
<1>9. s.queue \in Seq(Lined) /\ Chain(s.queue, p, c + v)
  <2>1. s.queue = stream.queue \o Merged \o LastCrons
    BY <1>3 DEF FetchedOf
  <2>2. stream.queue \o Merged \in Seq(Lined)
    BY <1>4, <1>7
  <2>3. Chain(stream.queue \o Merged, p, c + v)
    BY <1>4, <1>5, <1>7, <1>8, ChainConcat
  <2>4. Chain(stream.queue \o Merged \o LastCrons, p, c + v)
    BY <2>2, <2>3, <1>7, ChainConcat
  <2>5. QED
    BY <2>1, <2>2, <2>4, <1>7
<1>10. FoldIs(s.fold, p) /\ LastIs(s, p)
  BY <1>3, <1>4 DEF FetchedOf, LastIs
<1>11. NextPageIs(s, c + v)
  <2> SUFFICES ASSUME s.step = "fetch"
               PROVE  /\ s.query.to \in {None, s.right}
                      /\ s.query.from # None /\ s.query.from = s.prev.time
                      /\ s.prev.ordinate = c + v /\ Placed(s.prev.time, c + v)
    BY DEF NextPageIs
  <2>1. Whole /\ Page.more
    BY <1>3 DEF FetchedOf
  <2>2. v = n
    BY <1>2, <2>1 DEF Whole, Fetching, PageOf, TakenOf
  <2>3. n > 0
    BY <1>2, <2>1 DEF Fetching, PageOf, Streams, Queries
  <2>4. s.prev = Scheduled(Slot(c + v))
    BY <1>2, <1>3, <2>2, <2>3, BoundsAre DEF FetchedOf
  <2>5. c + v \in 0 .. Len(schedule)
    BY <1>6, <2>2, <2>3
  <2>6. s.prev.ordinate = c + v /\ s.prev.time = Slot(c + v).time /\ Slot(c + v).time \in Nat
    BY <1>1, <2>4, <2>5, SlotIs, SlotTimes
  <2>7. Placed(s.prev.time, c + v)
    BY <1>1, <2>5, <2>6, PlacedAt
  <2>8. s.query.from = Slot(c + v).time /\ s.query.to = stream.query.to
    <3>1. s.query = NextQuery(stream.query, Page)
      BY <1>3 DEF FetchedOf
    <3>2. /\ NextQuery(stream.query, Page).to = stream.query.to
          /\ NextQuery(stream.query, Page).from = IF n = 0 THEN None ELSE Slot(c + n).time
      BY <1>2, NextQueryIs
    <3>3. QED
      BY <2>2, <2>3, <3>1, <3>2
  <2>9. s.query.from # None
    BY <2>6, <2>8 DEF None
  <2>10. s.query.to \in {None, s.right}
    BY <1>1, <1>3, <1>4, <2>8 DEF NextPageIs, FetchedOf
  <2>11. QED
    BY <2>6, <2>7, <2>8, <2>9, <2>10
<1>12. c + v \in -1 .. Len(schedule)
  BY <1>6
<1>13. ReadTo(s, p, c + v)
  BY <1>4, <1>9, <1>10, <1>11, <1>12 DEF ReadTo
<1>14. QED
  BY <1>3, <1>13 DEF FetchedOf

\* What is at the head of a queue: a cron after message p, or the message after it.
LEMMA HeadLined ==
    ASSUME TypeInv, NEW p, NEW e, ReadTo(stream, p, e), stream.queue # <<>>,
           NEW m, m = Head(stream.queue)
    PROVE  /\ m \in Lined /\ Tail(stream.queue) \in Seq(Lined)
           /\ p \in Int /\ -1 <= p
           /\ m.ordinate \in 0 .. Len(schedule)
           /\ IsCron(m) => m.ordinate = p
           /\ ~ IsCron(m) => m.ordinate = p + 1 /\ m = Scheduled(Slot(p + 1))
           /\ Chain(Tail(stream.queue), m.ordinate, e)
<1>1. stream.queue \in Seq(Lined) /\ Chain(stream.queue, p, e) /\ p \in -1 .. Len(schedule)
  BY DEF ReadTo
<1>2. m \in Lined /\ Tail(stream.queue) \in Seq(Lined)
  BY <1>1
<1>3. /\ m.ordinate = p + (IF IsCron(m) THEN 0 ELSE 1)
      /\ Chain(Tail(stream.queue), m.ordinate, e)
  BY <1>1, ChainTail
<1>4. m.ordinate \in 0 .. Len(schedule)
  BY <1>2 DEF Lined, Placed
<1>5. ~ IsCron(m) => m = Scheduled(Slot(m.ordinate))
  BY <1>2 DEF Lined
<1>6. p \in Int /\ -1 <= p
  BY <1>1, SlotTimes
<1>7. QED
  BY <1>2, <1>3, <1>4, <1>5, <1>6

LEMMA ItemsAre ==
    ASSUME TypeInv, ScheduleInv, NEW i \in 1 .. Len(schedule)
    PROVE  /\ Slot(i) = schedule[i] /\ schedule[i].item \in Items
           /\ schedule[i].item.assigned
                \/ \A j \in 1 .. i - 1 : schedule[j].item.id # schedule[i].item.id
<1>1. Slot(i) = schedule[i]
  BY DEF Slot
<1>2. schedule \in Seq(Assignments) /\ IdsOnce(schedule \o pending) /\ pending \in Seq(Assignments)
  <2>1. pending \in Seq(Assignments)
    <3>1. CASE pending = <<>>
      BY <3>1
    <3>2. CASE pending # <<>>
      <4>1. pending = <<pending[1]>> /\ pending[1] \in Assignments
        BY <3>2 DEF TypeInv
      <4>2. \A x \in Assignments : <<x>> \in Seq(Assignments)
        OBVIOUS
      <4>3. QED
        BY <4>1, <4>2
    <3>3. QED
      BY <3>1, <3>2
  <2>2. QED
    BY <2>1 DEF TypeInv, InSchedule, ScheduleInv
<1>3. /\ i \in 1 .. Len(schedule \o pending)
      /\ \A j \in 1 .. i : (schedule \o pending)[j] = schedule[j]
  BY <1>2
<1>4. QED
  BY <1>1, <1>2, <1>3 DEF IdsOnce

LEMMA ProcessNamed == MessageId(ProcessItem) = "process"
<1>1. QED
  BY DEF MessageId, ProcessItem, NoHash

\* The names of two messages are the same if the later one repeats the other.
LEMMA NamesAre ==
    ASSUME TypeInv, ScheduleInv, ItemsNamed, NEW k \in 0 .. Len(schedule), NEW j \in 0 .. k - 1
    PROVE  MessageId(Slot(j).item) = MessageId(Slot(k).item)
             <=> /\ j # 0
                 /\ \/ schedule[j].item.id = schedule[k].item.id
                    \/ /\ schedule[j].item.deepHash # NoHash
                       /\ schedule[j].item.deepHash = schedule[k].item.deepHash
<1>1. k \in 1 .. Len(schedule)
  BY SlotTimes
<1>2. Slot(k) = schedule[k] /\ schedule[k].item \in Items
  BY <1>1, ItemsAre
<1>3. CASE j = 0
  <2>1. Slot(j).item = ProcessItem
    BY <1>3 DEF Slot, Process
  <2>2. MessageId(Slot(k).item) # "process"
    BY <1>2 DEF ItemsNamed
  <2>3. QED
    BY <1>3, <2>1, <2>2, ProcessNamed
<1>4. CASE j # 0
  <2>1. j \in 1 .. Len(schedule)
    BY <1>1, <1>4, SlotTimes
  <2>2. Slot(j) = schedule[j] /\ schedule[j].item \in Items
    BY <2>1, ItemsAre
  <2>3. QED
    BY <1>2, <1>4, <2>2 DEF ItemsNamed
<1>5. QED
  BY <1>3, <1>4

\* A message repeats another one if and only if an earlier one has its name.
LEMMA RepeatsIs ==
    ASSUME TypeInv, ScheduleInv, ItemsNamed, NEW k \in 0 .. Len(schedule)
    PROVE  Repeats(k) <=> \E j \in 0 .. k - 1 : MessageId(Slot(j).item) = MessageId(Slot(k).item)
<1>1. \A j \in 0 .. k - 1 :
         MessageId(Slot(j).item) = MessageId(Slot(k).item)
             <=> /\ j # 0
                 /\ \/ schedule[j].item.id = schedule[k].item.id
                    \/ /\ schedule[j].item.deepHash # NoHash
                       /\ schedule[j].item.deepHash = schedule[k].item.deepHash
  BY NamesAre
<1>2. \A j : j \in 1 .. k - 1 <=> j \in 0 .. k - 1 /\ j # 0
  BY SlotTimes
<1>3. QED
  BY <1>1, <1>2 DEF Repeats

\* A message that is at the head of a queue is a duplicate if and only if it
\* repeats another one.
LEMMA DuplicateIs ==
    ASSUME TypeInv, FoldInv, ItemsNamed, NEW k \in 0 .. Len(schedule), NamesIn(k - 1)
    PROVE  /\ IsDuplicate(Scheduled(Slot(k))) <=> Repeats(k)
           /\ (\E row \in rows : row.id = MessageId(Slot(k).item)) /\ ~ Repeats(k)
                 => \E row \in rows : row.id = MessageId(Slot(k).item) /\ row.nonce = k
<1> PICK m : m = Scheduled(Slot(k))
  OBVIOUS
<1>1. m.item = Slot(k).item /\ m.ordinate = k /\ ~ IsCron(m)
  BY SlotIs DEF Scheduled, TypeInv
<1>2. /\ ScheduleInv
      /\ \A row \in rows :
            /\ row.nonce \in 0 .. Len(schedule)
            /\ row.id = MessageId(Slot(row.nonce).item)
            /\ \A i \in 0 .. row.nonce - 1 : row.id # MessageId(Slot(i).item)
  BY DEF FoldInv, RowsInv
<1>3. ASSUME NEW row \in rows, row.id = MessageId(Slot(k).item)
      PROVE  row.nonce <= k /\ (row.nonce < k => Repeats(k))
  <2>1. ~ k \in 0 .. row.nonce - 1
    BY <1>2, <1>3
  <2>2. row.nonce <= k
    BY <1>2, <2>1, SlotTimes
  <2>3. ASSUME row.nonce < k PROVE Repeats(k)
    <3>1. row.nonce \in 0 .. k - 1
      BY <1>2, <2>3
    <3>2. MessageId(Slot(row.nonce).item) = MessageId(Slot(k).item)
      BY <1>2, <1>3
    <3>3. QED
      BY <1>2, <3>1, <3>2, RepeatsIs
  <2>4. QED
    BY <2>2, <2>3
<1>4. ASSUME Repeats(k)
      PROVE  \E row \in rows : row.id = MessageId(Slot(k).item) /\ row.nonce < k
  <2>1. PICK j \in 0 .. k - 1 : MessageId(Slot(j).item) = MessageId(Slot(k).item)
    BY <1>2, <1>4, RepeatsIs
  <2>2. PICK row \in rows : row.id = MessageId(Slot(j).item)
    BY DEF NamesIn
  <2>3. ~ j \in 0 .. row.nonce - 1
    BY <1>2, <2>2
  <2>4. row.nonce < k
    BY <1>2, <2>3, SlotTimes
  <2>5. QED
    BY <2>1, <2>2, <2>4
<1>5. IsDuplicate(m) <=>
        /\ Slot(k).item.deepHash # NoHash \/ Slot(k).item.assigned
        /\ \E row \in rows : row.id = MessageId(Slot(k).item) /\ row.nonce < k
  BY <1>1 DEF IsDuplicate, Exists
<1>6. IsDuplicate(m) => Repeats(k)
  BY <1>3, <1>5
<1>7. Repeats(k) => Slot(k).item.deepHash # NoHash \/ Slot(k).item.assigned
  <2> SUFFICES ASSUME Repeats(k), ~ Slot(k).item.assigned PROVE Slot(k).item.deepHash # NoHash
    OBVIOUS
  <2>1. k \in 1 .. Len(schedule)
    BY SlotTimes DEF Repeats
  <2>2. Slot(k) = schedule[k] /\ \A j \in 1 .. k - 1 : schedule[j].item.id # schedule[k].item.id
    BY <1>2, <2>1, ItemsAre
  <2>3. QED
    BY <2>2 DEF Repeats
<1>8. ASSUME NEW row \in rows, row.id = MessageId(Slot(k).item), ~ Repeats(k)
      PROVE  row.nonce = k
  <2>1. row.nonce <= k /\ ~ row.nonce < k /\ row.nonce \in Int
    BY <1>2, <1>3, <1>8
  <2>2. QED
    BY <2>1, SlotTimes
<1>9. IsDuplicate(m) <=> Repeats(k)
  BY <1>4, <1>5, <1>6, <1>7
<1>10. QED
  BY <1>8, <1>9, Zenon

\* What is to be shown once the message after k has been passed.
LEMMA DueIs ==
    ASSUME Len(schedule) \in Nat, NEW k \in 0 .. Len(schedule)
    PROVE  Due(k) = IF Repeats(k) \/ Slot(k).item.id \in Failing THEN Due(k - 1)
                    ELSE Due(k - 1) \cup {k}
<1>1. \A i : i \in 0 .. k <=> i \in 0 .. k - 1 \/ i = k
  OBVIOUS
<1>2. QED
  BY <1>1 DEF Due

\* Two memories that show the same messages.
LEMMA SameFold ==
    ASSUME NEW fold, NEW longer, NEW k, FoldIs(fold, k), ShownIn(longer) = ShownIn(fold),
           \A i \in ShownIn(fold) : longer[i] = fold[i]
    PROVE  FoldIs(longer, k)
<1> PICK shown : shown = ShownIn(fold)
  OBVIOUS
<1>1. {longer[i].at : i \in shown} = {fold[i].at : i \in shown}
  OBVIOUS
<1>2. {longer[i].at : i \in shown} = Due(k)
  BY <1>1 DEF FoldIs
<1>3. \A i, j \in shown : i < j => longer[i].at < longer[j].at
  BY DEF FoldIs
<1>4. QED
  BY <1>2, <1>3 DEF FoldIs

\* A cron that is evaluated over a memory changes nothing of what is shown.
LEMMA FoldCron ==
    ASSUME NEW fold \in Seq(Traces), NEW k, FoldIs(fold, k), NEW m, IsCron(m)
    PROVE  FoldIs(Append(fold, Trace(m)), k)
<1> PICK t : t = Trace(m)
  OBVIOUS
<1>1. IsCron(t)
  BY DEF Trace, IsCron
<1> PICK longer : longer = Append(fold, t)
  OBVIOUS
<1>2. /\ DOMAIN fold = 1 .. Len(fold) /\ Len(fold) \in Nat
      /\ DOMAIN longer = 1 .. Len(fold) + 1 /\ longer[Len(fold) + 1] = t
      /\ \A i \in 1 .. Len(fold) : longer[i] = fold[i]
  <2>1. \A x, s : s \in Seq(Traces) =>
            /\ DOMAIN Append(s, x) = 1 .. Len(s) + 1 /\ Append(s, x)[Len(s) + 1] = x
            /\ \A i \in 1 .. Len(s) : Append(s, x)[i] = s[i]
    OBVIOUS
  <2>2. QED
    BY <2>1
<1>3. ShownIn(longer) = ShownIn(fold)
  BY <1>1, <1>2 DEF ShownIn
<1>4. \A i \in ShownIn(fold) : longer[i] = fold[i]
  BY <1>2 DEF ShownIn
<1>5. QED
  BY <1>3, <1>4, SameFold

\* A message that is evaluated over a memory is shown last.
LEMMA FoldMessage ==
    ASSUME Len(schedule) \in Nat, NEW k \in 0 .. Len(schedule),
           NEW fold \in Seq(Traces), FoldIs(fold, k - 1),
           NEW m, ~ IsCron(m), m.ordinate = k, Due(k) = Due(k - 1) \cup {k}
    PROVE  FoldIs(Append(fold, Trace(m)), k)
<1> PICK t : t = Trace(m)
  OBVIOUS
<1>1. ~ IsCron(t) /\ t.at = k
  BY DEF Trace, IsCron
<1> PICK longer : longer = Append(fold, t)
  OBVIOUS
<1> PICK n : n = Len(fold)
  OBVIOUS
<1>2. /\ DOMAIN fold = 1 .. n /\ n \in Nat
      /\ DOMAIN longer = 1 .. n + 1 /\ longer[n + 1] = t
      /\ \A i \in 1 .. n : longer[i] = fold[i]
  <2>1. \A x, s : s \in Seq(Traces) =>
            /\ DOMAIN Append(s, x) = 1 .. Len(s) + 1 /\ Append(s, x)[Len(s) + 1] = x
            /\ \A i \in 1 .. Len(s) : Append(s, x)[i] = s[i]
    OBVIOUS
  <2>2. QED
    BY <2>1
<1>3. ShownIn(longer) = ShownIn(fold) \cup {n + 1}
  BY <1>1, <1>2 DEF ShownIn
<1>4. \A i \in ShownIn(fold) : longer[i] = fold[i] /\ i \in 1 .. n
  BY <1>2 DEF ShownIn
<1>5. {longer[i].at : i \in ShownIn(longer)} = Due(k)
  <2>1. {longer[i].at : i \in ShownIn(longer)} = {fold[i].at : i \in ShownIn(fold)} \cup {k}
    BY <1>1, <1>2, <1>3, <1>4
  <2>2. QED
    BY <2>1 DEF FoldIs
<1>6. ASSUME NEW i \in ShownIn(fold) PROVE fold[i].at < k /\ fold[i].at \in Int
  <2>1. fold[i].at \in Due(k - 1)
    BY DEF FoldIs
  <2>2. QED
    BY <2>1 DEF Due
<1>7. ASSUME NEW i \in ShownIn(longer), NEW j \in ShownIn(longer), i < j
      PROVE  longer[i].at < longer[j].at
  <2>1. i # n + 1 /\ i \in ShownIn(fold)
    BY <1>2, <1>3, <1>4, <1>7
  <2>2. CASE j = n + 1
    BY <1>1, <1>2, <1>4, <1>6, <2>1, <2>2
  <2>3. CASE j # n + 1
    BY <1>3, <1>4, <1>7, <2>1, <2>3 DEF FoldIs
  <2>4. QED
    BY <2>2, <2>3
<1>8. QED
  BY <1>5, <1>7 DEF FoldIs

\* What a stream has passed up to k, where the messages after p repeat others.
LEMMA LastFold ==
    ASSUME Len(schedule) \in Nat, NEW p \in -1 .. Len(schedule), NEW k \in 0 .. Len(schedule), k <= p,
           \A i \in k + 1 .. p : Repeats(i)
    PROVE  Due(k) = Due(p)
<1>1. \A i : i \in 0 .. k => i \in 0 .. p
  OBVIOUS
<1>2. \A i : i \in 0 .. p /\ ~ Repeats(i) => i \in 0 .. k
  OBVIOUS
<1>3. QED
  BY <1>1, <1>2 DEF Due

\* What a stream that has passed a message has read.
LEMMA PassReads ==
    ASSUME TypeInv, FoldInv, NEW p, NEW e, ReadTo(stream, p, e), stream.queue # <<>>,
           NEW m, m = Head(stream.queue),
           NEW s, s.queue = Tail(stream.queue), s.step = stream.step, s.query = stream.query,
           s.right = stream.right, s.prev = stream.prev,
           FoldIs(s.fold, m.ordinate), LastIs(s, m.ordinate)
    PROVE  ReadTo(s, m.ordinate, e)
<1>1. /\ Tail(stream.queue) \in Seq(Lined) /\ m.ordinate \in 0 .. Len(schedule)
      /\ Chain(Tail(stream.queue), m.ordinate, e)
  BY HeadLined
<1>2. m.ordinate \in -1 .. Len(schedule)
  BY <1>1, SlotTimes
<1>3. e \in -1 .. Len(schedule) /\ NextPageIs(s, e)
  BY DEF ReadTo, NextPageIs
<1>4. QED
  BY <1>1, <1>2, <1>3 DEF ReadTo

LEMMA SkipReads ==
    ASSUME TypeInv, FoldInv, ItemsNamed, Skip, NEW p, NEW e, ReadTo(stream, p, e), NamesIn(p),
           NEW s, s = stream'
    PROVE  s \in Streams /\ \E k : ReadTo(s, k, e) /\ NamesIn(k)
<1> PICK m : m = Head(stream.queue)
  OBVIOUS
<1>1. stream # NoStream /\ stream.queue # <<>> /\ IsDuplicate(m) /\ s = Passed(m)
  BY DEF Skip
<1>2. PassedOf(s, m)
  BY <1>1, PassedIs DEF TypeInv
<1>3. /\ m \in Lined /\ p \in Int /\ -1 <= p
      /\ m.ordinate \in 0 .. Len(schedule)
      /\ IsCron(m) => m.ordinate = p
      /\ ~ IsCron(m) => m.ordinate = p + 1 /\ m = Scheduled(Slot(p + 1))
  BY <1>1, HeadLined
<1>4. /\ p \in -1 .. Len(schedule) /\ FoldIs(stream.fold, p) /\ LastIs(stream, p)
      /\ Len(schedule) \in Nat
  BY SlotTimes DEF ReadTo
<1>5. FoldIs(s.fold, m.ordinate) /\ LastIs(s, m.ordinate) /\ NamesIn(m.ordinate)
  <2>1. CASE IsCron(m)
    BY <1>2, <1>3, <1>4, <2>1 DEF PassedOf, LastIs
  <2>2. CASE ~ IsCron(m)
    <3> PICK k : k = m.ordinate
      OBVIOUS
    <3>1. k \in 0 .. Len(schedule) /\ p = k - 1 /\ m = Scheduled(Slot(k))
      BY <1>3, <2>2
    <3>2. Repeats(k)
      BY <1>1, <3>1, DuplicateIs
    <3>3. Due(k) = Due(p)
      BY <1>4, <3>1, <3>2, DueIs
    <3>4. FoldIs(s.fold, k)
      BY <1>2, <1>4, <3>3 DEF PassedOf, FoldIs
    <3>5. LastIs(s, k)
      <4>1. LastIs(stream, p) /\ s.last = stream.last
        BY <1>2, <1>4 DEF PassedOf
      <4>2. ASSUME s.last # <<>>
            PROVE  /\ s.last[1] \in Lined /\ s.last[1].ordinate <= k
                   /\ \A i \in s.last[1].ordinate + 1 .. k : Repeats(i)
        <5>1. /\ s.last[1] \in Lined /\ s.last[1].ordinate <= p
              /\ \A i \in s.last[1].ordinate + 1 .. p : Repeats(i)
          BY <4>1, <4>2 DEF LastIs
        <5>2. s.last[1].ordinate \in Int
          BY <5>1, <1>4 DEF Lined, Placed
        <5>3. \A i \in s.last[1].ordinate + 1 .. k : i \in s.last[1].ordinate + 1 .. p \/ i = k
          BY <5>2, <3>1
        <5>4. s.last[1].ordinate <= k
          BY <5>1, <5>2, <3>1, <1>3
        <5>5. QED
          BY <5>1, <5>3, <5>4, <3>2
      <4>3. QED
        BY <4>2 DEF LastIs
    <3>6. NamesIn(k)
      <4>1. \A i \in 0 .. k : i \in 0 .. p \/ i = k
        BY <3>1
      <4>2. m.item = Slot(k).item
        BY <3>1 DEF Scheduled
      <4>3. \E row \in rows : row.id = MessageId(Slot(k).item)
        BY <1>1, <2>2, <4>2 DEF IsDuplicate, Exists
      <4>4. QED
        BY <4>1, <4>3 DEF NamesIn
    <3>7. QED
      BY <3>4, <3>5, <3>6
  <2>3. QED
    BY <2>1, <2>2
<1>6. ReadTo(s, m.ordinate, e)
  BY <1>1, <1>2, <1>5, PassReads DEF PassedOf
<1>7. QED
  BY <1>2, <1>5, <1>6 DEF PassedOf

LEMMA EvaluateReads ==
    ASSUME TypeInv, FoldInv, ItemsNamed, ~ RowsFail, Evaluate,
           NEW p, NEW e, ReadTo(stream, p, e), NamesIn(p), NEW s, s = stream'
    PROVE  /\ s \in Streams /\ rows \subseteq rows' /\ RowsInv'
           /\ \E k : ReadTo(s, k, e) /\ NamesIn(k)'
<1> PICK m : m = Head(stream.queue)
  OBVIOUS
<1>1. /\ stream # NoStream /\ stream.queue # <<>> /\ ~ IsDuplicate(m)
      /\ EvaluatedOf(s, m)
  BY EvaluateIs DEF TypeInv
<1>2. /\ schedule' = schedule
      /\ rows' = IF IsCron(m) \/ \E row \in rows : row.id = MessageId(m.item)
                 THEN rows ELSE rows \cup {[id |-> MessageId(m.item), nonce |-> m.ordinate]}
  BY DEF Evaluate
<1>3. /\ m \in Lined /\ p \in Int /\ -1 <= p
      /\ m.ordinate \in 0 .. Len(schedule)
      /\ IsCron(m) => m.ordinate = p
      /\ ~ IsCron(m) => m.ordinate = p + 1 /\ m = Scheduled(Slot(p + 1))
  BY <1>1, HeadLined
<1>4. /\ p \in -1 .. Len(schedule) /\ FoldIs(stream.fold, p)
      /\ Len(schedule) \in Nat /\ stream.fold \in Seq(Traces)
      /\ ScheduleInv
  BY <1>1, SlotTimes DEF ReadTo, TypeInv, StreamTyped, Streams, FoldInv
<1>5. LastIs(s, m.ordinate)
  <2>1. s.last = <<m>>
    BY <1>1 DEF EvaluatedOf
  <2>2. \A i \in m.ordinate + 1 .. m.ordinate : FALSE
    BY <1>3
  <2>3. QED
    BY <2>1, <2>2, <1>3 DEF LastIs
<1>6. rows \subseteq rows' /\ (\A i : MessageId(Slot(i).item)' = MessageId(Slot(i).item))
  BY <1>2 DEF Slot, MessageId, NoHash
<1>7. FoldIs(s.fold, m.ordinate) /\ NamesIn(m.ordinate)' /\ RowsInv'
  <2>1. CASE IsCron(m)
    <3>1. s.fold = Append(stream.fold, Trace(m)) /\ m.ordinate = p
      BY <1>1, <1>3, <2>1 DEF EvaluatedOf, Fails
    <3>2. FoldIs(s.fold, p)
      BY <1>4, <2>1, <3>1, FoldCron
    <3>3. rows' = rows
      BY <1>2, <2>1
    <3>4. NamesIn(p)' /\ RowsInv'
      BY <1>2, <3>3 DEF NamesIn, RowsInv, FoldInv, Slot, MessageId, NoHash
    <3>5. QED
      BY <3>1, <3>2, <3>4
  <2>2. CASE ~ IsCron(m)
    <3> PICK k : k = m.ordinate
      OBVIOUS
    <3>1. k \in 0 .. Len(schedule) /\ p = k - 1 /\ m = Scheduled(Slot(k)) /\ m.item = Slot(k).item
      BY <1>3, <2>2 DEF Scheduled
    <3>2. ~ Repeats(k)
      BY <1>1, <3>1, DuplicateIs
    <3>3. FoldIs(s.fold, k)
      <4>1. CASE Fails(m)
        <5>1. Due(k) = Due(p) /\ s.fold = stream.fold
          BY <1>1, <1>4, <3>1, <4>1, DueIs DEF EvaluatedOf, Fails
        <5>2. QED
          BY <5>1, <1>4 DEF FoldIs
      <4>2. CASE ~ Fails(m)
        <5>1. Due(k) = Due(p) \cup {k}
          BY <1>4, <2>2, <3>1, <3>2, <4>2, DueIs DEF Fails
        <5>2. s.fold = Append(stream.fold, Trace(m))
          BY <1>1, <4>2 DEF EvaluatedOf
        <5>3. FoldIs(stream.fold, k - 1) /\ Due(k) = Due(k - 1) \cup {k}
          BY <5>1, <1>4, <3>1
        <5>4. FoldIs(Append(stream.fold, Trace(m)), k)
          BY <5>3, <1>4, <2>2, <3>1, FoldMessage
        <5>5. QED
          BY <5>2, <5>4
      <4>3. QED
        BY <4>1, <4>2
    <3>4. \E row \in rows' : row.id = MessageId(Slot(k).item)
      <4>1. CASE \E row \in rows : row.id = MessageId(m.item)
        BY <3>1, <4>1, <1>6
      <4>2. CASE ~ \E row \in rows : row.id = MessageId(m.item)
        <5> PICK new : new = [id |-> MessageId(m.item), nonce |-> m.ordinate]
          OBVIOUS
        <5>1. new \in rows'
          BY <1>2, <2>2, <4>2
        <5>2. new.id = MessageId(Slot(k).item)
          BY <3>1
        <5>3. QED
          BY <5>1, <5>2
      <4>3. QED
        BY <4>1, <4>2
    <3>5. NamesIn(k)'
      <4>1. \A i \in 0 .. k : i \in 0 .. p \/ i = k
        BY <3>1
      <4>2. \A i \in 0 .. k : \E row \in rows' : row.id = MessageId(Slot(i).item)
        BY <4>1, <3>4, <1>6 DEF NamesIn
      <4>3. QED
        BY <4>2, <1>6 DEF NamesIn
    <3>6. RowsInv'
      <4> SUFFICES ASSUME NEW row \in rows'
                   PROVE  /\ row.nonce \in 0 .. Len(schedule)
                          /\ row.id = MessageId(Slot(row.nonce).item)
                          /\ \A i \in 0 .. row.nonce - 1 : row.id # MessageId(Slot(i).item)
        BY <1>2, <1>6 DEF RowsInv
      <4>1. CASE row \in rows
        BY <4>1 DEF FoldInv, RowsInv
      <4>2. CASE row \notin rows
        <5>1. /\ row.id = MessageId(Slot(k).item) /\ row.nonce = k
              /\ \A other \in rows : other.id # row.id
          BY <1>2, <3>1, <4>2
        <5>2. ASSUME NEW i \in 0 .. k - 1 PROVE row.id # MessageId(Slot(i).item)
          BY <5>1, <3>1 DEF NamesIn
        <5>3. QED
          BY <5>1, <5>2, <3>1
      <4>3. QED
        BY <4>1, <4>2
    <3>7. QED
      BY <3>3, <3>5, <3>6
  <2>3. QED
    BY <2>1, <2>2
<1>8. ReadTo(s, m.ordinate, e)
  BY <1>1, <1>5, <1>7, PassReads DEF EvaluatedOf
<1>9. QED
  BY <1>1, <1>6, <1>7, <1>8 DEF EvaluatedOf

\* The memory that a stream leaves.
LEMMA ResultReads ==
    ASSUME TypeInv, FoldInv, Finish, stream.last # <<>>,
           NEW p, NEW e, ReadTo(stream, p, e), NamesIn(p)
    PROVE  MemoryInv(Result)
<1>1. /\ Result.time = stream.last[1].time /\ Result.ordinate = stream.last[1].ordinate
      /\ Result.fold = stream.fold
  BY ResultIs
<1> PICK k : k = stream.last[1].ordinate
  OBVIOUS
<1>2. /\ stream.last[1] \in Lined /\ k <= p /\ \A i \in k + 1 .. p : Repeats(i)
      /\ p \in -1 .. Len(schedule) /\ FoldIs(stream.fold, p)
  BY DEF ReadTo, LastIs
<1>3. Placed(stream.last[1].time, k) /\ k \in 0 .. Len(schedule)
  BY <1>2 DEF Lined, Placed
<1>4. Due(k) = Due(p)
  BY <1>2, <1>3, LastFold, SlotTimes
<1>5. FoldIs(stream.fold, k)
  BY <1>2, <1>4 DEF FoldIs
<1>6. NamesIn(k)
  <2>1. \A i \in 0 .. k : i \in 0 .. p
    BY <1>2, <1>3, SlotTimes
  <2>2. QED
    BY <2>1 DEF NamesIn
<1>7. QED
  BY <1>1, <1>3, <1>5, <1>6 DEF MemoryInv

\* A message that is given a time.
LEMMA ScheduleLines ==
    ASSUME TypeInv, ScheduleInv, ~ Ties, ~ Reposted, NEW item \in Items, Schedule(item)
    PROVE  ScheduleInv'
<1>1. PICK a : pending' = <<a>> /\ a.time = now /\ a.item = item
  BY ScheduleKeeps
<1>2. /\ pending = <<>> /\ schedule' = schedule /\ now' = now
      /\ now > (IF schedule = <<>> THEN Process ELSE Last(schedule)).time
      /\ item.assigned \/ \A i \in DOMAIN schedule : schedule[i].item.id # item.id
  BY DEF Schedule
<1>3. Slot(Len(schedule)).time < now
  <2>1. CASE schedule = <<>>
    BY <1>2, <2>1, SlotTimes DEF Slot
  <2>2. CASE schedule # <<>>
    <3>1. Len(schedule) \in Nat /\ Len(schedule) # 0
      BY <2>2 DEF TypeInv, InSchedule
    <3>2. Last(schedule) = schedule[Len(schedule)]
      BY DEF Last
    <3>3. QED
      BY <1>2, <2>2, <3>1, <3>2, SlotTimes DEF Slot
  <2>3. QED
    BY <2>1, <2>2
<1>4. IdsOnce(schedule' \o pending')
  <2> PICK s : s = schedule \o <<a>>
    OBVIOUS
  <2>1. /\ Len(schedule) \in Nat /\ DOMAIN schedule = 1 .. Len(schedule)
        /\ Len(s) = Len(schedule) + 1 /\ s[Len(schedule) + 1] = a
        /\ \A i \in 1 .. Len(schedule) : s[i] = schedule[i]
    <3>1. \A t : t \in Seq(Assignments) =>
            /\ Len(t) \in Nat /\ DOMAIN t = 1 .. Len(t)
            /\ Len(t \o <<a>>) = Len(t) + 1 /\ (t \o <<a>>)[Len(t) + 1] = a
            /\ \A i \in 1 .. Len(t) : (t \o <<a>>)[i] = t[i]
      OBVIOUS
    <3>2. QED
      BY <3>1 DEF TypeInv, InSchedule
  <2>2. \A i \in 1 .. Len(schedule) :
            /\ schedule[i].item \in Items
            /\ schedule[i].item.assigned \/ \A j \in 1 .. i - 1 : schedule[j].item.id # schedule[i].item.id
    BY ItemsAre
  <2>3. ASSUME NEW i \in 1 .. Len(s)
        PROVE  /\ s[i].item \in Items
               /\ s[i].item.assigned \/ \A j \in 1 .. i - 1 : s[j].item.id # s[i].item.id
    <3>1. CASE i \in 1 .. Len(schedule)
      <4>1. \A j \in 1 .. i - 1 : j \in 1 .. Len(schedule)
        BY <2>1, <3>1
      <4>2. QED
        BY <2>1, <2>2, <3>1, <4>1
    <3>2. CASE i = Len(schedule) + 1
      <4>1. \A j \in 1 .. i - 1 : j \in 1 .. Len(schedule)
        BY <2>1, <3>2
      <4>2. QED
        BY <1>1, <1>2, <2>1, <3>2, <4>1
    <3>3. QED
      BY <2>1, <2>3, <3>1, <3>2
  <2>4. s = schedule' \o pending'
    BY <1>1, <1>2
  <2>5. QED
    BY <2>3, <2>4 DEF IdsOnce
<1>5. QED
  BY <1>1, <1>2, <1>3, <1>4 DEF ScheduleInv, Slot

LEMMA CommitLines ==
    ASSUME TypeInv, ScheduleInv, Commit
    PROVE  ScheduleInv'
<1>1. /\ Len(schedule') = Len(schedule) + 1 /\ Len(schedule) \in Nat
      /\ \A i \in 1 .. Len(schedule) : schedule'[i] = schedule[i]
      /\ schedule'[Len(schedule) + 1] = pending[1]
      /\ InSchedule(schedule')
  BY CommitKeeps
<1>2. schedule' = schedule \o pending /\ pending' = <<>> /\ pending # <<>>
  BY DEF Commit
<1>3. IdsOnce(schedule' \o pending')
  <2>1. schedule' \o <<>> = schedule'
    BY <1>1 DEF InSchedule
  <2>2. QED
    BY <1>2, <2>1 DEF ScheduleInv, IdsOnce
<1> PICK len : len = Len(schedule)
  OBVIOUS
<1>4. ASSUME NEW i \in 0 .. len + 1, NEW j \in 0 .. len + 1, i < j
      PROVE  Slot(i)'.time < Slot(j)'.time
  <2>1. i \in 0 .. len /\ Slot(i)' = Slot(i)
    BY <1>1, <1>4 DEF Slot
  <2>2. CASE j \in 0 .. len
    <3>1. Slot(j)' = Slot(j)
      BY <1>1, <2>2 DEF Slot
    <3>2. QED
      BY <1>4, <2>1, <2>2, <3>1 DEF ScheduleInv
  <2>3. CASE j = len + 1
    <3>1. Slot(j)'.time = now /\ Slot(len).time < now
      BY <1>1, <1>2, <2>3 DEF Slot, ScheduleInv
    <3>2. Slot(i).time <= Slot(len).time
      <4>1. i = len \/ i < len
        BY <1>1, <2>1
      <4>2. len \in 0 .. len
        BY <1>1
      <4>3. Slot(i).time \in Nat /\ Slot(len).time \in Nat
        BY <2>1, <4>2, SlotTimes
      <4>4. QED
        BY <2>1, <4>1, <4>2, <4>3 DEF ScheduleInv
    <3>3. Slot(i).time \in Nat /\ Slot(len).time \in Nat /\ now \in Nat
      BY <1>1, <2>1, SlotTimes
    <3>4. QED
      BY <2>1, <3>1, <3>2, <3>3
  <2>4. QED
    BY <1>1, <1>4, <2>2, <2>3
<1>5. QED
  BY <1>1, <1>2, <1>3, <1>4 DEF ScheduleInv

LEMMA FoldInit == Init => FoldInv
<1> SUFFICES ASSUME Init PROVE FoldInv
  OBVIOUS
<1>1. schedule = <<>> /\ pending = <<>> /\ rows = {} /\ saves = {} /\ stream = NoStream
  BY DEF Init
<1>2. Len(schedule) = 0 /\ schedule \o pending = <<>>
  BY <1>1
<1>3. ScheduleInv
  BY <1>1, <1>2 DEF ScheduleInv, IdsOnce
<1>4. QED
  BY <1>1, <1>3 DEF FoldInv, RowsInv

LEMMA FoldNext ==
    ASSUME ~ Ties, ~ Reposted, ~ SlowSaves, ~ RowsFail, ~ OtherTables, ItemsNamed
    PROVE  TypeInv /\ TypeInv' /\ FoldInv /\ [Next]_vars => FoldInv'
<1> SUFFICES ASSUME TypeInv, TypeInv', FoldInv, [Next]_vars PROVE FoldInv'
  OBVIOUS
<1>1. ScheduleInv /\ RowsInv /\ now \in Nat /\ now' \in Nat
  BY DEF FoldInv, TypeInv
<1>2. ASSUME Grows, ScheduleInv', rows' = rows, saves' = saves, stream' = stream PROVE FoldInv'
  BY <1>2, WorldStays DEF FoldInv
<1>3. ASSUME schedule' = schedule, now' = now, pending' = pending PROVE ScheduleInv'
  BY <1>1, <1>3 DEF ScheduleInv, IdsOnce, Slot
<1>4. ASSUME stream # NoStream
      PROVE  \E p, e : ReadTo(stream, p, e) /\ NamesIn(p)
  BY <1>4 DEF FoldInv, StreamAt
<1>5. ASSUME schedule' = schedule, now' = now, pending' = pending, rows' = rows,
             \A memory \in saves' : MemoryInv(memory), stream' = NoStream
      PROVE  FoldInv'
  <2>1. Grows
    BY <1>1, <1>5, GrowsStill
  <2>2. \A memory \in saves' : MemoryInv(memory)'
    <3> SUFFICES ASSUME NEW memory \in saves' PROVE MemoryInv(memory)'
      OBVIOUS
    <3>1. memory.time \in Nat
      BY DEF TypeInv, Memories
    <3>2. QED
      BY <1>5, <2>1, <3>1, MemoryStays
  <2>3. RowsInv'
    BY <1>1, <1>5 DEF RowsInv, Slot, MessageId, NoHash
  <2>4. stream' = NoStream'
    BY <1>5 DEF NoStream
  <2>5. QED
    BY <1>3, <1>5, <2>2, <2>3, <2>4 DEF FoldInv
<1>6. ASSUME schedule' = schedule, now' = now, pending' = pending, saves' = saves,
             rows \subseteq rows', RowsInv',
             NEW s \in Streams, s = stream', NEW p, NEW e, ReadTo(s, p, e), NamesIn(p)'
      PROVE  FoldInv'
  BY <1>6, StreamMoves
<1>7. ASSUME schedule' = schedule, rows' = rows
      PROVE  RowsInv' /\ (\A k : NamesIn(k)' <=> NamesIn(k))
  BY <1>1, <1>7 DEF RowsInv, NamesIn, Slot, MessageId, NoHash
<1>8. CASE Tick
  <2>1. /\ pending = <<>> /\ now' = now + 1
        /\ UNCHANGED <<schedule, pending, rows, saves, stream>>
    BY <1>8 DEF Tick
  <2>2. Grows
    BY <1>1, <2>1, GrowsStill
  <2>3. ScheduleInv'
    BY <1>1, <2>1 DEF ScheduleInv, IdsOnce, Slot
  <2>4. QED
    BY <1>2, <2>1, <2>2, <2>3
<1>9. CASE \E item \in Items : Schedule(item)
  <2>1. PICK item \in Items : Schedule(item)
    BY <1>9
  <2>2. UNCHANGED <<now, schedule, rows, saves, stream>>
    BY <2>1 DEF Schedule
  <2>3. Grows
    BY <1>1, <2>2, GrowsStill
  <2>4. ScheduleInv'
    BY <1>1, <2>1, ScheduleLines
  <2>5. QED
    BY <1>2, <2>2, <2>3, <2>4
<1>10. CASE Commit
  <2>1. UNCHANGED <<rows, saves, stream>>
    BY <1>10 DEF Commit
  <2>2. QED
    BY <1>1, <1>2, <1>10, <2>1, CommitGrows, CommitLines
<1>11. CASE (\E b \in Blocks : SaveBlock(b)) \/ UNCHANGED vars
  <2>1. UNCHANGED <<now, schedule, pending, rows, saves, stream>>
    BY <1>11 DEF SaveBlock, vars
  <2>2. Grows
    BY <1>1, <2>1, GrowsStill
  <2>3. QED
    BY <1>2, <1>3, <2>1, <2>2
<1>12. CASE \E memory \in saves \cup {Cold}, to \in {None} \cup Origin.time .. now : Begin(memory, to)
  <2>1. PICK memory \in saves \cup {Cold}, to \in {None} \cup Origin.time .. now : Begin(memory, to)
    BY <1>12
  <2>2. UNCHANGED <<now, schedule, pending, rows, saves>>
    BY <2>1 DEF Begin
  <2> PICK s : s = stream'
    OBVIOUS
  <2>3. PICK right : BegunOf(s, memory, to, right)
    BY <2>1, BeginIs
  <2>4. PICK p : ReadTo(s, p, p) /\ NamesIn(p)
    BY <2>3, BeginReads
  <2>5. s \in Streams /\ rows \subseteq rows'
    BY <2>2, <2>3 DEF BegunOf
  <2>6. QED
    BY <1>6, <1>7, <2>2, <2>4, <2>5
<1>13. CASE Fetch
  <2>1. UNCHANGED <<now, schedule, pending, rows, saves>> /\ stream.step = "fetch"
    BY <1>13 DEF Fetch
  <2>2. stream # NoStream
    BY <2>1 DEF NoStream
  <2>3. PICK p, e : ReadTo(stream, p, e) /\ NamesIn(p)
    BY <1>4, <2>2
  <2> PICK s : s = stream'
    OBVIOUS
  <2>4. s \in Streams /\ \E f : ReadTo(s, p, f)
    BY <1>13, <2>3, FetchReads
  <2>5. QED
    BY <1>6, <1>7, <2>1, <2>3, <2>4
<1>14. CASE Skip
  <2>1. UNCHANGED <<now, schedule, pending, rows, saves>> /\ stream # NoStream
    BY <1>14 DEF Skip
  <2>2. PICK p, e : ReadTo(stream, p, e) /\ NamesIn(p)
    BY <1>4, <2>1
  <2> PICK s : s = stream'
    OBVIOUS
  <2>3. s \in Streams /\ \E k : ReadTo(s, k, e) /\ NamesIn(k)
    BY <1>14, <2>2, SkipReads
  <2>4. QED
    BY <1>6, <1>7, <2>1, <2>3
<1>15. CASE Evaluate
  <2>1. UNCHANGED <<now, schedule, pending, saves>> /\ stream # NoStream
    BY <1>15 DEF Evaluate
  <2>2. PICK p, e : ReadTo(stream, p, e) /\ NamesIn(p)
    BY <1>4, <2>1
  <2> PICK s : s = stream'
    OBVIOUS
  <2>3. /\ s \in Streams /\ rows \subseteq rows' /\ RowsInv'
        /\ \E k : ReadTo(s, k, e) /\ NamesIn(k)'
    BY <1>15, <2>2, EvaluateReads
  <2>4. QED
    BY <1>6, <2>1, <2>3
<1>16. CASE Finish
  <2>1. /\ UNCHANGED <<now, schedule, pending, rows>> /\ stream' = NoStream /\ stream # NoStream
        /\ saves' = IF stream.last = <<>> \/ stream.fold = <<>> THEN saves ELSE saves \cup {Result}
    BY <1>16 DEF Finish, NoStream
  <2>2. PICK p, e : ReadTo(stream, p, e) /\ NamesIn(p)
    BY <1>4, <2>1
  <2>3. stream.last # <<>> => MemoryInv(Result)
    BY <1>16, <2>2, ResultReads
  <2>4. \A memory \in saves' : MemoryInv(memory)
    BY <2>1, <2>3 DEF FoldInv
  <2>5. QED
    BY <1>5, <2>1, <2>4
<1>17. CASE Fail
  <2>1. UNCHANGED <<now, schedule, pending, rows, saves>> /\ stream' = NoStream
    BY <1>17 DEF Fail
  <2>2. QED
    BY <1>5, <2>1 DEF FoldInv
<1>18. QED
  BY <1>8, <1>9, <1>10, <1>11, <1>12, <1>13, <1>14, <1>15, <1>16, <1>17 DEF Next

\* A memory shows, in the order of their nonces, the process and each message up to
\* its time once, wherever the streams before it began, ended or failed, however
\* their pages were cut, and however often a message was pushed or assigned. The SU
\* gives different times, takes no message of an id that it scheduled before, and
\* saves a message before its time is over, a CU that takes over has the results,
\* results are saved, and names tell messages apart.
THEOREM AlwaysMessagesFolded ==
    ASSUME ~ Ties, ~ Reposted, ~ SlowSaves, ~ RowsFail, ~ OtherTables, ItemsNamed
    PROVE  Spec => []MessagesFolded
<1>1. TypeInv /\ FoldInv => MessagesFolded
  <2> SUFFICES ASSUME TypeInv, FoldInv, NEW memory \in saves
               PROVE  LET due == {i \in 0 .. Len(schedule) : /\ Slot(i).time <= memory.time
                                                             /\ ~ Repeats(i)
                                                             /\ Slot(i).item.id \notin Failing}
                          shown == {i \in DOMAIN memory.fold : ~ IsCron(memory.fold[i])}
                      IN  /\ {memory.fold[i].at : i \in shown} = due
                          /\ \A i, j \in shown : i < j => memory.fold[i].at < memory.fold[j].at
    BY DEF MessagesFolded
  <2> PICK k, t : k = memory.ordinate /\ t = memory.time
    OBVIOUS
  <2>1. /\ k \in 0 .. Len(schedule) /\ Slot(k).time <= t /\ t \in Nat
        /\ \A j \in k + 1 .. Len(schedule) : t < Slot(j).time
        /\ FoldIs(memory.fold, k)
    BY DEF FoldInv, MemoryInv, Placed, TypeInv, Memories
  <2>2. ASSUME NEW i \in 0 .. Len(schedule)
        PROVE  Slot(i).time <= t <=> i \in 0 .. k
    <3>1. Slot(i).time \in Nat /\ Slot(k).time \in Nat /\ Len(schedule) \in Nat
      BY <2>1, SlotTimes
    <3>2. CASE i \in 0 .. k
      <4>1. i = k \/ i < k
        BY <2>1, <3>2
      <4>2. Slot(i).time <= Slot(k).time
        BY <2>1, <3>1, <4>1 DEF FoldInv, ScheduleInv
      <4>3. QED
        BY <2>1, <3>1, <3>2, <4>2
    <3>3. CASE i \notin 0 .. k
      <4>1. i \in k + 1 .. Len(schedule)
        BY <2>1, <3>1, <3>3
      <4>2. QED
        BY <2>1, <3>1, <3>3, <4>1
    <3>4. QED
      BY <3>2, <3>3
  <2>3. \A i : i \in 0 .. k => i \in 0 .. Len(schedule)
    BY <2>1, SlotTimes
  <2>4. {i \in 0 .. Len(schedule) : /\ Slot(i).time <= t /\ ~ Repeats(i)
                                    /\ Slot(i).item.id \notin Failing} = Due(k)
    BY <2>2, <2>3 DEF Due
  <2>5. QED
    BY <2>1, <2>4 DEF FoldIs, ShownIn
<1>2. TypeInv /\ TypeInv' /\ FoldInv /\ [Next]_vars => FoldInv'
  BY FoldNext
<1>3. Spec => []FoldInv
  BY TypeHolds, FoldInit, <1>2, PTL DEF Spec
<1>4. QED
  BY TypeHolds, <1>1, <1>3, PTL

-----------------------------------------------------------------------------
(* Which crons a memory shows.                                             *)

\* No two crons share an instant, as there is one of time at most.
OneClock == \A i, j \in OfUnit("seconds") : i = j

\* The gateway tells the time of a block in seconds (ao-block.js:293).
BlocksOnSeconds == \A b \in Blocks : b.time % TicksPerSecond = 0

Clock == <<"seconds", 1>>

OnTime(cron) == cron # NoCron /\ cron[1] = "seconds"

OnBlock(cron) == cron # NoCron /\ cron[1] = "blocks"

\* A second that is an instant of the cron of time.
Ticking(second) ==
    \E i \in DOMAIN TimeBased : IsTimestampOnCron(second * TicksPerSecond, TimeBased[i])

Quiet(from, to) == \A second \in from .. to - 1 : ~ Ticking(second)

\* A place in a stream: what comes is not before the time, the instants before the
\* next second have come, and of a block at that time the crons up to the rank, or
\* all if it is 0.
Places == [time : Nat, next : Nat, rank : Nat]

PlaceOf(cron, time) ==
    [time |-> time,
     next |-> IF OnTime(cron) THEN Sec(time) + 1 ELSE Sec(time),
     rank |-> IF OnBlock(cron) THEN cron[2] ELSE 0]

\* From one place to another there is nothing to come.
Reaches(p, e) ==
    /\ p.time <= e.time
    /\ p.time < e.time \/ e.rank = 0 \/ (p.rank # 0 /\ p.rank <= e.rank)
    /\ p.next <= e.next
    /\ Quiet(p.next, e.next)

\* An instant that may come once more: a message shares its second, or the stream
\* knows that it has come.
Again(time, evaled) == Crowded(Sec(time)) \/ [cron |-> Clock, time |-> time] \in evaled

\* What has a time may come next.
Ready(p, time, evaled) ==
    /\ p.time <= time
    /\ p.next <= Sec(time) + 1
    /\ Quiet(p.next, Sec(time))
    /\ p.next <= Sec(time) \/ ~ Ticking(Sec(time)) \/ Again(time, evaled)

Follows(m, p, evaled) ==
    /\ Ready(p, m.time, evaled)
    /\ m.cron = NoCron => Crowded(Sec(m.time)) \/ ~ Ticking(Sec(m.time))
    /\ OnTime(m.cron) => m.cron = Clock /\ Ticking(Sec(m.time))
    /\ OnBlock(m.cron) =>
          /\ m.time % TicksPerSecond = 0
          /\ p.next <= Sec(m.time)
          /\ p.time < m.time \/ (p.rank # 0 /\ p.rank < m.cron[2])

After(m) == PlaceOf(m.cron, m.time)

\* A queue goes from a place to another.
Line(q, p, e, evaled) ==
    /\ q = <<>> => Reaches(p, e)
    /\ q # <<>> =>
          /\ Follows(q[1], p, evaled)
          /\ \A i \in 1 .. Len(q) : i > 1 => Follows(q[i], After(q[i - 1]), evaled)
          /\ Reaches(After(q[Len(q)]), e)

\* A cron that has come before a place.
Behind(x, p) ==
    x.cron # NoCron =>
        /\ x.at <= p.time
        /\ OnTime(x.cron) =>
              x.cron = Clock /\ Ticking(Sec(x.at)) /\ (Sec(x.at) < p.next \/ Crowded(Sec(x.at)))
        /\ OnBlock(x.cron) =>
              /\ x.at % TicksPerSecond = 0
              /\ x.at < p.time \/ p.rank = 0 \/ x.cron[2] <= p.rank

\* Two crons in the order in which they have come.
InTurn(x, y) ==
    x.cron # NoCron /\ y.cron # NoCron =>
        /\ x.at <= y.at
        /\ OnTime(x.cron) /\ OnTime(y.cron) => Sec(x.at) < Sec(y.at) \/ Crowded(Sec(x.at))
        /\ OnBlock(x.cron) /\ x.cron = y.cron => x.at < y.at

Shows(fold, cron, time) == \E i \in DOMAIN fold : fold[i].cron = cron /\ fold[i].at = time

\* A memory shows the crons up to a place.
CronsTo(fold, p) ==
    /\ \A i \in DOMAIN fold : Behind(fold[i], p)
    /\ \A i, j \in DOMAIN fold : i < j => InTurn(fold[i], fold[j])
    /\ \A second \in Sec(Origin.time) .. p.next - 1 :
          Ticking(second) => \E i \in DOMAIN fold : OnTime(fold[i].cron) /\ Sec(fold[i].at) = second

\* A memory, or the message it was left at.
ShowsUpTo(fold, m) ==
    /\ CronsTo(fold, After(m))
    /\ m.cron # NoCron => Shows(fold, m.cron, m.time)

\* The next page begins where the last one ended.
NextPageAt(s, e) ==
    s.step = "fetch" =>
        /\ s.query.from = IF s.query.from = None THEN None ELSE s.prev.time
        /\ s.query.from = None => s.prev.time = Origin.time
        /\ Ready(e, s.prev.time, s.evaled)

\* A stream has folded the crons up to p, and has those up to e in its queue.
PassedTo(s, p, e) ==
    /\ CronsTo(s.fold, p)
    /\ Line(s.queue, p, e, s.evaled)
    /\ \A key \in s.evaled : Shows(s.fold, key.cron, key.time)
    /\ s.last # <<>> => ShowsUpTo(s.fold, s.last[1])
    /\ NextPageAt(s, e)

\* The times of the messages are not before the process.
SinceOrigin == \A i \in 1 .. Len(schedule) : Origin.time <= schedule[i].time

CronInv ==
    /\ SinceOrigin
    /\ pending # <<>> => Origin.time <= pending[1].time
    /\ \A memory \in saves : ShowsUpTo(memory.fold, memory)
    /\ stream # NoStream => \E p, e \in Places : PassedTo(stream, p, e)

-----------------------------------------------------------------------------
(* Places.                                                                 *)

LEMMA SecIs ==
    ASSUME NEW t \in Int
    PROVE  /\ Sec(t) \in Int
           /\ Sec(t) * TicksPerSecond <= t
           /\ t < (Sec(t) + 1) * TicksPerSecond
<1> PICK T : T = TicksPerSecond
  OBVIOUS
<1>1. T \in Nat \ {0}
  BY MessagesAssumption
<1> PICK s : s = t \div T
  OBVIOUS
<1>2. s \in Int /\ s * T <= t /\ t < s * T + T
  BY <1>1
<1>3. (s + 1) * T = s * T + T
  BY <1>1, <1>2
<1>4. QED
  BY <1>2, <1>3 DEF Sec

\* A second is that of a time between its first tick and that of the next one.
LEMMA SecOf ==
    ASSUME NEW t \in Int, NEW s \in Int,
           s * TicksPerSecond <= t, t < (s + 1) * TicksPerSecond
    PROVE  Sec(t) = s
<1> PICK T, r : T = TicksPerSecond /\ r = Sec(t)
  OBVIOUS
<1>1. T \in Nat \ {0} /\ T \in Int /\ T > 0
  BY MessagesAssumption
<1>2. r \in Int /\ r * T <= t /\ t < (r + 1) * T
  BY SecIs
<1>3. \A a, b \in Int : a < b => (a + 1) * T <= b * T
  <2>1. ASSUME NEW a \in Int, NEW b \in Int, a < b PROVE (a + 1) * T <= b * T
    <3> PICK d : d = b - (a + 1)
      OBVIOUS
    <3>1. d \in Nat /\ b = (a + 1) + d
      BY <2>1
    <3>2. d * T \in Nat
      BY <1>1, <3>1
    <3>3. b * T = (a + 1) * T + d * T
      BY <1>1, <3>1
    <3>4. (a + 1) * T \in Int
      BY <1>1
    <3>5. QED
      BY <3>2, <3>3, <3>4
  <2>2. QED
    BY <2>1
<1>4. /\ s * T \in Int /\ r * T \in Int /\ (s + 1) * T \in Int /\ (r + 1) * T \in Int
      /\ s * T <= t /\ t < (s + 1) * T
  BY <1>1, <1>2
<1>5. ~ (r < s)
  <2>1. r < s => (r + 1) * T <= s * T
    BY <1>2, <1>3
  <2>2. QED
    BY <1>2, <1>4, <2>1
<1>6. ~ (s < r)
  <2>1. s < r => (s + 1) * T <= r * T
    BY <1>2, <1>3
  <2>2. QED
    BY <1>2, <1>4, <2>1
<1>7. QED
  BY <1>2, <1>5, <1>6

\* Each tick of a second further.
LEMMA SecSteps ==
    ASSUME NEW t \in Int, NEW k \in Int
    PROVE  Sec(t + k * TicksPerSecond) = Sec(t) + k
<1> PICK T, s : T = TicksPerSecond /\ s = Sec(t)
  OBVIOUS
<1>1. T \in Nat \ {0}
  BY MessagesAssumption
<1>2. s \in Int /\ s * T <= t /\ t < (s + 1) * T
  BY SecIs
<1>3. k * T \in Int /\ s * T \in Int /\ (s + 1) * T \in Int
  BY <1>1, <1>2
<1>4. (s + k) * T = s * T + k * T /\ ((s + k) + 1) * T = (s + 1) * T + k * T
  BY <1>1, <1>2
<1>5. t + k * T \in Int /\ (s + k) * T <= t + k * T /\ t + k * T < ((s + k) + 1) * T
  BY <1>2, <1>3, <1>4
<1>6. s + k \in Int
  BY <1>2
<1>7. QED
  BY <1>5, <1>6, SecOf

\* Times of whole seconds are as far from each other as their seconds.
LEMMA WholeSeconds ==
    ASSUME NEW s \in Nat, NEW t \in Nat, t % TicksPerSecond = 0, s < t
    PROVE  Sec(s) < Sec(t)
<1> PICK T, a, b : T = TicksPerSecond /\ a = Sec(s) /\ b = Sec(t)
  OBVIOUS
<1>1. T \in Nat \ {0}
  BY MessagesAssumption
<1>2. a \in Int /\ a * T <= s /\ b \in Int
  BY SecIs
<1>3. b * T = t
  BY <1>1 DEF Sec
<1>4. ~ (b <= a)
  <2>1. ASSUME b <= a PROVE FALSE
    <3> PICK d : d = a - b
      OBVIOUS
    <3>1. d \in Nat /\ a = b + d
      BY <1>2, <2>1
    <3>2. d * T \in Nat /\ a * T = b * T + d * T
      BY <1>1, <1>2, <3>1
    <3>3. QED
      BY <1>2, <1>3, <3>2
  <2>2. QED
    BY <2>1
<1>5. QED
  BY <1>2, <1>4

LEMMA SecNat == ASSUME NEW t \in Nat PROVE Sec(t) \in Nat
BY MessagesAssumption DEF Sec

LEMMA QuietJoins ==
    ASSUME NEW a \in Int, NEW b \in Int, NEW c \in Int, Quiet(a, b), Quiet(b, c)
    PROVE  Quiet(a, c)
<1>1. ASSUME NEW s \in a .. c - 1 PROVE ~ Ticking(s)
  <2>1. CASE s \in a .. b - 1
    BY <2>1 DEF Quiet
  <2>2. CASE s \in b .. c - 1
    BY <2>2 DEF Quiet
  <2>3. s \in a .. b - 1 \/ s \in b .. c - 1
    OBVIOUS
  <2>4. QED
    BY <2>1, <2>2, <2>3
<1>2. QED
  BY <1>1 DEF Quiet

LEMMA QuietNone == ASSUME NEW a \in Int, NEW b \in Int, b <= a PROVE Quiet(a, b)
BY DEF Quiet

LEMMA QuietPart ==
    ASSUME NEW a \in Int, NEW b \in Int, NEW c \in Int, NEW d \in Int,
           Quiet(a, d), a <= b, c <= d
    PROVE  Quiet(b, c)
<1>1. \A s \in b .. c - 1 : s \in a .. d - 1
  OBVIOUS
<1>2. QED
  BY <1>1 DEF Quiet

LEMMA ReachesSelf == ASSUME NEW p \in Places PROVE Reaches(p, p)
<1>1. p.time \in Nat /\ p.next \in Nat /\ p.rank \in Nat
  BY DEF Places
<1>2. Quiet(p.next, p.next)
  BY <1>1, QuietNone
<1>3. QED
  BY <1>1, <1>2 DEF Reaches

LEMMA ReachesOn ==
    ASSUME NEW p \in Places, NEW m \in Places, NEW e \in Places, Reaches(p, m), Reaches(m, e)
    PROVE  Reaches(p, e)
<1>1. /\ p.time \in Nat /\ p.next \in Nat /\ p.rank \in Nat
      /\ m.time \in Nat /\ m.next \in Nat /\ m.rank \in Nat
      /\ e.time \in Nat /\ e.next \in Nat /\ e.rank \in Nat
  BY DEF Places
<1>2. /\ p.time <= m.time /\ p.next <= m.next /\ m.time <= e.time /\ m.next <= e.next
      /\ p.time < m.time \/ m.rank = 0 \/ (p.rank # 0 /\ p.rank <= m.rank)
      /\ m.time < e.time \/ e.rank = 0 \/ (m.rank # 0 /\ m.rank <= e.rank)
      /\ Quiet(p.next, m.next) /\ Quiet(m.next, e.next)
  BY DEF Reaches
<1>3. Quiet(p.next, e.next)
  BY <1>1, <1>2, QuietJoins
<1>4. p.time <= e.time /\ p.next <= e.next
  BY <1>1, <1>2
<1>5. p.time < e.time \/ e.rank = 0 \/ (p.rank # 0 /\ p.rank <= e.rank)
  BY <1>1, <1>2
<1>6. QED
  BY <1>3, <1>4, <1>5 DEF Reaches

\* What comes at a place comes at those that reach it.
LEMMA ReadyBefore ==
    ASSUME NEW p \in Places, NEW e \in Places, Reaches(p, e), NEW time \in Nat, NEW evaled,
           Ready(e, time, evaled)
    PROVE  Ready(p, time, evaled)
<1>1. /\ p.time \in Nat /\ p.next \in Nat /\ e.time \in Nat /\ e.next \in Nat
      /\ Sec(time) \in Nat
  BY SecNat DEF Places
<1>2. /\ p.time <= e.time /\ p.next <= e.next /\ Quiet(p.next, e.next)
      /\ e.time <= time /\ e.next <= Sec(time) + 1 /\ Quiet(e.next, Sec(time))
      /\ e.next <= Sec(time) \/ ~ Ticking(Sec(time)) \/ Again(time, evaled)
  BY DEF Reaches, Ready
<1>3. p.time <= time /\ p.next <= Sec(time) + 1
  BY <1>1, <1>2
<1>4. Quiet(p.next, Sec(time))
  BY <1>1, <1>2, QuietJoins
<1>5. p.next <= Sec(time) \/ ~ Ticking(Sec(time)) \/ Again(time, evaled)
  BY <1>1, <1>2
<1>6. QED
  BY <1>3, <1>4, <1>5 DEF Ready

LEMMA FollowsBefore ==
    ASSUME NEW p \in Places, NEW e \in Places, Reaches(p, e), NEW m \in Entries, NEW evaled,
           Follows(m, e, evaled)
    PROVE  Follows(m, p, evaled)
<1>1. m.time \in Nat /\ (OnBlock(m.cron) => m.cron[2] \in Nat)
  BY DEF Entries, Messages, Instants, OnBlock
<1>2. Ready(p, m.time, evaled)
  BY <1>1, ReadyBefore DEF Follows
<1>3. ASSUME OnBlock(m.cron)
      PROVE  p.next <= Sec(m.time) /\ (p.time < m.time \/ (p.rank # 0 /\ p.rank < m.cron[2]))
  <2>1. /\ p.time \in Nat /\ p.next \in Nat /\ p.rank \in Nat
        /\ e.time \in Nat /\ e.next \in Nat /\ e.rank \in Nat
        /\ Sec(m.time) \in Nat /\ m.cron[2] \in Nat
    BY <1>1, <1>3, SecNat DEF Places
  <2>2. /\ p.time <= e.time /\ e.time <= m.time
        /\ p.time < e.time \/ e.rank = 0 \/ (p.rank # 0 /\ p.rank <= e.rank)
        /\ e.time < m.time \/ (e.rank # 0 /\ e.rank < m.cron[2])
        /\ p.next <= e.next /\ e.next <= Sec(m.time)
    BY <1>3 DEF Reaches, Follows, Ready
  <2>3. p.next <= Sec(m.time)
    BY <2>1, <2>2
  <2>4. p.time < m.time \/ (p.rank # 0 /\ p.rank < m.cron[2])
    BY <1>1, <2>1, <2>2
  <2>5. QED
    BY <2>3, <2>4
<1>4. QED
  BY <1>2, <1>3 DEF Follows

LEMMA AfterIs ==
    ASSUME NEW m \in Entries
    PROVE  /\ After(m) \in Places /\ m.time \in Nat
           /\ m.cron = NoCron \/ m.cron \in CronNames
           /\ OnBlock(m.cron) => m.cron[2] \in Nat
<1>1. m.time \in Nat /\ (m.cron = NoCron \/ m.cron \in CronNames)
  BY DEF Entries, Messages, Instants, CronNames
<1>2. OnBlock(m.cron) => m.cron[2] \in Nat
  BY <1>1 DEF OnBlock, CronNames
<1>3. Sec(m.time) \in Nat /\ Sec(m.time) + 1 \in Nat
  BY <1>1, SecNat
<1>4. QED
  BY <1>1, <1>2, <1>3 DEF After, PlaceOf, Places

LEMMA LineFrom ==
    ASSUME NEW q \in Seq(Entries), NEW p \in Places, NEW m \in Places, NEW e \in Places,
           NEW evaled, Reaches(p, m), Line(q, m, e, evaled)
    PROVE  Line(q, p, e, evaled)
<1>1. CASE q = <<>>
  <2>1. Reaches(m, e)
    BY <1>1 DEF Line
  <2>2. Reaches(p, e)
    BY <2>1, ReachesOn
  <2>3. QED
    BY <1>1, <2>2 DEF Line
<1>2. CASE q # <<>>
  <2>1. q[1] \in Entries
    BY <1>2
  <2>2. Follows(q[1], m, evaled)
    BY <1>2 DEF Line
  <2>3. Follows(q[1], p, evaled)
    BY <2>1, <2>2, FollowsBefore
  <2>4. QED
    BY <1>2, <2>3 DEF Line
<1>3. QED
  BY <1>1, <1>2

LEMMA LineTo ==
    ASSUME NEW q \in Seq(Entries), NEW p \in Places, NEW m \in Places, NEW e \in Places,
           NEW evaled, Line(q, p, m, evaled), Reaches(m, e)
    PROVE  Line(q, p, e, evaled)
<1>1. CASE q = <<>>
  <2>1. Reaches(p, m)
    BY <1>1 DEF Line
  <2>2. Reaches(p, e)
    BY <2>1, ReachesOn
  <2>3. QED
    BY <1>1, <2>2 DEF Line
<1>2. CASE q # <<>>
  <2>1. q[Len(q)] \in Entries
    BY <1>2
  <2>2. Reaches(After(q[Len(q)]), m)
    BY <1>2 DEF Line
  <2>3. Reaches(After(q[Len(q)]), e)
    BY <2>1, <2>2, AfterIs, ReachesOn
  <2>4. QED
    BY <1>2, <2>3 DEF Line
<1>3. QED
  BY <1>1, <1>2

LEMMA LineConcat ==
    ASSUME NEW a \in Seq(Entries), NEW b \in Seq(Entries),
           NEW p \in Places, NEW m \in Places, NEW e \in Places, NEW evaled,
           Line(a, p, m, evaled), Line(b, m, e, evaled)
    PROVE  Line(a \o b, p, e, evaled)
<1>1. CASE a = <<>>
  <2>1. a \o b = b
    BY <1>1
  <2>2. Reaches(p, m)
    BY <1>1 DEF Line
  <2>3. QED
    BY <2>1, <2>2, LineFrom
<1>2. CASE b = <<>>
  <2>1. a \o b = a
    BY <1>2
  <2>2. Reaches(m, e)
    BY <1>2 DEF Line
  <2>3. QED
    BY <2>1, <2>2, LineTo
<1>3. CASE a # <<>> /\ b # <<>>
  <2> PICK q, k, l : q = a \o b /\ k = Len(a) /\ l = Len(b)
    OBVIOUS
  <2>1. /\ k \in Nat /\ l \in Nat /\ 1 <= k /\ 1 <= l /\ Len(q) = k + l /\ q # <<>>
        /\ \A i \in 1 .. k : q[i] = a[i]
        /\ \A i \in 1 .. l : q[k + i] = b[i]
    BY <1>3
  <2>2. 1 \in 1 .. k /\ k \in 1 .. k /\ 1 \in 1 .. l /\ l \in 1 .. l
    BY <2>1
  <2>3. a[k] \in Entries /\ b[1] \in Entries
    BY <2>2
  <2>4. /\ Follows(a[1], p, evaled) /\ Reaches(After(a[k]), m)
        /\ \A i \in 1 .. k : i > 1 => Follows(a[i], After(a[i - 1]), evaled)
    BY <1>3 DEF Line
  <2>5. /\ Follows(b[1], m, evaled) /\ Reaches(After(b[l]), e)
        /\ \A i \in 1 .. l : i > 1 => Follows(b[i], After(b[i - 1]), evaled)
    BY <1>3 DEF Line
  <2>6. Follows(b[1], After(a[k]), evaled)
    <3>1. After(a[k]) \in Places
      BY <2>3, AfterIs
    <3>2. QED
      BY <2>3, <2>4, <2>5, <3>1, FollowsBefore
  <2>7. ASSUME NEW i \in 1 .. Len(q), i > 1 PROVE Follows(q[i], After(q[i - 1]), evaled)
    <3>1. CASE i \in 1 .. k
      <4>1. i - 1 \in 1 .. k
        BY <2>1, <2>7, <3>1
      <4>2. q[i] = a[i] /\ q[i - 1] = a[i - 1]
        BY <2>1, <3>1, <4>1
      <4>3. QED
        BY <2>4, <2>7, <3>1, <4>2
    <3>2. CASE i = k + 1
      <4>1. q[i] = b[1] /\ q[i - 1] = a[k]
        BY <2>1, <2>2, <3>2
      <4>2. QED
        BY <2>6, <4>1
    <3>3. CASE i > k + 1
      <4> PICK j : j = i - k
        OBVIOUS
      <4>1. j \in 1 .. l /\ j > 1 /\ j - 1 \in 1 .. l /\ k + j = i /\ k + (j - 1) = i - 1
        BY <2>1, <3>3
      <4>2. q[i] = b[j] /\ q[i - 1] = b[j - 1]
        BY <2>1, <4>1
      <4>3. QED
        BY <2>5, <4>1, <4>2
    <3>4. i \in 1 .. k \/ i = k + 1 \/ i > k + 1
      BY <2>1
    <3>5. QED
      BY <3>1, <3>2, <3>3, <3>4
  <2>8. q[1] = a[1] /\ q[Len(q)] = b[l]
    BY <2>1, <2>2
  <2>9. QED
    BY <2>1, <2>4, <2>5, <2>7, <2>8 DEF Line
<1>4. QED
  BY <1>1, <1>2, <1>3

LEMMA LineTail ==
    ASSUME NEW q \in Seq(Entries), q # <<>>, NEW p \in Places, NEW e \in Places, NEW evaled,
           Line(q, p, e, evaled)
    PROVE  /\ Follows(Head(q), p, evaled)
           /\ Line(Tail(q), After(Head(q)), e, evaled)
<1> PICK t : t = Tail(q)
  OBVIOUS
<1>1. /\ Head(q) = q[1] /\ t \in Seq(Entries) /\ Len(q) \in Nat /\ 1 <= Len(q)
      /\ Len(t) = Len(q) - 1 /\ \A i \in 1 .. Len(t) : t[i] = q[i + 1]
  OBVIOUS
<1>2. /\ Follows(q[1], p, evaled)
      /\ \A i \in 1 .. Len(q) : i > 1 => Follows(q[i], After(q[i - 1]), evaled)
      /\ Reaches(After(q[Len(q)]), e)
  BY DEF Line
<1>3. t = <<>> => Len(q) = 1
  <2>1. t = <<>> => Len(t) = 0
    OBVIOUS
  <2>2. QED
    BY <1>1, <2>1
<1>4. ASSUME t # <<>>
      PROVE  /\ Follows(t[1], After(q[1]), evaled)
             /\ \A i \in 1 .. Len(t) : i > 1 => Follows(t[i], After(t[i - 1]), evaled)
             /\ t[Len(t)] = q[Len(q)]
  <2>1. Len(t) \in Nat /\ 1 <= Len(t)
    BY <1>1, <1>4
  <2>2. 1 \in 1 .. Len(t) /\ 2 \in 1 .. Len(q) /\ Len(t) \in 1 .. Len(t) /\ Len(t) + 1 = Len(q)
    BY <1>1, <2>1
  <2>3. t[1] = q[2] /\ t[Len(t)] = q[Len(q)]
    <3>1. t[1] = q[1 + 1] /\ t[Len(t)] = q[Len(t) + 1]
      BY <1>1, <2>2
    <3>2. QED
      BY <2>2, <3>1
  <2>4. Follows(q[2], After(q[1]), evaled)
    <3>1. 2 > 1 /\ 2 - 1 = 1
      OBVIOUS
    <3>2. Follows(q[2], After(q[2 - 1]), evaled)
      BY <1>2, <2>2, <3>1
    <3>3. QED
      BY <3>1, <3>2
  <2>5. ASSUME NEW i \in 1 .. Len(t), i > 1 PROVE Follows(t[i], After(t[i - 1]), evaled)
    <3>1. i - 1 \in 1 .. Len(t) /\ i + 1 \in 1 .. Len(q) /\ i + 1 > 1 /\ (i + 1) - 1 = i
      BY <1>1, <2>1, <2>5
    <3>2. t[i] = q[i + 1] /\ t[i - 1] = q[i]
      <4>1. (i - 1) + 1 = i
        BY <2>1
      <4>2. QED
        BY <1>1, <3>1, <4>1
    <3>3. Follows(q[i + 1], After(q[(i + 1) - 1]), evaled)
      BY <1>2, <3>1
    <3>4. QED
      BY <3>1, <3>2, <3>3
  <2>6. QED
    BY <2>3, <2>4, <2>5
<1>5. Line(t, After(q[1]), e, evaled)
  BY <1>2, <1>3, <1>4 DEF Line
<1>6. QED
  BY <1>1, <1>2, <1>5

\* Queues that follow each other, each from one place of g to the next.
LEMMA FlattenLine ==
    ASSUME NEW ss \in Seq(Seq(Entries)), NEW g \in [0 .. Len(ss) -> Places], NEW evaled,
           \A i \in 1 .. Len(ss) : Line(ss[i], g[i - 1], g[i], evaled)
    PROVE  Line(FlattenSeq(ss), g[0], g[Len(ss)], evaled)
<1> PICK n : n = Len(ss)
  OBVIOUS
<1>0. n \in Nat /\ \A i \in 0 .. n : g[i] \in Places
  OBVIOUS
<1>1. CASE ss = <<>>
  <2>1. FlattenSeq(ss) = <<>>
    BY <1>1 DEF FlattenSeq
  <2>2. n = 0 /\ 0 \in 0 .. n
    BY <1>1
  <2>3. Reaches(g[0], g[0])
    BY <1>0, <2>2, ReachesSelf
  <2>4. QED
    BY <2>1, <2>2, <2>3 DEF Line
<1>2. CASE ss # <<>>
  <2>1. PICK f \in [1 .. Len(ss) -> Seq(Entries)] : Flat(f, ss) /\ f[Len(ss)] = FlattenSeq(ss)
    BY <1>2, FlattenIs
  <2>2. 1 <= n /\ n \in 1 .. n /\ \A i \in 1 .. n : ss[i] \in Seq(Entries) /\ f[i] \in Seq(Entries)
    <3>1. 1 <= n /\ \A i \in 1 .. n : ss[i] \in Seq(Entries)
      BY <1>2
    <3>2. \A i \in 1 .. n : f[i] \in Seq(Entries)
      BY Zenon
    <3>3. QED
      BY <1>0, <3>1, <3>2
  <2> PICK bad : bad = {i \in 1 .. n : ~ Line(f[i], g[0], g[i], evaled)}
    OBVIOUS
  <2>3. ASSUME bad # {} PROVE FALSE
    <3>1. PICK j \in bad : \A k \in bad : j <= k
      <4>1. bad \in SUBSET Nat
        BY <1>0
      <4>2. QED
        BY <2>3, <4>1, LeastNumber, Zenon
    <3>2. CASE j = 1
      <4>1. f[1] = ss[1] /\ 1 \in 1 .. Len(ss) /\ 1 - 1 = 0
        BY <1>0, <2>1, <2>2 DEF Flat
      <4>2. Line(ss[1], g[1 - 1], g[1], evaled)
        BY <4>1
      <4>3. QED
        BY <3>2, <4>1, <4>2
    <3>3. CASE j # 1
      <4>1. j \in 1 .. n /\ j > 1 /\ j - 1 \in 1 .. n /\ j - 1 \notin bad
        <5>1. j \in 1 .. n /\ j \in Nat
          BY <1>0
        <5>2. j > 1 /\ j - 1 \in 1 .. n /\ ~ (j <= j - 1)
          BY <1>0, <3>3, <5>1
        <5>3. QED
          BY <3>1, <5>1, <5>2
      <4>2. f[j] = f[j - 1] \o ss[j]
        BY <2>1, <4>1 DEF Flat
      <4>3. Line(f[j - 1], g[0], g[j - 1], evaled)
        BY <4>1
      <4>4. Line(ss[j], g[j - 1], g[j], evaled)
        BY <4>1
      <4>5. /\ f[j - 1] \in Seq(Entries) /\ ss[j] \in Seq(Entries)
            /\ g[0] \in Places /\ g[j - 1] \in Places /\ g[j] \in Places
        <5>1. 0 \in 0 .. n /\ j - 1 \in 0 .. n /\ j \in 0 .. n
          BY <1>0, <4>1
        <5>2. QED
          BY <1>0, <2>2, <4>1, <5>1
      <4>6. Line(f[j], g[0], g[j], evaled)
        BY <4>2, <4>3, <4>4, <4>5, LineConcat
      <4>7. QED
        BY <4>1, <4>6
    <3>4. QED
      BY <3>2, <3>3
  <2>4. n \notin bad
    BY <2>3
  <2>5. QED
    BY <2>1, <2>2, <2>4
<1>3. QED
  BY <1>1, <1>2

-----------------------------------------------------------------------------
(* What is kept while messages are scheduled and a stream goes on.         *)

LEMMA LineGrows ==
    ASSUME NEW q, NEW p, NEW e, NEW evaled, NEW more, evaled \subseteq more,
           Line(q, p, e, evaled)
    PROVE  Line(q, p, e, more)
<1>1. ASSUME NEW m, NEW x, Follows(m, x, evaled) PROVE Follows(m, x, more)
  BY <1>1 DEF Follows, Ready, Again
<1>2. QED
  BY <1>1 DEF Line

CrowdedGrows == \A second : Crowded(second) => Crowded(second)'

LEMMA LineStays ==
    ASSUME CrowdedGrows, NEW q, NEW p, NEW e, NEW evaled, Line(q, p, e, evaled)
    PROVE  Line(q, p, e, evaled)'
<1>1. ASSUME NEW m, NEW x, Follows(m, x, evaled) PROVE Follows(m, x, evaled)'
  BY <1>1 DEF Follows, Ready, Again, CrowdedGrows
<1>2. QED
  BY <1>1 DEF Line

LEMMA CronsStay ==
    ASSUME CrowdedGrows, NEW fold, NEW p, CronsTo(fold, p)
    PROVE  CronsTo(fold, p)'
<1>1. \A i \in DOMAIN fold : Behind(fold[i], p)'
  BY DEF CronsTo, Behind, CrowdedGrows
<1>2. \A i, j \in DOMAIN fold : i < j => InTurn(fold[i], fold[j])'
  BY DEF CronsTo, InTurn, CrowdedGrows
<1>3. QED
  BY <1>1, <1>2 DEF CronsTo

LEMMA ShownStays ==
    ASSUME CrowdedGrows, NEW fold, NEW m, ShowsUpTo(fold, m)
    PROVE  ShowsUpTo(fold, m)'
BY CronsStay DEF ShowsUpTo

LEMMA PassedStays ==
    ASSUME CrowdedGrows, NEW s, NEW p, NEW e, PassedTo(s, p, e)
    PROVE  PassedTo(s, p, e)'
<1>1. CronsTo(s.fold, p)' /\ Line(s.queue, p, e, s.evaled)'
  BY CronsStay, LineStays DEF PassedTo
<1>2. s.last # <<>> => ShowsUpTo(s.fold, s.last[1])'
  BY ShownStays DEF PassedTo
<1>3. NextPageAt(s, e)'
  BY DEF PassedTo, NextPageAt, Ready, Again, CrowdedGrows
<1>4. QED
  BY <1>1, <1>2, <1>3 DEF PassedTo

-----------------------------------------------------------------------------
(* The crons between two messages go from a place to another.              *)

LEMMA UnitCount ==
    ASSUME NEW unit
    PROVE  Cardinality(OfUnit(unit)) \in Nat /\ IsFiniteSet(OfUnit(unit))
<1>1. DOMAIN Crons = 1 .. Len(Crons) /\ Len(Crons) \in Nat
  BY MessagesAssumption
<1>2. IsFiniteSet(1 .. Len(Crons))
  BY <1>1, FS_Interval
<1>3. OfUnit(unit) \subseteq 1 .. Len(Crons)
  BY <1>1 DEF OfUnit
<1>4. QED
  BY <1>2, <1>3, FS_Subset, FS_CardinalityType

LEMMA BlockBasedIs ==
    \E n \in Nat : DOMAIN BlockBased = 1 .. n /\ \A i \in 1 .. n : BlockBased[i].name = <<"blocks", i>>
<1>1. PICK order : /\ order = InOrder(OfUnit("blocks"), LAMBDA i, j : i < j)
                   /\ BlockBased = Named("blocks", order)
  BY DEF BlockBased
<1>2. DOMAIN order = 1 .. Cardinality(OfUnit("blocks"))
  BY <1>1 DEF InOrder
<1>3. QED
  BY <1>1, <1>2, UnitCount DEF Named

LEMMA TimeBasedIs ==
    ASSUME OneClock
    PROVE  \E n \in {0, 1} : DOMAIN TimeBased = 1 .. n /\ \A i \in 1 .. n : TimeBased[i].name = Clock
<1>1. PICK order : /\ order = InOrder(OfUnit("seconds"),
                               LAMBDA i, j : \/ Crons[i].value < Crons[j].value
                                             \/ Crons[i].value = Crons[j].value /\ i < j)
                   /\ TimeBased = Named("seconds", order)
  BY DEF TimeBased
<1> PICK S, n : S = OfUnit("seconds") /\ n = Cardinality(S)
  OBVIOUS
<1>2. DOMAIN order = 1 .. n
  BY <1>1 DEF InOrder
<1>3. n \in {0, 1}
  <2>1. CASE S = {}
    BY <2>1, FS_EmptySet
  <2>2. CASE S # {}
    <3>1. PICK x : x \in S
      BY <2>2
    <3>2. S = {x}
      BY <3>1 DEF OneClock
    <3>3. QED
      BY <3>2, FS_Singleton
  <2>3. QED
    BY <2>1, <2>2
<1>4. \A i \in 1 .. n : i = 1
  BY <1>3
<1>5. DOMAIN TimeBased = 1 .. n /\ \A i \in 1 .. n : TimeBased[i].name = <<"seconds", i>>
  BY <1>1, <1>2 DEF Named
<1>6. QED
  BY <1>3, <1>4, <1>5 DEF Clock

\* The cron of time depends on the second.
LEMMA TickingIs ==
    ASSUME NEW time \in Nat
    PROVE  Ticking(Sec(time)) <=> \E i \in DOMAIN TimeBased : IsTimestampOnCron(time, TimeBased[i])
<1> PICK s : s = Sec(time)
  OBVIOUS
<1>1. s \in Nat /\ s * TicksPerSecond \in Int
  BY SecNat, MessagesAssumption
<1>2. Sec(s * TicksPerSecond) = s
  <2> PICK T : T = TicksPerSecond
    OBVIOUS
  <2>1. T \in Nat \ {0}
    BY MessagesAssumption
  <2>2. s * T < (s + 1) * T
    <3>1. (s + 1) * T = s * T + T
      BY <1>1, <2>1
    <3>2. QED
      BY <1>1, <2>1, <3>1
  <2>3. s * T <= s * T
    BY <1>1
  <2>4. QED
    BY <1>1, <2>2, <2>3, SecOf
<1>3. ASSUME NEW cron
      PROVE  IsTimestampOnCron(time, cron) <=> IsTimestampOnCron(s * TicksPerSecond, cron)
  BY <1>2 DEF IsTimestampOnCron
<1>4. QED
  BY <1>3 DEF Ticking

\* A cron, or none.
LEMMA OneOrNone ==
    ASSUME NEW m \in Entries, NEW on \in BOOLEAN, NEW p \in Places, NEW e \in Places, NEW evaled,
           on => Follows(m, p, evaled) /\ Reaches(After(m), e),
           ~ on => Reaches(p, e)
    PROVE  LET q == IF on THEN <<m>> ELSE <<>>
           IN  q \in Seq(Entries) /\ Line(q, p, e, evaled)
<1>1. CASE on
  <2>1. <<m>> \in Seq(Entries) /\ Len(<<m>>) = 1 /\ <<m>>[1] = m /\ <<m>> # <<>>
    OBVIOUS
  <2>2. \A i \in 1 .. 1 : ~ (i > 1)
    OBVIOUS
  <2>3. Line(<<m>>, p, e, evaled)
    BY <1>1, <2>1, <2>2 DEF Line
  <2>4. QED
    BY <1>1, <2>1, <2>3
<1>2. CASE ~ on
  <2>1. Line(<<>>, p, e, evaled)
    BY <1>2 DEF Line
  <2>2. QED
    BY <1>2, <2>1
<1>3. QED
  BY <1>1, <1>2

\* After an instant.
Stepped(time) == [time |-> time, next |-> Sec(time) + 1, rank |-> 0]

LEMMA TimeLine ==
    ASSUME OneClock, NEW p \in Places, NEW time \in Nat, NEW ordinate \in Nat, NEW height \in Nat,
           NEW evaled, Ready(p, time, evaled)
    PROVE  /\ OfTime(time, ordinate, height) \in Seq(Entries)
           /\ Line(OfTime(time, ordinate, height), p, Stepped(time), evaled)
<1> PICK s, e : s = Sec(time) /\ e = Stepped(time)
  OBVIOUS
<1>1. s \in Nat /\ e = [time |-> time, next |-> s + 1, rank |-> 0] /\ e \in Places
  BY SecNat DEF Stepped, Places
<1>2. /\ p.time \in Nat /\ p.next \in Nat /\ p.rank \in Nat
      /\ p.time <= time /\ p.next <= s + 1 /\ Quiet(p.next, s)
  BY DEF Ready, Places
<1>3. ~ Ticking(s) => Reaches(p, e)
  <2>1. ~ Ticking(s) => Quiet(s, s + 1)
    BY <1>1 DEF Quiet
  <2>2. ~ Ticking(s) => Quiet(p.next, s + 1)
    BY <1>1, <1>2, <2>1, QuietJoins
  <2>3. QED
    BY <1>1, <1>2, <2>2 DEF Reaches
<1>4. PICK n \in {0, 1} : DOMAIN TimeBased = 1 .. n /\ \A i \in 1 .. n : TimeBased[i].name = Clock
  BY TimeBasedIs
<1> PICK on : on = \E i \in DOMAIN TimeBased : IsTimestampOnCron(time, TimeBased[i])
  OBVIOUS
<1>5. on = Ticking(s) /\ on \in BOOLEAN
  <2>1. Ticking(s) <=> \E i \in DOMAIN TimeBased : IsTimestampOnCron(time, TimeBased[i])
    BY TickingIs
  <2>2. Ticking(s) \in BOOLEAN
    BY DEF Ticking
  <2>3. QED
    BY <2>1, <2>2
<1>6. CASE n = 0
  <2>1. DOMAIN TimeBased = {}
    BY <1>4, <1>6
  <2>2. OfTime(time, ordinate, height) = FlattenSeq(<<>>)
    <3>1. [i \in DOMAIN TimeBased |->
             IF IsTimestampOnCron(time, TimeBased[i])
             THEN <<CronMessage(TimeBased[i], ordinate, time, height)>> ELSE <<>>] = <<>>
      BY <2>1
    <3>2. QED
      BY <3>1 DEF OfTime
  <2>3. OfTime(time, ordinate, height) = <<>>
    BY <2>2 DEF FlattenSeq
  <2>4. ~ Ticking(s)
    BY <2>1, <1>5
  <2>5. QED
    BY <1>3, <2>3, <2>4 DEF Line
<1>7. CASE n = 1
  <2> PICK m : m = CronMessage(TimeBased[1], ordinate, time, height)
    OBVIOUS
  <2> PICK q : q = IF on THEN <<m>> ELSE <<>>
    OBVIOUS
  <2>1. DOMAIN TimeBased = 1 .. 1 /\ TimeBased[1].name = Clock
    BY <1>4, <1>7
  <2>2. m = [cron |-> Clock, ordinate |-> ordinate, time |-> time, height |-> height]
    BY <2>1 DEF CronMessage
  <2>3. m \in Entries
    BY <2>2 DEF Entries, Instants, Clock
  <2>4. on <=> IsTimestampOnCron(time, TimeBased[1])
    BY <2>1
  <2>5. [i \in DOMAIN TimeBased |->
           IF IsTimestampOnCron(time, TimeBased[i])
           THEN <<CronMessage(TimeBased[i], ordinate, time, height)>> ELSE <<>>] = <<q>>
    BY <2>1, <2>4
  <2>6. OnTime(m.cron) /\ ~ OnBlock(m.cron) /\ m.cron # NoCron /\ m.time = time /\ m.cron = Clock
    <3>1. Clock[1] = "seconds" /\ Clock # <<>>
      BY DEF Clock
    <3>2. QED
      BY <2>2, <3>1 DEF OnTime, OnBlock, NoCron
  <2>7. on => Follows(m, p, evaled) /\ Reaches(After(m), e)
    <3>1. After(m) = e
      BY <1>1, <2>6 DEF After, PlaceOf
    <3>2. Reaches(After(m), e)
      BY <1>1, <3>1, ReachesSelf
    <3>3. on => Follows(m, p, evaled)
      BY <1>5, <2>6 DEF Follows
    <3>4. QED
      BY <3>2, <3>3
  <2>8. ~ on => Reaches(p, e)
    BY <1>3, <1>5
  <2>9. q \in Seq(Entries) /\ Line(q, p, e, evaled)
    BY <1>1, <1>5, <2>3, <2>7, <2>8, OneOrNone
  <2>10. OfTime(time, ordinate, height) = q
    <3>1. FlattenSeq(<<q>>) = q
      <4>1. <<q>> \in Seq(Seq(Entries)) /\ <<q>> # <<>> /\ Len(<<q>>) = 1 /\ <<q>>[1] = q
        BY <2>9
      <4>2. PICK f \in [1 .. Len(<<q>>) -> Seq(Entries)] :
               Flat(f, <<q>>) /\ f[Len(<<q>>)] = FlattenSeq(<<q>>)
        BY <4>1, FlattenIs
      <4>3. QED
        BY <4>1, <4>2 DEF Flat
    <3>2. QED
      BY <2>5, <3>1 DEF OfTime
  <2>11. QED
    BY <2>9, <2>10
<1>8. QED
  BY <1>6, <1>7

\* After the crons of a block.
BlockPassed(block) == [time |-> block.time, next |-> Sec(block.time), rank |-> 0]

LEMMA BlockLine ==
    ASSUME NEW p \in Places, NEW block, block.height \in Nat, block.time \in Nat,
           block.time % TicksPerSecond = 0, NEW ordinate \in Nat, NEW evaled,
           p.time < block.time, p.next <= Sec(block.time), Quiet(p.next, Sec(block.time))
    PROVE  /\ OfBlock(block, ordinate) \in Seq(Entries)
           /\ Line(OfBlock(block, ordinate), p, BlockPassed(block), evaled)
<1> PICK t, s, e : t = block.time /\ s = Sec(block.time) /\ e = BlockPassed(block)
  OBVIOUS
<1>1. /\ s \in Nat /\ t \in Nat /\ e = [time |-> t, next |-> s, rank |-> 0] /\ e \in Places
      /\ p.time \in Nat /\ p.next \in Nat /\ p.rank \in Nat
  BY SecNat DEF BlockPassed, Places
<1>2. PICK n \in Nat : DOMAIN BlockBased = 1 .. n /\ \A i \in 1 .. n : BlockBased[i].name = <<"blocks", i>>
  BY BlockBasedIs
<1> DEFINE On(i) == IsBlockOnCron(block.height, BlockBased[i])
           m(i) == CronMessage(BlockBased[i], ordinate, t, block.height)
           q(i) == IF On(i) THEN <<m(i)>> ELSE <<>>
<1> PICK g : g = [i \in 0 .. n |-> IF i = 0 THEN p ELSE [time |-> t, next |-> s, rank |-> i]]
  OBVIOUS
<1>3. g \in [0 .. n -> Places]
  <2>1. \A i \in 0 .. n : [time |-> t, next |-> s, rank |-> i] \in Places
    BY <1>1 DEF Places
  <2>2. QED
    BY <2>1
<1>4. ASSUME NEW i \in 1 .. n
      PROVE  q(i) \in Seq(Entries) /\ Line(q(i), g[i - 1], g[i], evaled)
  <2> PICK x, y, c : x = g[i - 1] /\ y = g[i] /\ c = m(i)
    OBVIOUS
  <2>1. /\ i \in Nat /\ i # 0 /\ i \in 0 .. n /\ i - 1 \in 0 .. n
        /\ y = [time |-> t, next |-> s, rank |-> i]
        /\ i - 1 # 0 => x = [time |-> t, next |-> s, rank |-> i - 1]
        /\ i - 1 = 0 => x = p
    BY <1>2
  <2>2. x \in Places /\ y \in Places
    BY <1>3, <2>1
  <2>3. /\ x.time <= t /\ x.next <= s /\ Quiet(x.next, s)
        /\ x.time < t \/ (x.rank # 0 /\ x.rank < i)
    <3>1. CASE i - 1 = 0
      BY <1>1, <2>1, <3>1
    <3>2. CASE i - 1 # 0
      <4>1. x.time = t /\ x.next = s /\ x.rank = i - 1
        BY <2>1, <3>2
      <4>2. Quiet(s, s)
        BY <1>1, QuietNone
      <4>3. QED
        BY <1>1, <2>1, <3>2, <4>1, <4>2
    <3>3. QED
      BY <3>1, <3>2
  <2>4. Reaches(x, y)
    BY <1>1, <2>1, <2>2, <2>3 DEF Reaches, Places
  <2>5. c = [cron |-> <<"blocks", i>>, ordinate |-> ordinate, time |-> t, height |-> block.height]
    BY <1>2 DEF CronMessage
  <2>6. c \in Entries
    BY <1>1, <2>5 DEF Entries, Instants
  <2>7. /\ c.cron = <<"blocks", i>> /\ c.time = t
        /\ OnBlock(c.cron) /\ ~ OnTime(c.cron) /\ c.cron # NoCron /\ c.cron[2] = i
    <3>1. <<"blocks", i>> # <<>> /\ <<"blocks", i>>[1] = "blocks" /\ <<"blocks", i>>[2] = i
      OBVIOUS
    <3>2. c.cron = <<"blocks", i>> /\ c.time = t
      BY <2>5
    <3>3. QED
      BY <3>1, <3>2 DEF OnBlock, OnTime, NoCron
  <2>8. After(c) = y
    BY <2>1, <2>7 DEF After, PlaceOf
  <2>9. Reaches(After(c), y)
    BY <2>2, <2>8, ReachesSelf
  <2>10. Follows(c, x, evaled)
    <3>1. Ready(x, t, evaled)
      <4>1. x.next <= s + 1
        BY <1>1, <2>2, <2>3 DEF Places
      <4>2. QED
        BY <2>3, <4>1 DEF Ready
    <3>2. QED
      BY <2>3, <2>7, <3>1 DEF Follows
  <2>11. On(i) \in BOOLEAN
    BY DEF IsBlockOnCron
  <2>12. LET w == IF On(i) THEN <<c>> ELSE <<>>
         IN  w \in Seq(Entries) /\ Line(w, x, y, evaled)
    <3> PICK on : on = On(i)
      OBVIOUS
    <3> HIDE DEF On
    <3>1. LET w == IF on THEN <<c>> ELSE <<>>
          IN  w \in Seq(Entries) /\ Line(w, x, y, evaled)
      BY <2>2, <2>4, <2>6, <2>9, <2>10, <2>11, OneOrNone
    <3>2. QED
      BY <3>1
  <2>13. QED
    BY <2>12
<1> PICK ss : ss = [i \in 1 .. n |-> q(i)]
  OBVIOUS
<1>5. OfBlock(block, ordinate) = FlattenSeq(ss)
  BY <1>2 DEF OfBlock
<1> HIDE DEF On, m, q
<1>6. ss \in Seq(Seq(Entries)) /\ Len(ss) = n
  <2>1. ss \in [1 .. n -> Seq(Entries)]
    BY <1>4
  <2>2. \A f \in [1 .. n -> Seq(Entries)] : f \in Seq(Seq(Entries)) /\ Len(f) = n
    OBVIOUS
  <2>3. QED
    BY <2>1, <2>2, Zenon
<1>7. \A i \in 1 .. Len(ss) : Line(ss[i], g[i - 1], g[i], evaled)
  BY <1>4, <1>6
<1>8. g \in [0 .. Len(ss) -> Places]
  BY <1>3, <1>6
<1>9. Line(FlattenSeq(ss), g[0], g[n], evaled)
  BY <1>6, <1>7, <1>8, FlattenLine
<1>10. g[0] = p /\ g[n] \in Places /\ Reaches(g[n], e)
  <2>1. 0 \in 0 .. n /\ n \in 0 .. n
    OBVIOUS
  <2>2. g[0] = p /\ g[n] \in Places
    BY <1>3, <2>1
  <2>3. CASE n = 0
    <3>1. g[n] = p
      BY <2>2, <2>3
    <3>2. QED
      BY <1>1, <2>2, <3>1 DEF Reaches
  <2>4. CASE n # 0
    <3>1. g[n] = [time |-> t, next |-> s, rank |-> n]
      BY <2>1, <2>4
    <3>2. Quiet(s, s)
      BY <1>1, QuietNone
    <3>3. QED
      BY <1>1, <2>2, <3>1, <3>2 DEF Reaches
  <2>5. QED
    BY <2>3, <2>4
<1>11. FlattenSeq(ss) \in Seq(Entries)
  BY <1>6, FlattenType
<1>12. Line(FlattenSeq(ss), p, e, evaled)
  BY <1>1, <1>9, <1>10, <1>11, LineTo
<1>13. QED
  BY <1>5, <1>11, <1>12

\* The seconds of the blocks that a walk has yet to pass are not behind it.
Ahead(w, n, left) ==
    \A k \in 0 .. n : \A b \in w[k].rest :
        Sec(left.time) + k <= Sec(b.time) /\ Sec(left.time) + 1 <= Sec(b.time)

\* A step of the walk at the time of its second.
LEMMA AtSecond ==
    ASSUME NEW left, left.time \in Nat, NEW k \in Nat \ {0}
    PROVE  At(left, k) \in Nat /\ Sec(At(left, k)) = Sec(left.time) + k - 1
<1> PICK l, T, j : l = left.time /\ T = TicksPerSecond /\ j = k - 1
  OBVIOUS
<1>1. l \in Nat /\ T \in Nat \ {0} /\ j \in Nat /\ At(left, k) = l + j * T
  BY MessagesAssumption DEF At
<1>2. j * T \in Nat
  BY <1>1
<1>3. Sec(l + j * TicksPerSecond) = Sec(l) + j
  <2>1. l \in Int /\ j \in Int
    BY <1>1
  <2>2. QED
    BY <2>1, SecSteps
<1>4. Sec(l) \in Nat
  BY SecNat
<1>5. QED
  BY <1>1, <1>2, <1>3, <1>4

\* Blocks have different times.
LEMMA BlocksDiffer ==
    ASSUME NEW a \in Blocks, NEW b \in Blocks
    PROVE  /\ a.height \in Nat /\ b.height \in Nat /\ a.time \in Nat /\ b.time \in Nat
           /\ a.height <= b.height => a.time <= b.time
           /\ a.height <= b.height /\ a # b => a.time < b.time
<1>1. /\ a \in [height : Nat, time : Nat] /\ b \in [height : Nat, time : Nat]
      /\ a.height < b.height <=> a.time < b.time
      /\ b.height < a.height <=> b.time < a.time
  BY MessagesAssumption
<1>2. a.height \in Nat /\ b.height \in Nat /\ a.time \in Nat /\ b.time \in Nat
  BY <1>1
<1>3. a # b => a.height # b.height \/ a.time # b.time
  BY <1>1
<1>4. QED
  BY <1>1, <1>2, <1>3

LEMMA WalkAhead ==
    ASSUME BlocksOnSeconds, NEW left, NEW right,
           left.time \in Nat, left.height \in Nat, right.time \in Nat, NEW blocks \in SUBSET Blocks
    PROVE  Ahead(Walk(left, right, blocks), Steps(left, right), left)
<1> PICK n, w, l : /\ n = Steps(left, right) /\ w = Walk(left, right, blocks)
                   /\ l = Sec(left.time)
  OBVIOUS
<1>1. n \in Nat /\ l \in Nat
  BY StepsAre, SecNat
<1>2. WalkMade(w, n, left, right, blocks)
  BY WalkMakes
<1> DEFINE Fine(k) == \A b \in w[k].rest : l + k <= Sec(b.time) /\ l + 1 <= Sec(b.time)
<1> PICK bad : bad = {k \in 0 .. n : ~ Fine(k)}
  OBVIOUS
<1>3. ASSUME bad # {} PROVE FALSE
  <2>1. PICK k \in bad : \A j \in bad : k <= j
    <3>1. bad \in SUBSET Nat
      BY <1>1
    <3>2. QED
      BY <1>3, <3>1, LeastNumber, Zenon
  <2>2. k \in 0 .. n /\ ~ Fine(k)
    OBVIOUS
  <2>3. PICK b \in w[k].rest : ~ (l + k <= Sec(b.time) /\ l + 1 <= Sec(b.time))
    BY <2>2
  <2>4. b \in Blocks /\ b.time \in Nat /\ Sec(b.time) \in Nat
    <3>1. w[k].rest \subseteq BlocksBetween(left, right, blocks)
      BY <1>2, <2>2 DEF WalkMade, Walks
    <3>2. b \in Blocks
      BY <3>1 DEF BlocksBetween
    <3>3. b.time \in Nat
      BY <3>2, BlocksDiffer
    <3>4. QED
      BY <3>2, <3>3, SecNat
  <2>5. CASE k = 0
    <3>1. left.time < b.time /\ b.time % TicksPerSecond = 0
      <4>1. w[0].rest = BlocksBetween(left, right, blocks)
        BY <1>2 DEF WalkMade
      <4>2. b \in BlocksBetween(left, right, blocks)
        BY <2>3, <2>5, <4>1
      <4>3. QED
        BY <2>4, <4>2 DEF BlocksBetween, BlocksOnSeconds
    <3>2. l < Sec(b.time)
      BY <2>4, <3>1, WholeSeconds
    <3>3. QED
      BY <1>1, <2>3, <2>4, <2>5, <3>2
  <2>6. CASE k # 0
    <3> PICK j, y : j = k - 1 /\ y = w[k - 1]
      OBVIOUS
    <3>1. k \in 1 .. n /\ k \in Nat \ {0} /\ j \in 0 .. n /\ j \notin bad /\ j \in Nat /\ k = j + 1
      BY <1>1, <2>1, <2>2, <2>6
    <3>2. \A a \in y.rest : l + j <= Sec(a.time) /\ l + 1 <= Sec(a.time)
      BY <3>1
    <3>3. w[k] = WalkStep(left, k, y) /\ y.rest \subseteq Blocks
      <4>1. w[j] \in Walks(left, right, blocks)
        BY <1>2, <3>1 DEF WalkMade
      <4>2. y.rest \subseteq BlocksBetween(left, right, blocks)
        BY <4>1 DEF Walks
      <4>3. QED
        BY <1>2, <3>1, <4>2 DEF WalkMade, BlocksBetween
    <3>4. At(left, k) \in Nat /\ Sec(At(left, k)) = l + j
      <4>1. Sec(At(left, k)) = l + k - 1 /\ At(left, k) \in Nat
        BY <3>1, AtSecond
      <4>2. QED
        BY <1>1, <3>1, <4>1
    <3> PICK low, sec : low = Lowest(y.rest) /\ sec = Sec(low.time)
      OBVIOUS
    <3>5. y.rest # {} =>
            /\ low \in Blocks /\ low \in y.rest /\ sec \in Nat
            /\ \A a \in y.rest : low.height <= a.height
      <4>1. y.rest # {} => low \in y.rest /\ \A a \in y.rest : low.height <= a.height
        BY <3>3, LowestIs
      <4>2. y.rest # {} => low \in Blocks
        BY <3>3, <4>1
      <4>3. y.rest # {} => sec \in Nat
        BY <4>2, BlocksDiffer, SecNat
      <4>4. QED
        BY <4>1, <4>2, <4>3
    <3>6. CASE y.rest # {} /\ l + j >= sec
      <4>1. w[k] = [block |-> low, rest |-> y.rest \ {low}]
        BY <3>3, <3>4, <3>6 DEF WalkStep
      <4>2. b \in y.rest /\ b # low
        BY <4>1
      <4>3. low.time < b.time /\ low.time \in Nat
        BY <2>4, <3>5, <4>2, BlocksDiffer
      <4>4. sec < Sec(b.time)
        BY <2>4, <4>3, WholeSeconds DEF BlocksOnSeconds
      <4>5. l + j <= sec
        BY <3>2, <3>5, <4>2
      <4>6. l + 1 <= Sec(b.time)
        BY <3>2, <4>2
      <4>7. QED
        BY <1>1, <2>3, <2>4, <3>1, <3>5, <4>2, <4>4, <4>5, <4>6
    <3>7. CASE ~ (y.rest # {} /\ l + j >= sec)
      <4>1. w[k] = y
        BY <3>3, <3>4, <3>7 DEF WalkStep
      <4>2. b \in y.rest /\ sec > l + j
        BY <1>1, <3>1, <3>5, <3>7, <4>1
      <4>3. low.time <= b.time /\ low.time \in Nat
        BY <2>4, <3>5, <4>2, BlocksDiffer
      <4>4. sec <= Sec(b.time)
        BY <2>4, <4>3, SecGrows
      <4>5. l + 1 <= Sec(b.time)
        BY <3>2, <4>2
      <4>6. QED
        BY <1>1, <2>3, <2>4, <3>1, <3>5, <4>2, <4>4, <4>5
    <3>8. QED
      BY <3>6, <3>7
  <2>7. QED
    BY <2>5, <2>6
<1>4. \A k \in 0 .. n : Fine(k)
  BY <1>3
<1>5. QED
  BY <1>4 DEF Ahead

\* A block is passed in its second, which is not that of the left.
LEMMA WalkPasses ==
    ASSUME BlocksOnSeconds, NEW left, NEW right,
           left.time \in Nat, left.height \in Nat, right.time \in Nat, NEW blocks \in SUBSET Blocks,
           NEW k \in 1 .. Steps(left, right),
           Walk(left, right, blocks)[k] # Walk(left, right, blocks)[k - 1]
    PROVE  LET b == Walk(left, right, blocks)[k].block
           IN  b \in Blocks /\ Sec(b.time) = Sec(left.time) + k - 1 /\ k # 1
<1> PICK n, w, l, y : /\ n = Steps(left, right) /\ w = Walk(left, right, blocks)
                      /\ l = Sec(left.time) /\ y = w[k - 1]
  OBVIOUS
<1>1. n \in Nat /\ l \in Nat
  BY StepsAre, SecNat
<1>2. WalkMade(w, n, left, right, blocks) /\ Ahead(w, n, left)
  BY WalkMakes, WalkAhead
<1>3. k \in Nat \ {0} /\ k - 1 \in 0 .. n
  BY <1>1
<1>4. w[k] = WalkStep(left, k, y) /\ y.rest \subseteq Blocks
  <2>1. w[k - 1] \in Walks(left, right, blocks)
    BY <1>2, <1>3 DEF WalkMade
  <2>2. y.rest \subseteq BlocksBetween(left, right, blocks)
    BY <2>1 DEF Walks
  <2>3. QED
    BY <1>2, <2>2 DEF WalkMade, BlocksBetween
<1>5. Sec(At(left, k)) = l + k - 1
  BY <1>3, AtSecond
<1> PICK b : b = Lowest(y.rest)
  OBVIOUS
<1>6. y.rest # {} /\ l + k - 1 >= Sec(b.time) /\ w[k] = [block |-> b, rest |-> y.rest \ {b}]
  BY <1>4, <1>5 DEF WalkStep
<1>7. b \in y.rest /\ b \in Blocks
  BY <1>4, <1>6, LowestIs
<1>8. Sec(b.time) \in Nat
  BY <1>7, BlocksDiffer, SecNat
<1>9. l + (k - 1) <= Sec(b.time) /\ l + 1 <= Sec(b.time)
  BY <1>2, <1>3, <1>7 DEF Ahead
<1>10. Sec(b.time) = l + k - 1 /\ k # 1
  BY <1>1, <1>3, <1>6, <1>8, <1>9
<1>11. w[k].block = b
  BY <1>6
<1>12. QED
  BY <1>7, <1>10, <1>11

\* A place from which nothing is left to come before the second of a time.
Near(p, time) ==
    /\ p.time <= time
    /\ p.next <= Sec(time) + 1
    /\ Quiet(p.next, Sec(time))

\* A step in which a block is passed.
LEMMA PassLine ==
    ASSUME OneClock, BlocksOnSeconds, NEW before \in Nat, NEW time \in Nat,
           Sec(time) = Sec(before) + 1,
           NEW b \in Blocks, Sec(b.time) = Sec(time),
           NEW ordinate \in Nat, NEW evaled
    PROVE  /\ OfBlock(b, ordinate) \o OfTime(time, ordinate, b.height) \in Seq(Entries)
           /\ Line(OfBlock(b, ordinate) \o OfTime(time, ordinate, b.height),
                   Stepped(before), Stepped(time), evaled)
<1> PICK T, s, x, y, z : /\ T = TicksPerSecond /\ s = Sec(time)
                         /\ x = Stepped(before) /\ y = BlockPassed(b) /\ z = Stepped(time)
  OBVIOUS
<1>1. /\ b.height \in Nat /\ b.time \in Nat /\ T \in Nat \ {0}
      /\ b.time % T = 0 /\ b.time % TicksPerSecond = 0
  BY BlocksDiffer, MessagesAssumption DEF BlocksOnSeconds
<1>2. s \in Nat /\ Sec(before) \in Nat /\ s = Sec(before) + 1 /\ Sec(b.time) = s
  BY <1>1, SecNat
<1>3. /\ x \in Places /\ x.time = before /\ x.next = s
      /\ y \in Places /\ y.time = b.time /\ y.next = s
      /\ z \in Places
  BY <1>1, <1>2 DEF Stepped, BlockPassed, Places
<1>4. before < b.time
  <2>1. b.time <= before => Sec(b.time) <= Sec(before)
    BY <1>1, SecGrows
  <2>2. QED
    BY <1>1, <1>2, <2>1
<1>5. b.time <= time
  <2>1. s * T <= time /\ s * T \in Nat
    BY <1>1, <1>2, SecIs
  <2>2. b.time = s * T
    <3>1. b.time = (b.time \div T) * T
      BY <1>1
    <3>2. QED
      BY <1>2, <3>1 DEF Sec
  <2>3. QED
    BY <2>1, <2>2
<1>6. Quiet(s, s)
  BY <1>2, QuietNone
<1>7. OfBlock(b, ordinate) \in Seq(Entries) /\ Line(OfBlock(b, ordinate), x, y, evaled)
  <2>1. x.time < b.time /\ x.next <= Sec(b.time) /\ Quiet(x.next, Sec(b.time))
    BY <1>2, <1>3, <1>4, <1>6
  <2>2. QED
    BY <1>1, <1>3, <2>1, BlockLine
<1>8. Ready(y, time, evaled)
  BY <1>2, <1>3, <1>5, <1>6 DEF Ready
<1>9. /\ OfTime(time, ordinate, b.height) \in Seq(Entries)
      /\ Line(OfTime(time, ordinate, b.height), y, z, evaled)
  BY <1>1, <1>3, <1>8, TimeLine
<1>10. \A q, r \in Seq(Entries) : q \o r \in Seq(Entries)
  OBVIOUS
<1>11. QED
  BY <1>3, <1>7, <1>9, <1>10, LineConcat

\* The crons between two messages.
LEMMA CronLine ==
    ASSUME OneClock, BlocksOnSeconds, NEW left, NEW right,
           left.time \in Nat, left.height \in Nat, left.ordinate \in Nat, right.time \in Nat,
           NEW blocks \in SUBSET Blocks, NEW p \in Places, NEW evaled, Ready(p, left.time, evaled)
    PROVE  \E e \in Places :
              /\ Line(CronMessages(left, right, blocks), p, e, evaled)
              /\ left.time <= right.time => Near(e, right.time)
<1> PICK n, w, l, o : /\ n = Steps(left, right) /\ w = Walk(left, right, blocks)
                      /\ l = Sec(left.time) /\ o = left.ordinate
  OBVIOUS
<1>1. /\ n \in Nat /\ l \in Nat /\ o \in Nat
      /\ right.time <= left.time + n * TicksPerSecond
      /\ \A k \in 1 .. n : At(left, k) < right.time
  BY StepsAre, SecNat
<1>2. \A k \in 1 .. n : At(left, k) \in Nat /\ Sec(At(left, k)) = l + k - 1
  BY AtSecond
<1>3. At(left, 1) = left.time
  BY MessagesAssumption DEF At
<1> PICK g : g = [k \in 0 .. n |-> IF k = 0 THEN p ELSE Stepped(At(left, k))]
  OBVIOUS
<1>4. g \in [0 .. n -> Places] /\ g[0] = p /\ \A k \in 1 .. n : g[k] = Stepped(At(left, k))
  <2>1. \A k \in 1 .. n : Stepped(At(left, k)) \in Places
    <3>1. ASSUME NEW k \in 1 .. n PROVE Stepped(At(left, k)) \in Places
      <4> PICK time : time = At(left, k)
        OBVIOUS
      <4>1. time \in Nat
        BY <1>2
      <4>2. Sec(time) + 1 \in Nat
        <5>1. Sec(time) \in Nat
          BY <4>1, SecNat
        <5>2. QED
          BY <5>1
      <4>3. QED
        BY <4>1, <4>2 DEF Stepped, Places
    <3>2. QED
      BY <3>1
  <2>2. QED
    BY <1>1, <2>1
<1> PICK ss : ss = [k \in 1 .. n |-> (IF w[k] = w[k - 1] THEN <<>> ELSE OfBlock(w[k].block, o))
                                        \o OfTime(At(left, k), o, w[k].block.height)]
  OBVIOUS
<1>5. CronMessages(left, right, blocks) = FlattenSeq(ss)
  BY DEF CronMessages
<1>6. ASSUME NEW k \in 1 .. n PROVE ss[k] \in Seq(Entries) /\ Line(ss[k], g[k - 1], g[k], evaled)
  <2> PICK time, b : time = At(left, k) /\ b = w[k].block
    OBVIOUS
  <2>1. time \in Nat /\ Sec(time) = l + k - 1 /\ k \in Nat \ {0} /\ k - 1 \in 0 .. n
    BY <1>1, <1>2
  <2>2. b.height \in Nat
    BY <2>1, WalkIs DEF Walked
  <2>3. g[k] = Stepped(time) /\ g[k - 1] \in Places
    BY <1>4, <2>1
  <2>4. ss[k] = (IF w[k] = w[k - 1] THEN <<>> ELSE OfBlock(b, o)) \o OfTime(time, o, b.height)
    OBVIOUS
  <2>5. CASE w[k] = w[k - 1]
    <3>1. Ready(g[k - 1], time, evaled)
      <4>1. CASE k = 1
        BY <1>3, <1>4, <2>1, <4>1
      <4>2. CASE k # 1
        <5>1. k - 1 \in 1 .. n
          BY <2>1, <4>2
        <5>2. At(left, k - 1) \in Nat /\ Sec(At(left, k - 1)) = l + (k - 1) - 1
          BY <1>2, <5>1
        <5>3. g[k - 1] = Stepped(At(left, k - 1))
          BY <1>4, <5>1
        <5>4. Sec(At(left, k - 1)) + 1 = Sec(time)
          BY <1>1, <2>1, <5>2
        <5>5. At(left, k - 1) <= time
          <6>1. time <= At(left, k - 1) => Sec(time) <= Sec(At(left, k - 1))
            BY <2>1, <5>2, SecGrows
          <6>2. QED
            BY <1>1, <2>1, <5>2, <6>1
        <5>6. Quiet(Sec(time), Sec(time))
          BY <1>1, <2>1, QuietNone
        <5>7. g[k - 1].time = At(left, k - 1) /\ g[k - 1].next = Sec(time)
          BY <5>3, <5>4 DEF Stepped
        <5>8. QED
          BY <1>1, <2>1, <5>5, <5>6, <5>7 DEF Ready
      <4>3. QED
        BY <4>1, <4>2
    <3>2. /\ OfTime(time, o, b.height) \in Seq(Entries)
          /\ Line(OfTime(time, o, b.height), g[k - 1], g[k], evaled)
      <4> PICK x, h : x = g[k - 1] /\ h = b.height
        OBVIOUS
      <4>1. x \in Places /\ h \in Nat /\ time \in Nat /\ o \in Nat /\ Ready(x, time, evaled)
        BY <1>1, <2>1, <2>2, <2>3, <3>1
      <4>2. OfTime(time, o, h) \in Seq(Entries) /\ Line(OfTime(time, o, h), x, Stepped(time), evaled)
        BY <4>1, TimeLine
      <4>3. QED
        BY <2>3, <4>2
    <3>3. \A q \in Seq(Entries) : <<>> \o q = q
      OBVIOUS
    <3>4. ss[k] = OfTime(time, o, b.height)
      BY <2>4, <2>5, <3>2, <3>3
    <3>5. QED
      BY <3>2, <3>4
  <2>6. CASE w[k] # w[k - 1]
    <3>1. b \in Blocks /\ Sec(b.time) = l + k - 1 /\ k # 1
      BY <2>6, WalkPasses
    <3>2. k - 1 \in 1 .. n
      BY <2>1, <3>1
    <3>3. At(left, k - 1) \in Nat /\ Sec(At(left, k - 1)) = l + (k - 1) - 1
      BY <1>2, <3>2
    <3>4. Sec(time) = Sec(At(left, k - 1)) + 1 /\ Sec(b.time) = Sec(time)
      BY <1>1, <2>1, <3>1, <3>3
    <3>5. g[k - 1] = Stepped(At(left, k - 1))
      BY <1>4, <3>2
    <3>6. ss[k] = OfBlock(b, o) \o OfTime(time, o, b.height)
      BY <2>4, <2>6
    <3>7. QED
      <4> PICK before : before = At(left, k - 1)
        OBVIOUS
      <4>1. before \in Nat /\ time \in Nat /\ o \in Nat /\ Sec(time) = Sec(before) + 1
        BY <1>1, <2>1, <3>3, <3>4
      <4>2. /\ OfBlock(b, o) \o OfTime(time, o, b.height) \in Seq(Entries)
            /\ Line(OfBlock(b, o) \o OfTime(time, o, b.height), Stepped(before), Stepped(time), evaled)
        BY <3>1, <3>4, <4>1, PassLine
      <4>3. QED
        BY <2>3, <3>5, <3>6, <4>2
  <2>7. QED
    BY <2>5, <2>6
<1>7. ss \in Seq(Seq(Entries)) /\ Len(ss) = n
  <2>1. ss \in [1 .. n -> Seq(Entries)]
    BY <1>6
  <2>2. \A S : \A f \in [1 .. n -> S] : f \in Seq(S) /\ Len(f) = n
    BY <1>1
  <2>3. QED
    BY <2>1, <2>2
<1>8. Line(FlattenSeq(ss), g[0], g[n], evaled)
  BY <1>4, <1>6, <1>7, FlattenLine
<1>9. g[n] \in Places
  BY <1>1, <1>4
<1>10. ASSUME left.time <= right.time PROVE Near(g[n], right.time)
  <2>1. CASE n = 0
    <3>1. right.time = left.time
      <4>1. 0 * TicksPerSecond = 0
        BY MessagesAssumption
      <4>2. QED
        BY <1>1, <1>10, <2>1, <4>1
    <3>2. QED
      BY <1>4, <2>1, <3>1 DEF Ready, Near
  <2>2. CASE n # 0
    <3>1. n \in 1 .. n
      BY <1>1, <2>2
    <3> PICK a, r : a = At(left, n) /\ r = right.time
      OBVIOUS
    <3>2. a \in Nat /\ Sec(a) = l + n - 1 /\ a < r /\ r \in Nat /\ Sec(r) \in Nat
      BY <1>1, <1>2, <3>1, SecNat
    <3>3. g[n].time = a /\ g[n].next = l + n
      BY <1>1, <1>4, <3>1, <3>2 DEF Stepped
    <3>4. Sec(a) <= Sec(r)
      BY <3>2, SecGrows
    <3>5. Sec(r) <= l + n
      <4>1. left.time + n * TicksPerSecond \in Nat
        BY <1>1, MessagesAssumption
      <4>2. Sec(left.time + n * TicksPerSecond) = l + n
        <5>1. left.time \in Int /\ n \in Int
          BY <1>1
        <5>2. QED
          BY <5>1, SecSteps
      <4>3. Sec(r) <= Sec(left.time + n * TicksPerSecond)
        BY <1>1, <3>2, <4>1, SecGrows
      <4>4. QED
        BY <4>2, <4>3
    <3>6. Quiet(l + n, Sec(r))
      BY <1>1, <3>2, <3>5, QuietNone
    <3>7. a <= r /\ l + n <= Sec(r) + 1
      BY <1>1, <3>2, <3>4
    <3>8. QED
      BY <3>3, <3>6, <3>7 DEF Near
  <2>3. QED
    BY <2>1, <2>2
<1>11. QED
  BY <1>4, <1>5, <1>8, <1>9, <1>10

-----------------------------------------------------------------------------
(* A page goes on from where the queue ends.                               *)

LEMMA SlotsInTurn ==
    ASSUME InSchedule(schedule), SinceOrigin,
           NEW i \in 0 .. Len(schedule), NEW j \in 0 .. Len(schedule), i <= j
    PROVE  /\ Slot(i).time \in Nat /\ Slot(j).time \in Nat
           /\ Slot(i).time <= Slot(j).time /\ Origin.time <= Slot(i).time
<1>1. Slot(i).time \in Nat /\ Slot(j).time \in Nat /\ Origin.time \in Nat
  BY SlotIs, MessagesAssumption DEF Assignments
<1>2. Slot(0).time = Origin.time
  BY DEF Slot, Process
<1>3. \A k \in 1 .. Len(schedule) : Slot(k) = schedule[k]
  BY DEF Slot
<1>4. Len(schedule) \in Nat
  BY ScheduleTimes
<1>5. CASE i = 0
  BY <1>1, <1>2, <1>3, <1>4, <1>5 DEF SinceOrigin
<1>6. CASE i # 0
  <2>1. i \in 1 .. Len(schedule) /\ j \in 1 .. Len(schedule)
    BY <1>4, <1>6
  <2>2. i = j \/ i < j
    OBVIOUS
  <2>3. schedule[i].time <= schedule[j].time
    BY <1>1, <1>3, <2>1, <2>2 DEF InSchedule
  <2>4. QED
    BY <1>1, <1>3, <2>1, <2>3 DEF SinceOrigin
<1>7. QED
  BY <1>5, <1>6

\* The process has no instant in its second, and a message shares its own.
LEMMA SlotFollows ==
    ASSUME InSchedule(schedule), NEW k \in 0 .. Len(schedule), NEW p \in Places, NEW evaled,
           Near(p, Slot(k).time)
    PROVE  /\ Follows(Scheduled(Slot(k)), p, evaled)
           /\ Line(<<Scheduled(Slot(k))>>, p, After(Scheduled(Slot(k))), evaled)
           /\ Ready(After(Scheduled(Slot(k))), Slot(k).time, evaled)
<1> PICK m, t : m = Scheduled(Slot(k)) /\ t = Slot(k).time
  OBVIOUS
<1>1. m \in Entries /\ m.time = t /\ m.cron = NoCron /\ t \in Nat
  BY SlotIs DEF Assignments, Entries, IsCron
<1>2. Crowded(Sec(t)) \/ ~ Ticking(Sec(t))
  <2>1. CASE k = 0
    <3>1. t = Origin.time
      BY <2>1 DEF Slot, Process
    <3>2. ~ \E i \in DOMAIN TimeBased : IsTimestampOnCron(t, TimeBased[i])
      BY <3>1 DEF IsTimestampOnCron
    <3>3. QED
      BY <1>1, <3>2, TickingIs
  <2>2. CASE k # 0
    <3>1. k \in 1 .. Len(schedule) /\ Slot(k) = schedule[k] /\ DOMAIN schedule = 1 .. Len(schedule)
      BY <2>2 DEF Slot, InSchedule
    <3>2. QED
      BY <3>1 DEF Crowded
  <2>3. QED
    BY <2>1, <2>2
<1>3. Ready(p, t, evaled)
  BY <1>2 DEF Near, Ready, Again
<1>4. ~ OnTime(m.cron) /\ ~ OnBlock(m.cron)
  BY <1>1 DEF OnTime, OnBlock
<1>5. Follows(m, p, evaled)
  BY <1>1, <1>2, <1>3, <1>4 DEF Follows
<1>6. After(m) \in Places /\ After(m) = [time |-> t, next |-> Sec(t), rank |-> 0]
  <2>1. After(m) \in Places
    BY <1>1, AfterIs
  <2>2. QED
    BY <1>1, <1>4, <2>1 DEF After, PlaceOf
<1>7. Line(<<m>>, p, After(m), evaled)
  <2>1. Reaches(After(m), After(m))
    BY <1>6, ReachesSelf
  <2>2. <<m>> # <<>> /\ Len(<<m>>) = 1 /\ <<m>>[1] = m /\ ~ \E i \in 1 .. 1 : i > 1
    OBVIOUS
  <2>3. QED
    BY <1>5, <2>1, <2>2 DEF Line
<1>8. Ready(After(m), t, evaled)
  <2>1. Sec(t) \in Nat
    BY <1>1, SecNat
  <2>2. Quiet(Sec(t), Sec(t))
    BY <2>1, QuietNone
  <2>3. QED
    BY <1>1, <1>6, <2>1, <2>2 DEF Ready
<1>9. QED
  BY <1>5, <1>7, <1>8

\* The messages of a page come in the order of their times.
LEMMA BoundsInTurn ==
    ASSUME SinceOrigin, NEW c \in Int, NEW n \in Nat, NEW v \in Nat, Fetching(c, n, v),
           NEW e, NextPageAt(stream, e), stream.step = "fetch", NEW i \in 1 .. v
    PROVE  Bounds[i].time <= Slot(c + i).time
<1>1. /\ v <= n /\ c + n <= Len(schedule) /\ Len(schedule) \in Nat /\ -1 <= c
      /\ Bounds[1] = stream.prev
      /\ \A j \in 1 .. v : c + j \in 0 .. Len(schedule) /\ Bounds[j + 1] = Scheduled(Slot(c + j))
  BY BoundsAre
<1>2. InSchedule(schedule)
  BY DEF Fetching
<1>3. CASE i = 1
  <2>1. CASE stream.query.from = None
    <3>1. c = -1 /\ stream.prev.time = Origin.time
      BY <2>1 DEF NextPageAt, Fetching, PageOf
    <3>2. Slot(c + i).time = Origin.time
      BY <1>3, <3>1 DEF Slot, Process
    <3>3. Origin.time \in Nat
      BY MessagesAssumption
    <3>4. QED
      BY <1>1, <1>3, <3>1, <3>2, <3>3
  <2>2. CASE stream.query.from # None
    <3>1. /\ stream.query.from = stream.prev.time /\ c # -1
          /\ \A j \in 1 .. Len(schedule) : j <= c <=> schedule[j].time <= stream.query.from
      BY <2>2 DEF NextPageAt, Fetching, PageOf
    <3>2. c + 1 \in 1 .. Len(schedule) /\ ~ (c + 1 <= c)
      BY <1>1, <1>3, <3>1
    <3>3. ~ (schedule[c + 1].time <= stream.prev.time)
      BY <3>1, <3>2
    <3>4. schedule[c + 1].time \in Nat /\ stream.prev.time \in Nat
      BY <1>2, <3>2, ScheduleTimes, LeftsAre, BoundsAre
    <3>5. Slot(c + 1) = schedule[c + 1]
      BY <3>2 DEF Slot
    <3>6. Bounds[i] = stream.prev /\ Slot(c + i) = schedule[c + 1]
      BY <1>1, <1>3, <3>5
    <3>7. stream.prev.time <= schedule[c + 1].time
      BY <3>3, <3>4
    <3>8. QED
      BY <3>6, <3>7
  <2>3. QED
    BY <2>1, <2>2
<1>4. CASE i # 1
  <2>1. i - 1 \in 1 .. v
    BY <1>4
  <2>2. c + (i - 1) \in 0 .. Len(schedule) /\ Bounds[(i - 1) + 1] = Scheduled(Slot(c + (i - 1)))
    BY <1>1, <2>1
  <2>3. c + i \in 0 .. Len(schedule) /\ (i - 1) + 1 = i /\ c + (i - 1) <= c + i
    BY <1>1
  <2>4. Slot(c + (i - 1)).time <= Slot(c + i).time
    BY <1>2, <2>2, <2>3, SlotsInTurn
  <2>5. Scheduled(Slot(c + (i - 1))).time = Slot(c + (i - 1)).time
    BY DEF Scheduled
  <2>6. QED
    BY <2>2, <2>3, <2>4, <2>5
<1>5. QED
  BY <1>3, <1>4

\* The crons up to a message, and the message.
LEMMA UpToLine ==
    ASSUME OneClock, BlocksOnSeconds, SinceOrigin,
           NEW c \in Int, NEW n \in Nat, NEW v \in Nat, Fetching(c, n, v),
           NEW e, NextPageAt(stream, e), stream.step = "fetch", NEW i \in 1 .. v,
           NEW p \in Places, NEW evaled, Ready(p, Bounds[i].time, evaled)
    PROVE  /\ UpTo(i) \in Seq(Entries)
           /\ Line(UpTo(i), p, After(Bounds[i + 1]), evaled)
           /\ After(Bounds[i + 1]) \in Places
           /\ Ready(After(Bounds[i + 1]), Bounds[i + 1].time, evaled)
<1> PICK left, right, k : left = Bounds[i] /\ right = Bounds[i + 1] /\ k = c + i
  OBVIOUS
<1>1. InSchedule(schedule) /\ stream.blocks \in SUBSET Blocks
  BY DEF Fetching, Streams
<1>2. /\ left.time \in Nat /\ left.height \in Nat /\ left.ordinate \in Nat
      /\ k \in 0 .. Len(schedule) /\ right = Scheduled(Slot(k))
  <2>1. Bounds \in Seq(Lefts) /\ Len(Bounds) = v + 1 /\ i \in 1 .. v + 1
    BY BoundsAre
  <2>2. left \in Lefts
    BY <2>1
  <2>3. QED
    BY <2>2, LeftsAre, BoundsAre
<1>3. right \in Entries /\ right.time \in Nat /\ right.time = Slot(k).time
  BY <1>1, <1>2, SlotIs DEF Entries, Messages
<1>4. left.time <= right.time
  BY <1>3, BoundsInTurn
<1> PICK crons : crons = CronMessages(left, right, stream.blocks)
  OBVIOUS
<1>5. PICK f \in Places : Line(crons, p, f, evaled) /\ (left.time <= right.time => Near(f, right.time))
  BY <1>1, <1>2, <1>3, CronLine
<1>6. crons \in Seq(Entries)
  <2>1. crons \in Seq(Between(left, right.time))
    BY <1>1, <1>2, <1>3, CronMessagesType
  <2>2. Between(left, right.time) \subseteq Entries
    BY BetweenAre
  <2>3. QED
    BY <2>1, <2>2, SeqGrows
<1>7. /\ Line(<<right>>, f, After(right), evaled)
      /\ Ready(After(right), right.time, evaled)
  BY <1>1, <1>2, <1>3, <1>4, <1>5, SlotFollows
<1>8. After(right) \in Places
  BY <1>3, AfterIs
<1>9. <<right>> \in Seq(Entries) /\ (\A q, r \in Seq(Entries) : q \o r \in Seq(Entries))
  BY <1>3
<1>10. UpTo(i) = crons \o <<right>>
  BY DEF UpTo
<1>11. Line(crons \o <<right>>, p, After(right), evaled)
  BY <1>5, <1>6, <1>7, <1>8, <1>9, LineConcat
<1>12. QED
  BY <1>6, <1>7, <1>8, <1>9, <1>10, <1>11

LEMMA MergedLine ==
    ASSUME OneClock, BlocksOnSeconds, SinceOrigin,
           NEW c \in Int, NEW n \in Nat, NEW v \in Nat, Fetching(c, n, v),
           NEW e \in Places, NextPageAt(stream, e), stream.step = "fetch"
    PROVE  \E f \in Places :
              /\ Line(Merged, e, f, stream.evaled)
              /\ Ready(f, Last(Bounds).time, stream.evaled)
<1> PICK evaled : evaled = stream.evaled
  OBVIOUS
<1>1. /\ Bounds \in Seq(Lefts) /\ Len(Bounds) = v + 1 /\ DOMAIN Taken = 1 .. v
      /\ Bounds[1] = stream.prev
      /\ \A i \in 1 .. v : c + i \in 0 .. Len(schedule) /\ Bounds[i + 1] = Scheduled(Slot(c + i))
  BY BoundsAre
<1>2. Ready(e, Bounds[1].time, evaled)
  BY <1>1 DEF NextPageAt
<1> PICK g : g = [i \in 0 .. v |-> IF i = 0 THEN e ELSE After(Bounds[i + 1])]
  OBVIOUS
<1>3. ASSUME NEW i \in 1 .. v
      PROVE  After(Bounds[i + 1]) \in Places /\ Ready(After(Bounds[i + 1]), Bounds[i + 1].time, evaled)
  <2> PICK k, m : k = c + i /\ m = Bounds[i + 1]
    OBVIOUS
  <2>1. k \in 0 .. Len(schedule) /\ m = Scheduled(Slot(k)) /\ InSchedule(schedule)
    BY <1>1 DEF Fetching
  <2>2. m \in Entries /\ m.time = Slot(k).time /\ m.time \in Nat
    BY <2>1, SlotIs DEF Entries, Messages
  <2> PICK z : z = [time |-> m.time, next |-> Sec(m.time), rank |-> 0]
    OBVIOUS
  <2>3. Sec(m.time) \in Nat
    BY <2>2, SecNat
  <2>4. Quiet(Sec(m.time), Sec(m.time))
    BY <2>3, QuietNone
  <2>5. z \in Places /\ Near(z, m.time)
    BY <2>2, <2>3, <2>4 DEF Places, Near
  <2>6. QED
    BY <2>1, <2>2, <2>5, SlotFollows, AfterIs
<1>4. g \in [0 .. v -> Places] /\ g[0] = e /\ \A i \in 1 .. v : g[i] = After(Bounds[i + 1])
  BY <1>3
<1>5. ASSUME NEW i \in 0 .. v PROVE Ready(g[i], Bounds[i + 1].time, evaled)
  <2>1. CASE i = 0
    BY <1>2, <1>4, <2>1
  <2>2. CASE i # 0
    <3>1. i \in 1 .. v
      BY <2>2
    <3>2. QED
      BY <1>3, <1>4, <3>1
  <2>3. QED
    BY <2>1, <2>2
<1>6. ASSUME NEW i \in 1 .. v PROVE UpTo(i) \in Seq(Entries) /\ Line(UpTo(i), g[i - 1], g[i], evaled)
  <2> PICK x : x = g[i - 1]
    OBVIOUS
  <2>1. i - 1 \in 0 .. v /\ (i - 1) + 1 = i
    OBVIOUS
  <2>2. x \in Places /\ Ready(x, Bounds[i].time, evaled)
    BY <1>4, <1>5, <2>1
  <2>3. UpTo(i) \in Seq(Entries) /\ Line(UpTo(i), x, After(Bounds[i + 1]), evaled)
    BY <2>2, UpToLine
  <2>4. QED
    BY <1>4, <2>3
<1> PICK ss : ss = [i \in DOMAIN Taken |-> UpTo(i)]
  OBVIOUS
<1>7. Merged = FlattenSeq(ss)
  BY DEF Merged
<1>8. ss \in Seq(Seq(Entries)) /\ Len(ss) = v /\ \A i \in 1 .. v : ss[i] = UpTo(i)
  <2>1. ss \in [1 .. v -> Seq(Entries)] /\ \A i \in 1 .. v : ss[i] = UpTo(i)
    BY <1>1, <1>6
  <2>2. \A S : \A f \in [1 .. v -> S] : f \in Seq(S) /\ Len(f) = v
    OBVIOUS
  <2>3. QED
    BY <2>1, <2>2
<1>9. Line(FlattenSeq(ss), g[0], g[v], evaled)
  BY <1>4, <1>6, <1>8, FlattenLine
<1>10. v \in 0 .. v /\ Last(Bounds) = Bounds[v + 1]
  BY <1>1 DEF Last
<1>11. g[v] \in Places /\ Ready(g[v], Last(Bounds).time, evaled)
  BY <1>4, <1>5, <1>10
<1>12. QED
  BY <1>4, <1>7, <1>9, <1>11

\* The crons after the last page.
LEMMA LastLine ==
    ASSUME OneClock, BlocksOnSeconds,
           NEW c \in Int, NEW n \in Nat, NEW v \in Nat, Fetching(c, n, v),
           NEW p \in Places, NEW evaled, Ready(p, Last(Bounds).time, evaled)
    PROVE  \E e \in Places : Line(LastCrons, p, e, evaled)
<1> PICK left, right : left = Last(Bounds) /\ right = [time |-> stream.right]
  OBVIOUS
<1>1. left.time \in Nat /\ left.height \in Nat /\ left.ordinate \in Nat
  <2>1. Bounds \in Seq(Lefts) /\ Len(Bounds) = v + 1 /\ v + 1 \in 1 .. v + 1
    BY BoundsAre
  <2>2. left \in Lefts
    BY <2>1 DEF Last
  <2>3. QED
    BY <2>2, LeftsAre
<1>2. stream.blocks \in SUBSET Blocks /\ right.time \in Nat
  BY DEF Fetching, Streams
<1>3. LastCrons = CronMessages(left, right, stream.blocks) \/ LastCrons = <<>>
  BY DEF LastCrons, Trailing
<1>4. PICK f \in Places : Line(CronMessages(left, right, stream.blocks), p, f, evaled)
  BY <1>1, <1>2, CronLine
<1>5. Line(<<>>, p, p, evaled)
  BY ReachesSelf DEF Line
<1>6. QED
  BY <1>3, <1>4, <1>5

LEMMA FetchLine ==
    ASSUME OneClock, BlocksOnSeconds, SinceOrigin, TypeInv, Fetch,
           NEW p \in Places, NEW e \in Places, PassedTo(stream, p, e), NEW s, s = stream'
    PROVE  \E f \in Places : PassedTo(s, p, f)
<1>1. stream # NoStream /\ stream.step = "fetch"
  <2>1. stream.step = "fetch" /\ NoStream.step = "none"
    BY DEF Fetch, NoStream
  <2>2. QED
    BY <2>1
<1>2. stream \in Streams /\ InSchedule(schedule)
  BY <1>1 DEF TypeInv, StreamTyped
<1>3. PICK c \in Int, n \in Nat, v \in Nat : Fetching(c, n, v)
  BY <1>2, FetchFinds
<1>4. FetchedOf(s)
  BY <1>3, FetchTypes
<1> PICK evaled, a, b, d : /\ evaled = stream.evaled /\ a = stream.queue /\ b = Merged /\ d = LastCrons
  OBVIOUS
<1>5. /\ CronsTo(stream.fold, p) /\ Line(a, p, e, evaled)
      /\ \A key \in evaled : Shows(stream.fold, key.cron, key.time)
      /\ stream.last # <<>> => ShowsUpTo(stream.fold, stream.last[1])
      /\ NextPageAt(stream, e)
  BY DEF PassedTo
<1>6. PICK f \in Places : Line(b, e, f, evaled) /\ Ready(f, Last(Bounds).time, evaled)
  BY <1>1, <1>3, <1>5, MergedLine
<1>7. PICK g \in Places : Line(d, f, g, evaled) /\ (s.step = "fetch" => g = f)
  <2>1. CASE s.step = "fetch"
    <3>1. Page.more
      BY <1>4, <2>1 DEF FetchedOf
    <3>2. d = <<>>
      BY <3>1 DEF LastCrons
    <3>3. Line(<<>>, f, f, evaled)
      BY ReachesSelf DEF Line
    <3>4. QED
      BY <3>2, <3>3
  <2>2. CASE s.step # "fetch"
    BY <1>3, <1>6, <2>2, LastLine
  <2>3. QED
    BY <2>1, <2>2
<1>8. a \in Seq(Entries) /\ b \in Seq(Entries) /\ d \in Seq(Entries)
  <2>1. a \in Seq(Entries)
    BY <1>2 DEF Streams
  <2>2. \A i \in 1 .. v : Bounds[i + 1] \in Entries
    BY <1>2, <1>3, BoundsAre, SlotIs DEF Entries
  <2>3. \A i \in 1 .. v : Between(Bounds[i], Bounds[i + 1].time) \subseteq Entries
    BY BetweenAre
  <2>4. b \in Seq(Entries)
    BY <1>3, <2>2, <2>3, MergedType
  <2>5. d \in Seq(Between(Last(Bounds), stream.right))
    BY <1>3, LastCronsAre
  <2>6. Between(Last(Bounds), stream.right) \subseteq Entries
    BY BetweenAre
  <2>7. QED
    BY <2>1, <2>4, <2>5, <2>6, SeqGrows
<1>9. a \o b \in Seq(Entries)
  BY <1>8
<1>10. Line(a \o b, p, f, evaled)
  BY <1>5, <1>6, <1>8, LineConcat
<1>11. Line((a \o b) \o d, p, g, evaled)
  BY <1>7, <1>8, <1>9, <1>10, LineConcat
<1>12. /\ s.queue = (a \o b) \o d /\ s.evaled = evaled
       /\ s.fold = stream.fold /\ s.last = stream.last
  BY <1>4 DEF FetchedOf
<1>13. NextPageAt(s, g)
  <2> SUFFICES ASSUME s.step = "fetch"
               PROVE  /\ s.query.from = IF s.query.from = None THEN None ELSE s.prev.time
                      /\ s.query.from = None => s.prev.time = Origin.time
                      /\ Ready(g, s.prev.time, s.evaled)
    BY DEF NextPageAt
  <2>1. Whole /\ Page.more
    BY <1>4 DEF FetchedOf
  <2>2. v = n
    BY <1>3, <2>1 DEF Whole, Fetching, PageOf, TakenOf
  <2>3. n > 0
    BY <1>3, <2>1 DEF Fetching, PageOf, Streams, Queries
  <2>4. s.prev = Last(Bounds)
    BY <1>4 DEF FetchedOf
  <2>5. s.prev = Scheduled(Slot(c + v)) /\ c + v \in 0 .. Len(schedule)
    <3>1. v \in 1 .. v /\ v # 0
      BY <2>2, <2>3
    <3>2. QED
      BY <1>3, <2>4, <3>1, BoundsAre
  <2>6. s.prev.time = Slot(c + v).time /\ Slot(c + v).time \in Nat
    <3>1. Slot(c + v).time \in Nat
      BY <1>2, <2>5, SlotsInTurn
    <3>2. QED
      BY <2>5, <3>1 DEF Scheduled
  <2>7. s.query.from = Slot(c + v).time
    <3>1. s.query = NextQuery(stream.query, Page)
      BY <1>4 DEF FetchedOf
    <3>2. NextQuery(stream.query, Page).from = IF n = 0 THEN None ELSE Slot(c + n).time
      BY <1>3, NextQueryIs
    <3>3. QED
      BY <2>2, <2>3, <3>1, <3>2
  <2>8. s.query.from # None
    BY <2>6, <2>7 DEF None
  <2>9. Ready(g, s.prev.time, s.evaled)
    BY <1>6, <1>7, <1>12, <2>4
  <2>10. QED
    BY <2>6, <2>7, <2>8, <2>9
<1>14. PassedTo(s, p, g)
  BY <1>5, <1>11, <1>12, <1>13 DEF PassedTo
<1>15. QED
  BY <1>14

-----------------------------------------------------------------------------
(* A message that is passed.                                               *)

\* What was behind a place is behind the message that follows it.
LEMMA BehindMoves ==
    ASSUME NEW p \in Places, NEW m \in Entries, NEW evaled, Follows(m, p, evaled),
           NEW x \in Traces, Behind(x, p)
    PROVE  Behind(x, After(m))
<1> PICK t, s, a, r : t = m.time /\ s = Sec(m.time) /\ a = x.at /\ r = Sec(x.at)
  OBVIOUS
<1>1. /\ t \in Nat /\ s \in Nat /\ a \in Nat /\ r \in Nat
      /\ p.time \in Nat /\ p.next \in Nat /\ p.rank \in Nat
      /\ OnBlock(m.cron) => m.cron[2] \in Nat
      /\ OnBlock(x.cron) => x.cron[2] \in Nat
  <2>1. t \in Nat /\ (OnBlock(m.cron) => m.cron[2] \in Nat)
    BY AfterIs
  <2>2. a \in Nat /\ (OnBlock(x.cron) => x.cron[2] \in Nat)
    BY DEF Traces, CronNames, OnBlock
  <2>3. QED
    BY <2>1, <2>2, SecNat DEF Places
<1>2. /\ After(m).time = t
      /\ After(m).next = IF OnTime(m.cron) THEN s + 1 ELSE s
      /\ After(m).rank = IF OnBlock(m.cron) THEN m.cron[2] ELSE 0
  BY DEF After, PlaceOf
<1>3. p.time <= t /\ p.next <= s + 1
  BY DEF Follows, Ready
<1>4. ASSUME x.cron # NoCron PROVE a <= t
  BY <1>1, <1>3, <1>4 DEF Behind
<1>5. ASSUME OnTime(x.cron)
      PROVE  x.cron = Clock /\ Ticking(r) /\ (r < After(m).next \/ Crowded(r))
  <2>1. x.cron = Clock /\ Ticking(r) /\ (r < p.next \/ Crowded(r))
    BY <1>5 DEF Behind, OnTime
  <2>2. CASE OnTime(m.cron)
    BY <1>1, <1>2, <1>3, <2>1, <2>2
  <2>3. CASE OnBlock(m.cron)
    <3>1. p.next <= s /\ ~ OnTime(m.cron)
      BY <2>3 DEF Follows, OnBlock, OnTime
    <3>2. QED
      BY <1>1, <1>2, <2>1, <3>1
  <2>4. CASE m.cron = NoCron
    <3>1. Crowded(s) \/ ~ Ticking(s)
      BY <2>4 DEF Follows
    <3>2. After(m).next = s
      BY <1>2, <2>4 DEF OnTime
    <3>3. r < s \/ r = s \/ Crowded(r)
      BY <1>1, <1>3, <2>1
    <3>4. QED
      BY <2>1, <3>1, <3>2, <3>3
  <2>5. m.cron = NoCron \/ OnTime(m.cron) \/ OnBlock(m.cron)
    BY AfterIs DEF CronNames, OnTime, OnBlock
  <2>6. QED
    BY <2>2, <2>3, <2>4, <2>5
<1>6. ASSUME OnBlock(x.cron)
      PROVE  /\ a % TicksPerSecond = 0
             /\ a < After(m).time \/ After(m).rank = 0 \/ x.cron[2] <= After(m).rank
  <2>1. /\ a % TicksPerSecond = 0 /\ a <= p.time
        /\ a < p.time \/ p.rank = 0 \/ x.cron[2] <= p.rank
    BY <1>6 DEF Behind, OnBlock
  <2>2. CASE OnBlock(m.cron)
    <3>1. p.time < t \/ (p.rank # 0 /\ p.rank < m.cron[2])
      BY <2>2 DEF Follows
    <3>2. a < t \/ x.cron[2] <= m.cron[2]
      BY <1>1, <1>3, <1>6, <2>1, <2>2, <3>1
    <3>3. QED
      BY <1>2, <2>1, <2>2, <3>2
  <2>3. CASE ~ OnBlock(m.cron)
    BY <1>2, <2>1, <2>3
  <2>4. QED
    BY <2>2, <2>3
<1>7. QED
  BY <1>2, <1>4, <1>5, <1>6 DEF Behind

\* An instant that the message has passed was before it, or is its own.
LEMMA CoverMoves ==
    ASSUME NEW p \in Places, NEW m \in Entries, NEW evaled, Follows(m, p, evaled),
           NEW second \in Int, second < After(m).next, Ticking(second)
    PROVE  second < p.next \/ (OnTime(m.cron) /\ second = Sec(m.time))
<1>1. p.next \in Nat /\ Sec(m.time) \in Nat
  BY AfterIs, SecNat DEF Places
<1>2. After(m).next = IF OnTime(m.cron) THEN Sec(m.time) + 1 ELSE Sec(m.time)
  BY DEF After, PlaceOf
<1>3. ASSUME p.next <= second, second < Sec(m.time) PROVE FALSE
  <2>1. Quiet(p.next, Sec(m.time))
    BY DEF Follows, Ready
  <2>2. second \in p.next .. Sec(m.time) - 1
    BY <1>1, <1>3
  <2>3. QED
    BY <2>1, <2>2 DEF Quiet
<1>4. QED
  BY <1>1, <1>2, <1>3

\* A message that adds nothing, as it is no cron or was shown before.
LEMMA SkipCrons ==
    ASSUME NEW p \in Places, NEW m \in Entries, NEW evaled, Follows(m, p, evaled),
           NEW fold \in Seq(Traces), CronsTo(fold, p),
           m.cron # NoCron => Shows(fold, m.cron, m.time)
    PROVE  CronsTo(fold, After(m))
<1>1. ASSUME NEW i \in DOMAIN fold PROVE Behind(fold[i], After(m))
  <2>1. fold[i] \in Traces
    OBVIOUS
  <2>2. Behind(fold[i], p)
    BY DEF CronsTo
  <2>3. QED
    BY <2>1, <2>2, BehindMoves
<1>2. ASSUME NEW second \in Sec(Origin.time) .. After(m).next - 1, Ticking(second)
      PROVE  \E i \in DOMAIN fold : OnTime(fold[i].cron) /\ Sec(fold[i].at) = second
  <2>1. /\ Sec(Origin.time) \in Nat /\ p.next \in Nat /\ After(m).next \in Nat
    BY AfterIs, SecNat, MessagesAssumption DEF Places
  <2>2. second \in Int /\ second < After(m).next
    BY <2>1
  <2>3. CASE second < p.next
    <3>1. second \in Sec(Origin.time) .. p.next - 1
      BY <2>1, <2>3
    <3>2. QED
      BY <1>2, <3>1 DEF CronsTo
  <2>4. CASE OnTime(m.cron) /\ second = Sec(m.time)
    BY <2>4 DEF OnTime, Shows
  <2>5. QED
    BY <1>2, <2>2, <2>3, <2>4, CoverMoves
<1>3. QED
  BY <1>1, <1>2 DEF CronsTo

\* What is shown, and one more.
LEMMA AppendIs ==
    ASSUME NEW fold \in Seq(Traces), NEW x \in Traces
    PROVE  LET longer == Append(fold, x)
           IN  /\ longer \in Seq(Traces) /\ Len(fold) \in Nat
               /\ DOMAIN fold = 1 .. Len(fold) /\ DOMAIN longer = 1 .. Len(fold) + 1
               /\ longer[Len(fold) + 1] = x
               /\ \A i \in 1 .. Len(fold) : longer[i] = fold[i]
<1>1. \A S : \A s \in Seq(S) : \A y \in S :
            /\ Append(s, y) \in Seq(S) /\ Len(s) \in Nat
            /\ DOMAIN s = 1 .. Len(s)
            /\ DOMAIN Append(s, y) = 1 .. Len(s) + 1 /\ Append(s, y)[Len(s) + 1] = y
            /\ \A i \in 1 .. Len(s) : Append(s, y)[i] = s[i]
  OBVIOUS
<1>2. QED
  BY <1>1

\* A message that is shown.
LEMMA EvaluateCrons ==
    ASSUME NEW p \in Places, NEW m \in Entries, NEW evaled, Follows(m, p, evaled),
           NEW fold \in Seq(Traces), CronsTo(fold, p),
           m.cron # NoCron => [cron |-> m.cron, time |-> m.time] \notin evaled
    PROVE  CronsTo(Append(fold, Trace(m)), After(m))
<1> PICK t, s, x, n, longer : /\ t = m.time /\ s = Sec(m.time) /\ x = Trace(m)
                              /\ n = Len(fold) /\ longer = Append(fold, x)
  OBVIOUS
<1>1. x \in Traces /\ x.cron = m.cron /\ (m.cron # NoCron => x.at = t)
  <2>1. m.time \in Nat /\ m.ordinate \in Nat /\ m.cron \in {NoCron} \cup CronNames
    BY DEF Entries, Messages, Instants, CronNames
  <2>2. QED
    BY <2>1 DEF Trace, Traces, IsCron
<1>2. /\ n \in Nat /\ DOMAIN fold = 1 .. n /\ DOMAIN longer = 1 .. n + 1
      /\ longer[n + 1] = x /\ \A i \in 1 .. n : longer[i] = fold[i] /\ fold[i] \in Traces
  BY <1>1, AppendIs
<1>3. /\ t \in Nat /\ s \in Nat /\ p.time \in Nat /\ p.next \in Nat /\ p.rank \in Nat
      /\ p.time <= t /\ p.next <= s + 1
      /\ OnBlock(m.cron) => m.cron[2] \in Nat
  BY AfterIs, SecNat DEF Places, Follows, Ready
<1>4. ASSUME m.cron # NoCron PROVE Behind(x, After(m))
  <2>1. /\ After(m).time = t
        /\ After(m).next = IF OnTime(m.cron) THEN s + 1 ELSE s
        /\ After(m).rank = IF OnBlock(m.cron) THEN m.cron[2] ELSE 0
    BY DEF After, PlaceOf
  <2>2. x.at = t /\ t <= t
    BY <1>1, <1>3, <1>4
  <2>3. OnTime(m.cron) => m.cron = Clock /\ Ticking(s) /\ s < s + 1
    BY <1>3 DEF Follows
  <2>4. OnBlock(m.cron) => t % TicksPerSecond = 0 /\ m.cron[2] <= m.cron[2]
    BY <1>3 DEF Follows
  <2>5. QED
    BY <1>1, <2>1, <2>2, <2>3, <2>4 DEF Behind
<1>5. ASSUME NEW i \in 1 .. n + 1 PROVE Behind(longer[i], After(m))
  <2>1. CASE i = n + 1
    BY <1>1, <1>2, <1>4, <2>1 DEF Behind
  <2>2. CASE i # n + 1
    <3>1. i \in 1 .. n
      BY <1>2, <2>2
    <3>2. longer[i] = fold[i] /\ fold[i] \in Traces /\ Behind(fold[i], p)
      BY <1>2, <3>1 DEF CronsTo
    <3>3. QED
      BY <3>2, BehindMoves
  <2>3. QED
    BY <2>1, <2>2
<1>6. ASSUME NEW i \in 1 .. n, fold[i].cron # NoCron, m.cron # NoCron PROVE InTurn(fold[i], x)
  <2> PICK y, a, r : y = fold[i] /\ a = y.at /\ r = Sec(a)
    OBVIOUS
  <2>1. y \in Traces /\ Behind(y, p) /\ y.cron # NoCron /\ x.at = t
    BY <1>1, <1>2, <1>6 DEF CronsTo
  <2>2. a \in Nat /\ r \in Nat /\ a <= p.time
    BY <2>1, SecNat DEF Traces, Behind
  <2>3. a <= t
    BY <1>3, <2>2
  <2>4. ASSUME OnTime(y.cron), OnTime(m.cron) PROVE r < s \/ Crowded(r)
    <3>1. r < p.next \/ Crowded(r)
      BY <2>1, <2>4 DEF Behind
    <3>2. CASE r < s \/ Crowded(r)
      BY <3>2
    <3>3. CASE ~ (r < s) /\ r < p.next
      <4>1. r = s /\ ~ (p.next <= s)
        BY <1>3, <2>2, <3>3
      <4>2. m.cron = Clock /\ Ticking(s)
        BY <2>4 DEF Follows
      <4>3. p.next <= s \/ ~ Ticking(s) \/ Again(t, evaled)
        BY DEF Follows, Ready
      <4>4. [cron |-> Clock, time |-> t] \notin evaled
        BY <1>6, <4>2
      <4>5. QED
        BY <4>1, <4>2, <4>3, <4>4 DEF Again
    <3>4. QED
      BY <3>1, <3>2, <3>3
  <2>5. ASSUME OnBlock(y.cron), y.cron = m.cron PROVE a < t
    <3>1. a < p.time \/ p.rank = 0 \/ y.cron[2] <= p.rank
      BY <2>1, <2>5 DEF Behind
    <3>2. p.time < t \/ (p.rank # 0 /\ p.rank < m.cron[2])
      BY <2>5 DEF Follows
    <3> PICK k, h, u : k = m.cron[2] /\ h = p.rank /\ u = p.time
      OBVIOUS
    <3>3. k \in Nat /\ y.cron[2] = k
      BY <1>3, <2>5
    <3>4. /\ a < u \/ h = 0 \/ k <= h
          /\ u < t \/ (h # 0 /\ h < k)
          /\ a \in Nat /\ u \in Nat /\ h \in Nat /\ t \in Nat /\ a <= u /\ u <= t
      BY <1>3, <2>2, <3>1, <3>2, <3>3
    <3>5. QED
      BY <3>3, <3>4
  <2>6. QED
    BY <1>1, <2>1, <2>3, <2>4, <2>5 DEF InTurn
<1>7. ASSUME NEW i \in 1 .. n + 1, NEW j \in 1 .. n + 1, i < j PROVE InTurn(longer[i], longer[j])
  <2>1. i \in 1 .. n
    BY <1>2, <1>7
  <2>2. CASE j = n + 1
    <3>1. longer[i] = fold[i] /\ longer[j] = x
      BY <1>2, <2>1, <2>2
    <3>2. CASE fold[i].cron # NoCron /\ m.cron # NoCron
      BY <1>6, <2>1, <3>1, <3>2
    <3>3. CASE ~ (fold[i].cron # NoCron /\ m.cron # NoCron)
      BY <1>1, <3>1, <3>3 DEF InTurn
    <3>4. QED
      BY <3>2, <3>3
  <2>3. CASE j # n + 1
    <3>1. j \in 1 .. n
      BY <1>2, <2>3
    <3>2. InTurn(fold[i], fold[j])
      BY <1>2, <1>7, <2>1, <3>1 DEF CronsTo
    <3>3. QED
      BY <1>2, <2>1, <3>1, <3>2
  <2>4. QED
    BY <2>2, <2>3
<1>8. ASSUME NEW second \in Sec(Origin.time) .. After(m).next - 1, Ticking(second)
      PROVE  \E i \in 1 .. n + 1 : OnTime(longer[i].cron) /\ Sec(longer[i].at) = second
  <2>1. Sec(Origin.time) \in Nat /\ p.next \in Nat /\ After(m).next \in Nat
    BY AfterIs, SecNat, MessagesAssumption DEF Places
  <2>2. second \in Int /\ second < After(m).next
    BY <2>1
  <2>3. CASE second < p.next
    <3>1. second \in Sec(Origin.time) .. p.next - 1
      BY <2>1, <2>3
    <3>2. PICK i \in 1 .. n : OnTime(fold[i].cron) /\ Sec(fold[i].at) = second
      BY <1>2, <1>8, <3>1 DEF CronsTo
    <3>3. i \in 1 .. n + 1 /\ longer[i] = fold[i]
      BY <1>2
    <3>4. QED
      BY <3>2, <3>3
  <2>4. CASE OnTime(m.cron) /\ second = s
    <3>1. m.cron # NoCron /\ n + 1 \in 1 .. n + 1
      BY <1>2, <2>4 DEF OnTime
    <3>2. OnTime(longer[n + 1].cron) /\ Sec(longer[n + 1].at) = second
      BY <1>1, <1>2, <2>4, <3>1
    <3>3. QED
      BY <3>1, <3>2
  <2>5. second < p.next \/ (OnTime(m.cron) /\ second = s)
    BY <1>8, <2>2, CoverMoves
  <2>6. QED
    BY <2>3, <2>4, <2>5
<1>9. CronsTo(longer, After(m))
  BY <1>2, <1>5, <1>7, <1>8 DEF CronsTo
<1>10. QED
  BY <1>9

\* What the stream passes keeps what it has in its queue.
LEMMA PassLines ==
    ASSUME NEW q \in Seq(Entries), q # <<>>, NEW p \in Places, NEW e \in Places,
           PassedTo(stream, p, e), stream.queue = q, NEW m \in Entries, m = Head(q),
           NEW s, s.queue = Tail(q), s.evaled = Knows(m),
           s.step = stream.step, s.query = stream.query, s.prev = stream.prev
    PROVE  /\ Follows(m, p, stream.evaled)
           /\ Line(s.queue, After(m), e, s.evaled)
           /\ NextPageAt(s, e)
<1> PICK evaled, more : evaled = stream.evaled /\ more = Knows(m)
  OBVIOUS
<1>1. evaled \subseteq more
  BY DEF Knows
<1>2. Line(q, p, e, evaled) /\ NextPageAt(stream, e)
  BY DEF PassedTo
<1>3. Follows(m, p, evaled) /\ Line(Tail(q), After(m), e, evaled)
  BY <1>2, LineTail
<1>4. Line(Tail(q), After(m), e, more)
  BY <1>1, <1>3, LineGrows
<1>5. ASSUME NEW time, Ready(e, time, evaled) PROVE Ready(e, time, more)
  BY <1>1, <1>5 DEF Ready, Again
<1>6. NextPageAt(s, e)
  BY <1>2, <1>5 DEF NextPageAt
<1>7. QED
  BY <1>3, <1>4, <1>6

LEMMA SkipLine ==
    ASSUME TypeInv, Skip, NEW p \in Places, NEW e \in Places, PassedTo(stream, p, e),
           NEW s, s = stream'
    PROVE  \E k \in Places : PassedTo(s, k, e)
<1> PICK m, q : m = Head(stream.queue) /\ q = stream.queue
  OBVIOUS
<1>1. stream # NoStream /\ q # <<>> /\ IsDuplicate(m) /\ s = Passed(m)
  BY DEF Skip
<1>2. StreamTyped /\ stream \in Streams
  BY <1>1 DEF TypeInv, StreamTyped
<1>3. PassedOf(s, m)
  BY <1>1, <1>2, PassedIs
<1>4. m \in Entries /\ q \in Seq(Entries) /\ stream.fold \in Seq(Traces)
  BY <1>1, <1>2, HeadIs DEF Streams
<1>5. /\ s.queue = Tail(q) /\ s.evaled = Knows(m) /\ s.fold = stream.fold /\ s.last = stream.last
      /\ s.step = stream.step /\ s.query = stream.query /\ s.prev = stream.prev
  BY <1>3 DEF PassedOf
<1>6. /\ Follows(m, p, stream.evaled)
      /\ Line(s.queue, After(m), e, s.evaled)
      /\ NextPageAt(s, e)
  BY <1>1, <1>4, <1>5, PassLines
<1>7. /\ CronsTo(stream.fold, p)
      /\ \A key \in stream.evaled : Shows(stream.fold, key.cron, key.time)
      /\ stream.last # <<>> => ShowsUpTo(stream.fold, stream.last[1])
  BY DEF PassedTo
<1>8. m.cron # NoCron => [cron |-> m.cron, time |-> m.time] \in stream.evaled
  BY <1>1 DEF IsDuplicate, IsCron
<1>9. m.cron # NoCron => Shows(stream.fold, m.cron, m.time)
  <2>1. \A c, t : [cron |-> c, time |-> t].cron = c /\ [cron |-> c, time |-> t].time = t
    OBVIOUS
  <2>2. QED
    BY <1>7, <1>8, <2>1
<1>10. CronsTo(s.fold, After(m))
  BY <1>4, <1>5, <1>6, <1>7, <1>9, SkipCrons
<1>11. s.evaled = stream.evaled
  BY <1>5, <1>8 DEF Knows, IsCron
<1>12. PassedTo(s, After(m), e)
  BY <1>5, <1>6, <1>7, <1>10, <1>11 DEF PassedTo
<1>13. QED
  BY <1>4, <1>12, AfterIs

LEMMA EvaluateLine ==
    ASSUME TypeInv, Evaluate, NEW p \in Places, NEW e \in Places, PassedTo(stream, p, e),
           NEW s, s = stream'
    PROVE  \E k \in Places : PassedTo(s, k, e)
<1> PICK m, q, fold : m = Head(stream.queue) /\ q = stream.queue /\ fold = stream.fold
  OBVIOUS
<1>1. StreamTyped
  BY DEF TypeInv
<1>2. stream # NoStream /\ q # <<>> /\ ~ IsDuplicate(m) /\ EvaluatedOf(s, m)
  BY <1>1, EvaluateIs
<1>3. stream \in Streams
  BY <1>1, <1>2 DEF StreamTyped
<1>4. m \in Entries /\ q \in Seq(Entries) /\ fold \in Seq(Traces)
  BY <1>1, <1>2, <1>3, HeadIs DEF Streams
<1>5. /\ s.queue = Tail(q) /\ s.evaled = Knows(m) /\ s.last = <<m>>
      /\ s.fold = IF Fails(m) THEN fold ELSE Append(fold, Trace(m))
      /\ s.step = stream.step /\ s.query = stream.query /\ s.prev = stream.prev
  BY <1>2 DEF EvaluatedOf
<1>6. /\ Follows(m, p, stream.evaled)
      /\ Line(s.queue, After(m), e, s.evaled)
      /\ NextPageAt(s, e)
  BY <1>2, <1>4, <1>5, PassLines
<1>7. CronsTo(fold, p) /\ \A key \in stream.evaled : Shows(fold, key.cron, key.time)
  BY DEF PassedTo
<1>8. m.cron # NoCron => [cron |-> m.cron, time |-> m.time] \notin stream.evaled
  BY <1>2 DEF IsDuplicate, IsCron
<1>9. CronsTo(s.fold, After(m))
  <2>1. CASE Fails(m)
    <3>1. m.cron = NoCron
      BY <2>1 DEF Fails, IsCron
    <3>2. QED
      BY <1>4, <1>5, <1>6, <1>7, <2>1, <3>1, SkipCrons
  <2>2. CASE ~ Fails(m)
    <3>1. CronsTo(Append(fold, Trace(m)), After(m))
      BY <1>4, <1>6, <1>7, <1>8, EvaluateCrons
    <3>2. QED
      BY <1>5, <2>2, <3>1
  <2>3. QED
    BY <2>1, <2>2
<1>10. /\ m.cron # NoCron => Shows(s.fold, m.cron, m.time)
       /\ \A cron, time : Shows(fold, cron, time) => Shows(s.fold, cron, time)
  <2>1. CASE Fails(m)
    BY <1>5, <2>1 DEF Fails, IsCron
  <2>2. CASE ~ Fails(m)
    <3> PICK x, n, longer : x = Trace(m) /\ n = Len(fold) /\ longer = s.fold
      OBVIOUS
    <3>1. longer = Append(fold, x)
      BY <1>5, <2>2
    <3>2. x \in Traces /\ x.cron = m.cron /\ (m.cron # NoCron => x.at = m.time)
      <4>1. m.time \in Nat /\ m.ordinate \in Nat /\ m.cron \in {NoCron} \cup CronNames
        BY <1>4 DEF Entries, Messages, Instants, CronNames
      <4>2. QED
        BY <4>1 DEF Trace, Traces, IsCron
    <3>3. /\ n \in Nat /\ DOMAIN fold = 1 .. n /\ DOMAIN longer = 1 .. n + 1
          /\ longer[n + 1] = x /\ \A i \in 1 .. n : longer[i] = fold[i]
      BY <1>4, <3>1, <3>2, AppendIs
    <3>4. n + 1 \in 1 .. n + 1 /\ \A i \in 1 .. n : i \in 1 .. n + 1
      BY <3>3
    <3>5. QED
      BY <3>2, <3>3, <3>4 DEF Shows
  <2>3. QED
    BY <2>1, <2>2
<1>11. ASSUME NEW key \in s.evaled PROVE Shows(s.fold, key.cron, key.time)
  <2>1. key \in stream.evaled \/ (m.cron # NoCron /\ key = [cron |-> m.cron, time |-> m.time])
    BY <1>5 DEF Knows, IsCron
  <2>2. QED
    BY <1>7, <1>10, <2>1
<1>12. ShowsUpTo(s.fold, m)
  BY <1>9, <1>10 DEF ShowsUpTo
<1>13. s.last[1] = m
  BY <1>5
<1>14. PassedTo(s, After(m), e)
  BY <1>6, <1>9, <1>11, <1>12, <1>13 DEF PassedTo
<1>15. QED
  BY <1>4, <1>14, AfterIs

-----------------------------------------------------------------------------
(* The crons of a memory.                                                  *)

LEMMA BeginLine ==
    ASSUME TypeInv, CronInv, NEW memory \in saves \cup {Cold}, NEW to, NEW right, NEW s,
           BegunOf(s, memory, to, right)
    PROVE  \E p \in Places : PassedTo(s, p, p)
<1> PICK t, p : t = LeftMost(memory).time /\ p = PlaceOf(memory.cron, t)
  OBVIOUS
<1>1. /\ s.queue = <<>> /\ s.last = <<>> /\ s.fold = memory.fold /\ s.evaled = Seed(memory)
      /\ s.prev.time = t /\ s.query.from = memory.time
  BY DEF BegunOf
<1>2. /\ t \in Nat /\ t = IF memory.time = None THEN Origin.time ELSE memory.time
      /\ memory.cron # NoCron => memory.cron \in CronNames /\ memory.time \in Nat
      /\ memory.time = None <=> memory = Cold
  BY StartIs
<1>3. Sec(t) \in Nat
  BY <1>2, SecNat
<1>4. /\ p.time = t
      /\ p.next = IF OnTime(memory.cron) THEN Sec(t) + 1 ELSE Sec(t)
      /\ p \in Places
  <2>1. /\ p.time = t
        /\ p.next = IF OnTime(memory.cron) THEN Sec(t) + 1 ELSE Sec(t)
        /\ p.rank = IF OnBlock(memory.cron) THEN memory.cron[2] ELSE 0
    BY DEF PlaceOf
  <2>2. OnBlock(memory.cron) => memory.cron[2] \in Nat
    BY <1>2 DEF OnBlock, CronNames
  <2>3. p.next \in Nat /\ p.rank \in Nat
    BY <1>3, <2>1, <2>2
  <2>4. QED
    BY <1>2, <2>1, <2>3 DEF Places, PlaceOf
<1>5. ASSUME memory # Cold
      PROVE  CronsTo(memory.fold, p) /\ (memory.cron # NoCron => Shows(memory.fold, memory.cron, t))
  <2>1. memory \in saves /\ t = memory.time
    BY <1>2, <1>5
  <2>2. ShowsUpTo(memory.fold, memory)
    BY <2>1 DEF CronInv
  <2>3. QED
    BY <2>1, <2>2 DEF ShowsUpTo, After
<1>6. ASSUME memory = Cold
      PROVE  CronsTo(memory.fold, p) /\ memory.cron = NoCron /\ t = Origin.time
  <2>1. memory.fold = <<>> /\ memory.cron = NoCron /\ t = Origin.time
    BY <1>2, <1>6 DEF Cold
  <2>2. p.next = Sec(Origin.time)
    BY <1>4, <2>1 DEF OnTime
  <2>3. ~ \E second : second \in Sec(Origin.time) .. p.next - 1
    BY <1>3, <2>1, <2>2
  <2>4. QED
    BY <2>1, <2>3 DEF CronsTo
<1>7. CronsTo(s.fold, p)
  BY <1>1, <1>5, <1>6
<1>8. ASSUME NEW key \in s.evaled PROVE Shows(s.fold, key.cron, key.time)
  <2>1. memory.cron # NoCron /\ key = [cron |-> memory.cron, time |-> memory.time]
    BY <1>1, <1>8 DEF Seed
  <2>2. memory # Cold
    BY <1>6, <2>1
  <2>3. t = memory.time
    BY <1>2, <2>2
  <2>4. QED
    BY <1>1, <1>5, <2>1, <2>2, <2>3
<1>9. Ready(p, t, s.evaled)
  <2>1. Quiet(p.next, Sec(t))
    BY <1>3, <1>4, QuietNone
  <2>2. CASE OnTime(memory.cron)
    <3>1. memory.cron # NoCron /\ memory # Cold
      BY <1>6, <2>2 DEF OnTime
    <3>2. PICK i \in DOMAIN memory.fold : memory.fold[i].cron = memory.cron
      BY <1>5, <3>1 DEF Shows
    <3>3. Behind(memory.fold[i], p)
      BY <1>5, <3>1 DEF CronsTo
    <3>4. memory.cron = Clock /\ memory.time = t
      BY <1>2, <2>2, <3>1, <3>2, <3>3 DEF Behind
    <3>5. [cron |-> Clock, time |-> t] \in s.evaled
      BY <1>1, <3>1, <3>4 DEF Seed
    <3>6. QED
      BY <1>2, <1>3, <1>4, <2>1, <3>5 DEF Ready, Again
  <2>3. CASE ~ OnTime(memory.cron)
    BY <1>2, <1>3, <1>4, <2>1, <2>3 DEF Ready
  <2>4. QED
    BY <2>2, <2>3
<1>10. NextPageAt(s, p)
  BY <1>1, <1>2, <1>9 DEF NextPageAt
<1>11. Line(s.queue, p, p, s.evaled)
  BY <1>1, <1>4, ReachesSelf DEF Line
<1>12. PassedTo(s, p, p)
  BY <1>1, <1>7, <1>8, <1>10, <1>11 DEF PassedTo
<1>13. QED
  BY <1>4, <1>12

LEMMA ResultLine ==
    ASSUME CronInv, Finish, stream.last # <<>>
    PROVE  ShowsUpTo(Result.fold, Result)
<1> PICK m : m = stream.last[1]
  OBVIOUS
<1>1. stream # NoStream
  <2>1. stream.step = "drain" /\ NoStream.step = "none"
    BY DEF Finish, NoStream
  <2>2. QED
    BY <2>1
<1>2. ShowsUpTo(stream.fold, m)
  BY <1>1 DEF CronInv, PassedTo
<1>3. Result.fold = stream.fold /\ Result.cron = m.cron /\ Result.time = m.time
  BY DEF Result
<1>4. QED
  BY <1>2, <1>3 DEF ShowsUpTo, After

\* What is kept when the schedule has grown by what is pending, or not at all.
LEMMA CronsKept ==
    ASSUME CrowdedGrows, SinceOrigin', pending' # <<>> => Origin.time <= pending[1].time',
           NEW S, S = saves', \A memory \in S : ShowsUpTo(memory.fold, memory),
           NEW s, s = stream', s # NoStream => \E p, e \in Places : PassedTo(s, p, e)
    PROVE  CronInv'
<1>1. \A memory \in S : ShowsUpTo(memory.fold, memory)'
  BY ShownStays
<1>2. s # NoStream => \E p, e \in Places : PassedTo(s, p, e)'
  BY PassedStays
<1>3. QED
  BY <1>1, <1>2 DEF CronInv

LEMMA CronInit == Init => CronInv
<1> SUFFICES ASSUME Init PROVE CronInv
  OBVIOUS
<1>1. schedule = <<>> /\ pending = <<>> /\ saves = {} /\ stream = NoStream
  BY DEF Init
<1>2. ~ \E i : i \in 1 .. Len(schedule)
  BY <1>1
<1>3. QED
  BY <1>1, <1>2 DEF CronInv, SinceOrigin

LEMMA CronNext ==
    ASSUME OneClock, BlocksOnSeconds
    PROVE  TypeInv /\ CronInv /\ [Next]_vars => CronInv'
<1> SUFFICES ASSUME TypeInv, CronInv, [Next]_vars PROVE CronInv'
  OBVIOUS
<1> PICK s, S : s = stream' /\ S = saves'
  OBVIOUS
<1>1. /\ SinceOrigin
      /\ pending # <<>> => Origin.time <= pending[1].time
      /\ \A memory \in saves : ShowsUpTo(memory.fold, memory)
      /\ stream # NoStream => \E p, e \in Places : PassedTo(stream, p, e)
  BY DEF CronInv
<1>2. ASSUME schedule' = schedule, pending' = pending,
             \A memory \in S : ShowsUpTo(memory.fold, memory),
             s # NoStream => \E p, e \in Places : PassedTo(s, p, e)
      PROVE  CronInv'
  <2>1. CrowdedGrows
    BY <1>2 DEF CrowdedGrows, Crowded
  <2>2. SinceOrigin' /\ (pending' # <<>> => Origin.time <= pending[1].time')
    BY <1>1, <1>2 DEF SinceOrigin
  <2>3. QED
    BY <1>2, <2>1, <2>2, CronsKept
<1>3. CASE UNCHANGED vars
  BY <1>1, <1>2, <1>3 DEF vars
<1>4. CASE Tick
  BY <1>1, <1>2, <1>4 DEF Tick
<1>5. CASE \E item \in Items : Schedule(item)
  <2>1. PICK item \in Items : Schedule(item)
    BY <1>5
  <2>2. /\ schedule' = schedule /\ saves' = saves /\ stream' = stream
        /\ pending' # <<>> => pending[1].time' = now
    BY <2>1 DEF Schedule
  <2>3. CrowdedGrows
    BY <2>2 DEF CrowdedGrows, Crowded
  <2>4. SinceOrigin' /\ (pending' # <<>> => Origin.time <= pending[1].time')
    BY <1>1, <2>2 DEF SinceOrigin, TypeInv
  <2>5. QED
    BY <1>1, <2>2, <2>3, <2>4, CronsKept
<1>6. CASE Commit
  <2>1. /\ pending # <<>> /\ schedule' = schedule \o pending /\ pending' = <<>>
        /\ saves' = saves /\ stream' = stream
    BY <1>6 DEF Commit
  <2> PICK a, z : a = pending[1] /\ z = schedule'
    OBVIOUS
  <2>2. a \in Assignments /\ pending = <<a>> /\ schedule \in Seq(Assignments)
    BY <2>1 DEF TypeInv, InSchedule
  <2>3. /\ Len(z) = Len(schedule) + 1 /\ Len(schedule) \in Nat
        /\ DOMAIN z = 1 .. Len(z) /\ DOMAIN schedule = 1 .. Len(schedule)
        /\ z[Len(z)] = a /\ \A i \in 1 .. Len(schedule) : z[i] = schedule[i]
    <3>1. \A T : \A q \in Seq(T) : \A x \in T :
              /\ Len(q) \in Nat /\ DOMAIN q = 1 .. Len(q)
              /\ DOMAIN (q \o <<x>>) = 1 .. Len(q) + 1 /\ Len(q \o <<x>>) = Len(q) + 1
              /\ (q \o <<x>>)[Len(q) + 1] = x /\ \A i \in 1 .. Len(q) : (q \o <<x>>)[i] = q[i]
      OBVIOUS
    <3>2. QED
      BY <2>1, <2>2, <3>1
  <2>4. CrowdedGrows
    <3>1. ASSUME NEW i \in DOMAIN schedule PROVE i \in DOMAIN z /\ z[i] = schedule[i]
      BY <2>3
    <3>2. QED
      BY <3>1 DEF CrowdedGrows, Crowded
  <2>5. ASSUME NEW i \in 1 .. Len(z) PROVE Origin.time <= z[i].time
    <3>1. i = Len(z) \/ i \in 1 .. Len(schedule)
      BY <2>3
    <3>2. QED
      BY <1>1, <2>1, <2>3, <3>1 DEF SinceOrigin
  <2>6. SinceOrigin' /\ (pending' # <<>> => Origin.time <= pending[1].time')
    BY <2>1, <2>5 DEF SinceOrigin
  <2>7. QED
    BY <1>1, <2>1, <2>4, <2>6, CronsKept
<1>7. CASE \E b \in Blocks : SaveBlock(b)
  BY <1>1, <1>2, <1>7 DEF SaveBlock
<1>8. CASE \E memory \in saves \cup {Cold}, to \in {None} \cup Origin.time .. now : Begin(memory, to)
  <2>1. PICK memory \in saves \cup {Cold}, to \in {None} \cup Origin.time .. now : Begin(memory, to)
    BY <1>8
  <2>2. PICK right : BegunOf(s, memory, to, right)
    BY <2>1, BeginIs
  <2>3. schedule' = schedule /\ pending' = pending /\ S = saves
    BY <2>1 DEF Begin
  <2>4. \E p \in Places : PassedTo(s, p, p)
    BY <2>2, BeginLine
  <2>5. QED
    BY <1>1, <1>2, <2>3, <2>4
<1>9. CASE Fetch
  <2>1. stream # NoStream /\ schedule' = schedule /\ pending' = pending /\ S = saves
    <3>1. stream.step = "fetch" /\ NoStream.step = "none"
      BY <1>9 DEF Fetch, NoStream
    <3>2. schedule' = schedule /\ pending' = pending /\ S = saves
      BY <1>9 DEF Fetch
    <3>3. QED
      BY <3>1, <3>2
  <2>2. PICK p \in Places, e \in Places : PassedTo(stream, p, e)
    BY <1>1, <2>1
  <2>3. \E f \in Places : PassedTo(s, p, f)
    BY <1>1, <1>9, <2>2, FetchLine
  <2>4. QED
    BY <1>1, <1>2, <2>1, <2>3
<1>10. CASE Skip
  <2>1. stream # NoStream /\ schedule' = schedule /\ pending' = pending /\ S = saves
    BY <1>10 DEF Skip
  <2>2. PICK p \in Places, e \in Places : PassedTo(stream, p, e)
    BY <1>1, <2>1
  <2>3. \E k \in Places : PassedTo(s, k, e)
    BY <1>10, <2>2, SkipLine
  <2>4. QED
    BY <1>1, <1>2, <2>1, <2>3
<1>11. CASE Evaluate
  <2>1. stream # NoStream /\ schedule' = schedule /\ pending' = pending /\ S = saves
    BY <1>11 DEF Evaluate
  <2>2. PICK p \in Places, e \in Places : PassedTo(stream, p, e)
    BY <1>1, <2>1
  <2>3. \E k \in Places : PassedTo(s, k, e)
    BY <1>11, <2>2, EvaluateLine
  <2>4. QED
    BY <1>1, <1>2, <2>1, <2>3
<1>12. CASE Finish
  <2>1. /\ schedule' = schedule /\ pending' = pending /\ s = NoStream
        /\ S = IF stream.last = <<>> \/ stream.fold = <<>> THEN saves ELSE saves \cup {Result}
    BY <1>12 DEF Finish
  <2>2. stream.last # <<>> => ShowsUpTo(Result.fold, Result)
    BY <1>12, ResultLine
  <2>3. \A memory \in S : ShowsUpTo(memory.fold, memory)
    BY <1>1, <2>1, <2>2
  <2>4. QED
    BY <1>2, <2>1, <2>3
<1>13. CASE Fail
  BY <1>1, <1>2, <1>13 DEF Fail
<1>14. QED
  BY <1>3, <1>4, <1>5, <1>6, <1>7, <1>8, <1>9, <1>10, <1>11, <1>12, <1>13 DEF Next

LEMMA CountIs ==
    ASSUME NEW n \in Nat, NEW U \in SUBSET (1 .. n)
    PROVE  /\ Cardinality(U) \in Nat
           /\ U = {} <=> Cardinality(U) = 0
           /\ (\A i, j \in U : i = j) => Cardinality(U) <= 1
<1>1. IsFiniteSet(U)
  <2>1. IsFiniteSet(1 .. n)
    BY FS_Interval
  <2>2. QED
    BY <2>1, FS_Subset
<1>2. Cardinality(U) \in Nat
  BY <1>1, FS_CardinalityType
<1>3. U = {} <=> Cardinality(U) = 0
  BY <1>1, FS_EmptySet
<1>4. ASSUME \A i, j \in U : i = j PROVE Cardinality(U) <= 1
  <2>1. CASE U = {}
    BY <1>3, <2>1
  <2>2. CASE U # {}
    <3>1. PICK i \in U : TRUE
      BY <2>2
    <3>2. U = {i}
      BY <1>4, <3>1
    <3>3. QED
      BY <3>2, FS_Singleton
  <2>3. QED
    BY <2>1, <2>2
<1>5. QED
  BY <1>2, <1>3, <1>4

\* What is shown of a cron in a second.
ShownAt(fold, name, second) == {i \in DOMAIN fold : fold[i].cron = name /\ Sec(fold[i].at) = second}

LEMMA ClockShown ==
    ASSUME NEW fold \in Seq(Traces), NEW p \in Places, CronsTo(fold, p),
           NEW second \in Int, Sec(Origin.time) <= second
    PROVE  /\ Cardinality(ShownAt(fold, Clock, second)) \in Nat
           /\ Ticking(second) /\ second < p.next => Cardinality(ShownAt(fold, Clock, second)) >= 1
           /\ ~ Crowded(second) => Cardinality(ShownAt(fold, Clock, second)) <= 1
           /\ ~ Ticking(second) => Cardinality(ShownAt(fold, Clock, second)) = 0
<1> PICK U, n : U = ShownAt(fold, Clock, second) /\ n = Len(fold)
  OBVIOUS
<1>1. n \in Nat /\ DOMAIN fold = 1 .. n /\ U \in SUBSET (1 .. n)
  BY DEF ShownAt
<1>2. \A i \in U : i \in 1 .. n /\ fold[i] \in Traces /\ fold[i].cron = Clock /\ Sec(fold[i].at) = second
  BY <1>1 DEF ShownAt
<1>3. OnTime(Clock) /\ Clock # NoCron
  BY DEF OnTime, Clock, NoCron
<1>4. /\ Cardinality(U) \in Nat
      /\ U = {} <=> Cardinality(U) = 0
      /\ (\A i, j \in U : i = j) => Cardinality(U) <= 1
  BY <1>1, CountIs
<1>5. ASSUME Ticking(second), second < p.next PROVE Cardinality(U) >= 1
  <2>1. second \in Sec(Origin.time) .. p.next - 1
    <3>1. p.next \in Nat /\ Sec(Origin.time) \in Nat
      BY SecNat, MessagesAssumption DEF Places
    <3>2. QED
      BY <1>5, <3>1
  <2>2. PICK i \in DOMAIN fold : OnTime(fold[i].cron) /\ Sec(fold[i].at) = second
    BY <1>5, <2>1 DEF CronsTo
  <2>3. fold[i].cron = Clock
    BY <2>2 DEF CronsTo, Behind, OnTime
  <2>4. i \in U
    BY <2>2, <2>3 DEF ShownAt
  <2>5. QED
    BY <1>4, <2>4
<1>6. ASSUME ~ Crowded(second) PROVE Cardinality(U) <= 1
  <2>1. ASSUME NEW i \in U, NEW j \in U, i < j PROVE FALSE
    <3>1. InTurn(fold[i], fold[j])
      BY <1>1, <1>2, <2>1 DEF CronsTo
    <3>2. second < second
      BY <1>2, <1>3, <1>6, <3>1 DEF InTurn
    <3>3. QED
      BY <3>2
  <2>2. ASSUME NEW i \in U, NEW j \in U PROVE i = j
    <3>1. i \in Nat /\ j \in Nat /\ ~ (i < j) /\ ~ (j < i)
      BY <1>1, <2>1
    <3>2. QED
      BY <3>1
  <2>3. QED
    BY <1>4, <2>2
<1>7. ASSUME ~ Ticking(second) PROVE Cardinality(U) = 0
  <2>1. ASSUME NEW i \in U PROVE FALSE
    <3>1. Behind(fold[i], p)
      BY <1>1, <1>2 DEF CronsTo
    <3>2. QED
      BY <1>2, <1>3, <1>7, <3>1 DEF Behind
  <2>2. QED
    BY <1>4, <2>1
<1>8. QED
  BY <1>4, <1>5, <1>6, <1>7

LEMMA BlockShown ==
    ASSUME NEW fold \in Seq(Traces), NEW p \in Places, CronsTo(fold, p), NEW k \in Nat, NEW second
    PROVE  Cardinality(ShownAt(fold, <<"blocks", k>>, second)) <= 1
<1> PICK name : name = <<"blocks", k>>
  OBVIOUS
<1> PICK U, n : U = ShownAt(fold, name, second) /\ n = Len(fold)
  OBVIOUS
<1>1. n \in Nat /\ DOMAIN fold = 1 .. n /\ U \in SUBSET (1 .. n)
  BY DEF ShownAt
<1>2. \A i \in U : /\ i \in 1 .. n /\ fold[i] \in Traces /\ fold[i].at \in Nat
                   /\ fold[i].cron = name /\ Sec(fold[i].at) = second
  <2>1. \A i \in U : i \in 1 .. n /\ fold[i].cron = name /\ Sec(fold[i].at) = second
    BY <1>1 DEF ShownAt
  <2>2. \A i \in 1 .. n : fold[i] \in Traces
    BY <1>1
  <2>3. \A x \in Traces : x.at \in Nat
    BY DEF Traces
  <2>4. QED
    BY <2>1, <2>2, <2>3
<1>3. OnBlock(name) /\ name # NoCron
  BY DEF OnBlock, NoCron
<1>4. ASSUME NEW i \in U, NEW j \in U, i < j PROVE FALSE
  <2> PICK a, b : a = fold[i].at /\ b = fold[j].at
    OBVIOUS
  <2>1. InTurn(fold[i], fold[j]) /\ Behind(fold[j], p)
    BY <1>1, <1>2, <1>4 DEF CronsTo
  <2>2. a \in Nat /\ b \in Nat /\ a < b /\ b % TicksPerSecond = 0
    BY <1>2, <1>3, <2>1 DEF InTurn, Behind
  <2>3. Sec(a) < Sec(b) /\ Sec(a) = second /\ Sec(b) = second
    BY <1>2, <2>2, WholeSeconds
  <2>4. Sec(a) \in Nat
    BY <2>2, SecNat
  <2>5. QED
    BY <2>3, <2>4
<1>5. ASSUME NEW i \in U, NEW j \in U PROVE i = j
  <2>1. i \in Nat /\ j \in Nat /\ ~ (i < j) /\ ~ (j < i)
    BY <1>1, <1>4
  <2>2. QED
    BY <2>1
<1>6. QED
  BY <1>1, <1>5, CountIs

\* A memory shows each instant of a cron of time before its own second, and shows
\* it once if no message shares that second; of a block it shows a cron at most
\* once. It shows them in the order of time, wherever the streams before it began
\* or failed. The process has one cron of time at most, and the blocks have the
\* times of whole seconds.
THEOREM AlwaysCronsFolded ==
    ASSUME OneClock, BlocksOnSeconds
    PROVE  Spec => []CronsFolded
<1>1. TypeInv /\ CronInv => CronsFolded
  <2> SUFFICES ASSUME TypeInv, CronInv, NEW memory \in saves,
                      NEW second \in Sec(Origin.time) .. Sec(memory.time)
               PROVE
                 /\ \A cron \in ToSet(TimeBased) :
                      LET shown == Shown(memory, cron, second)
                      IN  IF IsTimestampOnCron(second * TicksPerSecond, cron)
                          THEN /\ second < Sec(memory.time) => shown >= 1
                               /\ ~ Crowded(second) => shown <= 1
                          ELSE shown = 0
                 /\ \A cron \in ToSet(BlockBased) : Shown(memory, cron, second) <= 1
                 /\ \A i, j \in {k \in DOMAIN memory.fold : IsCron(memory.fold[k])} :
                      i < j => memory.fold[i].at <= memory.fold[j].at
    BY DEF CronsFolded
  <2> PICK fold, p : fold = memory.fold /\ p = After(memory)
    OBVIOUS
  <2>1. CronsTo(fold, p)
    BY DEF CronInv, ShowsUpTo
  <2>2. memory \in Memories
    BY DEF TypeInv
  <2>3. /\ fold \in Seq(Traces) /\ memory.time \in Nat /\ Sec(memory.time) \in Nat
        /\ Sec(Origin.time) \in Nat
    BY <2>2, SecNat, MessagesAssumption DEF Memories
  <2>4. p.next = (IF OnTime(memory.cron) THEN Sec(memory.time) + 1 ELSE Sec(memory.time)) /\ p \in Places
    <3>1. /\ p.time = memory.time
          /\ p.next = IF OnTime(memory.cron) THEN Sec(memory.time) + 1 ELSE Sec(memory.time)
          /\ p.rank = IF OnBlock(memory.cron) THEN memory.cron[2] ELSE 0
      BY DEF After, PlaceOf
    <3>2. OnBlock(memory.cron) => memory.cron[2] \in Nat
      BY <2>2 DEF Memories, CronNames, OnBlock
    <3>3. p.next \in Nat /\ p.rank \in Nat
      BY <2>3, <3>1, <3>2
    <3>4. QED
      BY <2>3, <3>1, <3>3 DEF Places, After, PlaceOf
  <2>5. second \in Int /\ Sec(Origin.time) <= second
    BY <2>3
  <2>6. \A cron : Shown(memory, cron, second) = Cardinality(ShownAt(fold, cron.name, second))
    BY DEF Shown, ShownAt
  <2>7. ASSUME NEW cron \in ToSet(TimeBased)
        PROVE  LET shown == Shown(memory, cron, second)
               IN  IF IsTimestampOnCron(second * TicksPerSecond, cron)
                   THEN /\ second < Sec(memory.time) => shown >= 1
                        /\ ~ Crowded(second) => shown <= 1
                   ELSE shown = 0
    <3>1. PICK n \in {0, 1} : DOMAIN TimeBased = 1 .. n /\ \A i \in 1 .. n : TimeBased[i].name = Clock
      BY TimeBasedIs
    <3>2. PICK i \in 1 .. n : cron = TimeBased[i]
      BY <3>1 DEF ToSet
    <3>3. cron.name = Clock /\ \A j \in DOMAIN TimeBased : TimeBased[j] = cron
      BY <3>1, <3>2
    <3>4. Ticking(second) <=> IsTimestampOnCron(second * TicksPerSecond, cron)
      BY <3>1, <3>2, <3>3 DEF Ticking
    <3> PICK shown : shown = Cardinality(ShownAt(fold, Clock, second))
      OBVIOUS
    <3>5. /\ Ticking(second) /\ second < p.next => shown >= 1
          /\ ~ Crowded(second) => shown <= 1
          /\ ~ Ticking(second) => shown = 0
      BY <2>1, <2>3, <2>4, <2>5, ClockShown
    <3>6. second < Sec(memory.time) => second < p.next
      BY <2>3, <2>4, <2>5
    <3>7. Shown(memory, cron, second) = shown
      BY <2>6, <3>3
    <3>8. QED
      BY <3>4, <3>5, <3>6, <3>7
  <2>8. ASSUME NEW cron \in ToSet(BlockBased) PROVE Shown(memory, cron, second) <= 1
    <3>1. PICK n \in Nat : /\ DOMAIN BlockBased = 1 .. n
                           /\ \A i \in 1 .. n : BlockBased[i].name = <<"blocks", i>>
      BY BlockBasedIs
    <3>2. PICK i \in 1 .. n : cron = BlockBased[i]
      BY <3>1 DEF ToSet
    <3>3. i \in Nat /\ cron.name = <<"blocks", i>>
      BY <3>1, <3>2
    <3>4. QED
      BY <2>1, <2>3, <2>4, <2>6, <3>3, BlockShown
  <2>9. ASSUME NEW i \in DOMAIN fold, NEW j \in DOMAIN fold, IsCron(fold[i]), IsCron(fold[j]), i < j
        PROVE  fold[i].at <= fold[j].at
    BY <2>1, <2>9 DEF CronsTo, InTurn, IsCron
  <2>10. QED
    BY <2>7, <2>8, <2>9
<1>2. CronInv /\ TypeInv /\ [Next]_vars => CronInv'
  BY CronNext
<1>3. Spec => []TypeInv
  BY TypeHolds
<1>4. QED
  BY <1>1, <1>2, <1>3, CronInit, PTL DEF Spec
=============================================================================
