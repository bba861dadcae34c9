-------------------------- MODULE ClusterConfig_proofs --------------------------
(***************************************************************************)
(* For every configuration file, every set of flags, every number of nodes  *)
(* and of edits: options reach the nodes that their filters name, and what  *)
(* is published ends in nodes.  First the folds that the algorithms on      *)
(* filters and ports are written with, then these algorithms, then the      *)
(* stages of the command.                                                   *)
(***************************************************************************)
EXTENDS ClusterConfig, FiniteSetTheorems, WellFoundedInduction, TLAPS

\* Induction on a set of naturals.
LEMMA SetInduction ==
  ASSUME NEW S \in SUBSET Nat, 0 \in S, \A k \in Nat : k \in S => k + 1 \in S
  PROVE  S = Nat
<1> DEFINE R == Nat \ S
<1> SUFFICES ASSUME R # {} PROVE FALSE
  OBVIOUS
<1>2. PICK x \in R : \A y \in R : <<y, x>> \notin OpToRel(<, Nat)
  BY R \subseteq Nat, WFMin, NatLessThanWellFounded, Zenon
<1>3. \A y \in R : ~(y < x)
  BY <1>2, Zenon DEF OpToRel
<1>4. x # 0 /\ x - 1 \in Nat /\ x - 1 \notin R
  BY <1>3
<1> QED
  BY <1>4

\* A non-empty set of positions has a first one ...
LEMMA FirstOf ==
  ASSUME NEW S \in SUBSET Nat, S # {}
  PROVE  \E i \in S : \A j \in S : i <= j
<1>1. PICK x \in S : \A y \in S : <<y, x>> \notin OpToRel(<, Nat)
  BY S \subseteq Nat, WFMin, NatLessThanWellFounded, Zenon
<1>2. \A y \in S : ~(y < x)
  BY <1>1, Zenon DEF OpToRel
<1> QED
  BY <1>2

\* ... and, if it is bounded, a last one.
LEMMA LastOf ==
  ASSUME NEW n \in Nat, NEW S \in SUBSET (1 .. n), S # {}
  PROVE  \E i \in S : \A j \in S : i >= j
<1> DEFINE R == {n - i : i \in S}
<1>1. R \in SUBSET Nat /\ R # {}
  <2>1. \A i \in S : i \in 1 .. n
    OBVIOUS
  <2>2. \A i \in S : n - i \in Nat
    BY <2>1
  <2> QED BY <2>2
<1>2. PICK r \in R : \A q \in R : r <= q
  <2> HIDE DEF R
  <2> QED BY <1>1, FirstOf
<1>3. PICK i \in S : r = n - i
  BY <1>2
<1>4. \A j \in S : n - i <= n - j
  BY <1>2, <1>3
<1> QED
  BY <1>3, <1>4

LEMMA MaxOf ==
  ASSUME NEW n \in Nat, NEW S \in SUBSET (1 .. n), S # {}
  PROVE  Max(S) \in S /\ \A j \in S : Max(S) >= j
<1>1. \E i \in S : \A j \in S : i >= j
  BY LastOf
<1> QED
  BY <1>1 DEF Max

LEMMA MaxIs ==
  ASSUME NEW n \in Nat, NEW S \in SUBSET (1 .. n), NEW m \in S, \A j \in S : m >= j
  PROVE  Max(S) = m
<1>1. Max(S) \in S /\ \A j \in S : Max(S) >= j
  BY MaxOf
<1>2. m >= Max(S) /\ Max(S) >= m
  BY <1>1
<1>3. m \in 1 .. n
  OBVIOUS
<1>4. Max(S) \in 1 .. n
  BY <1>1
<1> QED
  BY <1>2, <1>3, <1>4

\* The recursive function over sets of positions that a fold is: there is one when each of the
\* steps st takes a value of V to one of V.
IsFold(n, V, base, st, g) ==
  /\ g \in [SUBSET (1 .. n) -> V]
  /\ g = [s \in SUBSET (1 .. n) |-> IF s = {} THEN base ELSE st[Max(s)][g[s \ {Max(s)}]]]

LEMMA FoldExists ==
  ASSUME NEW n \in Nat, NEW V, NEW base \in V, NEW st \in [1 .. n -> [V -> V]]
  PROVE  \E g : IsFold(n, V, base, st, g)
<1> DEFINE Eq(g, k) == \A s \in SUBSET (1 .. k) : g[s] = IF s = {} THEN base ELSE st[Max(s)][g[s \ {Max(s)}]]
           Good(k) == \E g \in [SUBSET (1 .. k) -> V] : Eq(g, k)
           Is == {k \in Nat : k <= n => Good(k)}
<1>1. 0 \in Is
  <2> DEFINE g == [s \in SUBSET (1 .. 0) |-> base]
  <2>1. g \in [SUBSET (1 .. 0) -> V]
    OBVIOUS
  <2>2. Eq(g, 0)
    OBVIOUS
  <2>3. Good(0)
    <3> HIDE DEF g, Eq
    <3> QED BY <2>1, <2>2
  <2> HIDE DEF Good
  <2> QED BY <2>3
<1>2. ASSUME NEW k \in Nat, k \in Is PROVE k + 1 \in Is
  <2> SUFFICES ASSUME k + 1 <= n PROVE Good(k + 1)
    <3> HIDE DEF Good
    <3> QED OBVIOUS
  <2>0. Good(k)
    <3> HIDE DEF Good
    <3> QED BY <1>2
  <2> PICK f \in [SUBSET (1 .. k) -> V] : Eq(f, k)
    <3> HIDE DEF Eq
    <3> QED BY <2>0
  <2> DEFINE g == [s \in SUBSET (1 .. k + 1) |-> IF k + 1 \in s THEN st[k + 1][f[s \ {k + 1}]] ELSE f[s]]
  <2>1. ASSUME NEW s \in SUBSET (1 .. k + 1), k + 1 \in s
        PROVE  s \ {k + 1} \in SUBSET (1 .. k) /\ Max(s) = k + 1
    <3>1. \A j \in s : k + 1 >= j
      OBVIOUS
    <3>2. k + 1 \in Nat /\ k + 1 \in s
      BY <2>1
    <3>3. Max(s) = k + 1
      BY <3>1, <3>2, MaxIs
    <3> QED BY <3>3
  <2>2. ASSUME NEW s \in SUBSET (1 .. k + 1), k + 1 \notin s
        PROVE  s \in SUBSET (1 .. k) /\ s \ {Max(s)} \in SUBSET (1 .. k + 1)
    <3>1. \A j \in s : j \in 1 .. k
      BY <2>2
    <3> QED BY <3>1
  <2>3. g \in [SUBSET (1 .. k + 1) -> V]
    BY <2>1, <2>2
  <2>4. ASSUME NEW s \in SUBSET (1 .. k + 1)
        PROVE  g[s] = IF s = {} THEN base ELSE st[Max(s)][g[s \ {Max(s)}]]
    <3>1. CASE k + 1 \in s
      <4>1. s \ {k + 1} \in SUBSET (1 .. k + 1) /\ k + 1 \notin s \ {k + 1}
        OBVIOUS
      <4>2. g[s \ {k + 1}] = f[s \ {k + 1}]
        BY <4>1
      <4>3. g[s] = st[k + 1][f[s \ {k + 1}]]
        BY <3>1
      <4> QED BY <2>1, <3>1, <4>2, <4>3
    <3>2. CASE k + 1 \notin s
      <4>1. g[s] = f[s] /\ s \in SUBSET (1 .. k)
        BY <2>2, <3>2
      <4>2. g[s \ {Max(s)}] = f[s \ {Max(s)}]
        BY <2>2, <3>2
      <4>3. f[s] = IF s = {} THEN base ELSE st[Max(s)][f[s \ {Max(s)}]]
        BY <4>1
      <4> HIDE DEF g
      <4> QED BY <4>1, <4>2, <4>3
    <3> QED BY <3>1, <3>2
  <2>5. Eq(g, k + 1)
    <3> HIDE DEF g
    <3> QED BY <2>4
  <2> HIDE DEF g, Eq
  <2> QED BY <2>3, <2>5
<1>3. Is = Nat
  <2> HIDE DEF Is
  <2> QED BY <1>1, <1>2, SetInduction, Is \subseteq Nat DEF Is
<1>4. Good(n)
  <2> HIDE DEF Good
  <2> QED BY <1>3
<1> PICK g \in [SUBSET (1 .. n) -> V] : Eq(g, n)
  <2> HIDE DEF Eq
  <2> QED BY <1>4
<1>5. g = [s \in SUBSET (1 .. n) |-> IF s = {} THEN base ELSE st[Max(s)][g[s \ {Max(s)}]]]
  OBVIOUS
<1>6. IsFold(n, V, base, st, g)
  <2> HIDE DEF Eq
  <2> QED BY <1>5 DEF IsFold
<1> QED BY <1>6

\* What the fold goes through, position by position.
GoesThrough(n, V, base, st, last) ==
  \E tr \in [0 .. n -> V] :
    tr[0] = base /\ (\A i \in 1 .. n : tr[i] = st[i][tr[i - 1]]) /\ tr[n] = last

LEMMA FoldTrace ==
  ASSUME NEW n \in Nat, NEW V, NEW base \in V, NEW st \in [1 .. n -> [V -> V]], NEW g,
         g[{}] = base,
         \A s \in SUBSET (1 .. n) :
           s # {} /\ g[s \ {Max(s)}] \in V => g[s] = st[Max(s)][g[s \ {Max(s)}]]
  PROVE  GoesThrough(n, V, base, st, g[1 .. n])
<1> DEFINE tr == [i \in 0 .. n |-> g[1 .. i]]
           Is == {k \in Nat : k <= n => tr[k] \in V /\ (k > 0 => tr[k] = st[k][tr[k - 1]])}
<1>1. 0 \in Is /\ tr[0] = base
  <2>1. 1 .. 0 = {}
    OBVIOUS
  <2>2. tr[0] = base
    BY <2>1
  <2> QED BY <2>2
<1>2. ASSUME NEW k \in Nat, k \in Is PROVE k + 1 \in Is
  <2> SUFFICES ASSUME k + 1 <= n PROVE tr[k + 1] \in V /\ tr[k + 1] = st[k + 1][tr[k]]
    OBVIOUS
  <2>1. tr[k] \in V /\ tr[k] = g[1 .. k] /\ tr[k + 1] = g[1 .. k + 1]
    BY <1>2
  <2> DEFINE s == 1 .. k + 1
  <2>2. s \in SUBSET (1 .. n) /\ k + 1 \in s /\ \A j \in s : k + 1 >= j
    OBVIOUS
  <2>3. Max(s) = k + 1
    <3> HIDE DEF s
    <3> QED BY <2>2, MaxIs
  <2>4. s \ {k + 1} = 1 .. k
    OBVIOUS
  <2>5. g[s] = st[k + 1][g[1 .. k]]
    <3> HIDE DEF s, tr
    <3> QED BY <2>1, <2>2, <2>3, <2>4
  <2>6. tr[k + 1] = st[k + 1][tr[k]]
    BY <2>1, <2>5
  <2>7. k + 1 \in 1 .. n
    OBVIOUS
  <2> HIDE DEF tr
  <2> QED BY <2>1, <2>6, <2>7
<1>3. Is = Nat
  <2> HIDE DEF Is
  <2> QED BY <1>1, <1>2, SetInduction, Is \subseteq Nat DEF Is
<1>4. \A k \in 0 .. n : tr[k] \in V /\ (k > 0 => tr[k] = st[k][tr[k - 1]])
  <2> HIDE DEF tr
  <2> QED BY <1>3
<1>5. tr \in [0 .. n -> V] /\ tr[n] = g[1 .. n]
  <2>1. DOMAIN tr = 0 .. n /\ tr = [i \in 0 .. n |-> tr[i]] /\ tr[n] = g[1 .. n]
    OBVIOUS
  <2> HIDE DEF tr
  <2> QED BY <1>4, <2>1
<1> HIDE DEF tr
<1>6. \A i \in 1 .. n : tr[i] = st[i][tr[i - 1]]
  BY <1>4
<1> QED BY <1>1, <1>5, <1>6 DEF GoesThrough

-----------------------------------------------------------------------------
(* Sequences that are put together. *)

LEMMA ElementOf == ASSUME NEW S, NEW s \in Seq(S), NEW i \in DOMAIN s PROVE s[i] \in S
OBVIOUS

LEMMA IsSeq ==
  ASSUME NEW X, NEW n \in Nat, NEW s, s = [i \in 1 .. n |-> s[i]], \A i \in 1 .. n : s[i] \in X
  PROVE  s \in Seq(X) /\ Len(s) = n /\ DOMAIN s = 1 .. n
<1>1. DOMAIN s = 1 .. n
  OBVIOUS
<1> QED BY <1>1

LEMMA RangeIs ==
  ASSUME NEW S, NEW s \in Seq(S)
  PROVE  /\ Range(s) \subseteq S /\ DOMAIN s = 1 .. Len(s) /\ Len(s) \in Nat
         /\ \A x : x \in Range(s) <=> \E i \in 1 .. Len(s) : x = s[i]
BY DEF Range

LEMMA Joining ==
  ASSUME NEW S, NEW s \in Seq(S), NEW t \in Seq(S)
  PROVE  /\ s \o t \in Seq(S) /\ Len(s \o t) = Len(s) + Len(t)
         /\ \A i \in 1 .. Len(s) : (s \o t)[i] = s[i]
         /\ \A i \in 1 .. Len(t) : (s \o t)[Len(s) + i] = t[i]
OBVIOUS

LEMMA JoinedRange ==
  ASSUME NEW S, NEW s \in Seq(S), NEW t \in Seq(S)
  PROVE  Range(s \o t) = Range(s) \cup Range(t)
<1>1. /\ DOMAIN s = 1 .. Len(s) /\ DOMAIN t = 1 .. Len(t) /\ Len(s) \in Nat /\ Len(t) \in Nat
      /\ DOMAIN (s \o t) = 1 .. Len(s) + Len(t)
  OBVIOUS
<1>2. /\ \A i \in 1 .. Len(s) : (s \o t)[i] = s[i]
      /\ \A i \in 1 .. Len(t) : (s \o t)[Len(s) + i] = t[i]
  BY Joining
<1> DEFINE u == s \o t
<1>3. \A i \in 1 .. Len(s) + Len(t) : i \in 1 .. Len(s) \/ (i - Len(s) \in 1 .. Len(t) /\ i = Len(s) + (i - Len(s)))
  BY <1>1
<1>4. \A i \in 1 .. Len(t) : Len(s) + i \in 1 .. Len(s) + Len(t)
  BY <1>1
<1>5. \A i \in 1 .. Len(s) : i \in 1 .. Len(s) + Len(t)
  BY <1>1
<1> HIDE DEF u
<1>6. ASSUME NEW x \in Range(u) PROVE x \in Range(s) \cup Range(t)
  <2> PICK i \in 1 .. Len(s) + Len(t) : x = u[i]
    BY <1>1 DEF Range, u
  <2>1. CASE i \in 1 .. Len(s)
    BY <1>1, <1>2, <2>1 DEF Range, u
  <2>2. CASE i - Len(s) \in 1 .. Len(t) /\ i = Len(s) + (i - Len(s))
    <3>1. x = t[i - Len(s)]
      BY <1>2, <2>2 DEF u
    <3> QED BY <1>1, <2>2, <3>1 DEF Range
  <2> QED BY <1>3, <2>1, <2>2
<1>7. ASSUME NEW x \in Range(s) PROVE x \in Range(u)
  <2> PICK i \in 1 .. Len(s) : x = s[i]
    BY <1>1 DEF Range
  <2>1. x = u[i] /\ i \in DOMAIN u
    BY <1>1, <1>2, <1>5 DEF u
  <2> QED BY <2>1 DEF Range
<1>8. ASSUME NEW x \in Range(t) PROVE x \in Range(u)
  <2> PICK i \in 1 .. Len(t) : x = t[i]
    BY <1>1 DEF Range
  <2>1. x = u[Len(s) + i] /\ Len(s) + i \in DOMAIN u
    BY <1>1, <1>2, <1>4 DEF u
  <2> QED BY <2>1 DEF Range
<1> QED BY <1>6, <1>7, <1>8 DEF u

LEMMA Associates ==
  ASSUME NEW S, NEW s \in Seq(S), NEW t \in Seq(S), NEW u \in Seq(S)
  PROVE  (s \o t) \o u = s \o (t \o u) /\ t \o u \in Seq(S)
OBVIOUS

\* A concatenation of many is made one by one.
LEMMA FlattenTrace ==
  ASSUME NEW X, NEW ss \in Seq(Seq(X))
  PROVE  \E tr \in [0 .. Len(ss) -> Seq(X)] :
           /\ tr[0] = <<>> /\ \A i \in 1 .. Len(ss) : tr[i] = tr[i - 1] \o ss[i]
           /\ tr[Len(ss)] = FlattenSeq(ss)
<1> DEFINE n == Len(ss)
           Cat(s, t) == s \o t
           IsTrace(tr, k) == tr[0] = <<>> /\ \A i \in 1 .. k : tr[i] = Cat(tr[i - 1], ss[i])
           Good(k) == \E tr \in [0 .. k -> Seq(X)] : IsTrace(tr, k)
           Is == {k \in Nat : k <= n => Good(k)}
<1>0. n \in Nat /\ DOMAIN ss = 1 .. n /\ \A i \in 1 .. n : ss[i] \in Seq(X)
  OBVIOUS
<1>c. /\ \A s, t \in Seq(X) : Cat(s, t) \in Seq(X)
      /\ \A s \in Seq(X) : Cat(<<>>, s) = s
  OBVIOUS
<1>t. ASSUME NEW tr, IsTrace(tr, n) PROVE \A i \in 1 .. n : tr[i] = tr[i - 1] \o ss[i]
  BY <1>t
<1> HIDE DEF n, Cat
<1>1. 0 \in Is
  <2> DEFINE tr == [i \in 0 .. 0 |-> <<>>]
  <2>1. tr \in [0 .. 0 -> Seq(X)]
    OBVIOUS
  <2>2. IsTrace(tr, 0)
    OBVIOUS
  <2>3. Good(0)
    <3> HIDE DEF tr, IsTrace
    <3> QED BY <2>1, <2>2
  <2> HIDE DEF Good
  <2> QED BY <2>3
<1>2. ASSUME NEW k \in Nat, k \in Is PROVE k + 1 \in Is
  <2> SUFFICES ASSUME k + 1 <= n PROVE Good(k + 1)
    <3> HIDE DEF Good
    <3> QED OBVIOUS
  <2>0. Good(k)
    <3> HIDE DEF Good
    <3> QED BY <1>0, <1>2
  <2> PICK f \in [0 .. k -> Seq(X)] : IsTrace(f, k)
    <3> HIDE DEF IsTrace
    <3> QED BY <2>0
  <2> DEFINE next == Cat(f[k], ss[k + 1])
             g == [i \in 0 .. k + 1 |-> IF i = k + 1 THEN next ELSE f[i]]
  <2>1. next \in Seq(X)
    <3>1. f[k] \in Seq(X) /\ ss[k + 1] \in Seq(X)
      BY <1>0
    <3> QED BY <1>c, <3>1
  <2>2. g \in [0 .. k + 1 -> Seq(X)]
    <3> HIDE DEF next
    <3> QED BY <2>1
  <2>3. IsTrace(g, k + 1)
    <3>1. g[0] = <<>>
      <4> HIDE DEF next
      <4> QED OBVIOUS
    <3>2. ASSUME NEW i \in 1 .. k + 1 PROVE g[i] = Cat(g[i - 1], ss[i])
      <4>1. CASE i = k + 1
        <5>1. g[k + 1] = next /\ g[k] = f[k]
          <6> HIDE DEF next
          <6> QED OBVIOUS
        <5> HIDE DEF g
        <5> QED BY <4>1, <5>1
      <4>2. CASE i # k + 1
        <5>1. i \in 1 .. k
          BY <4>2
        <5>2. g[i] = f[i] /\ g[i - 1] = f[i - 1]
          <6> HIDE DEF next
          <6> QED BY <5>1
        <5>3. f[i] = Cat(f[i - 1], ss[i])
          BY <5>1
        <5> HIDE DEF g
        <5> QED BY <5>2, <5>3
      <4> QED BY <4>1, <4>2
    <3> HIDE DEF g
    <3> QED BY <3>1, <3>2
  <2> HIDE DEF g, IsTrace
  <2> QED BY <2>2, <2>3
<1>3. Is = Nat
  <2> HIDE DEF Is
  <2> QED BY <1>1, <1>2, SetInduction, Is \subseteq Nat DEF Is
<1>4. Good(n)
  <2> HIDE DEF Good
  <2> QED BY <1>0, <1>3
<1> PICK tr \in [0 .. n -> Seq(X)] : IsTrace(tr, n)
  <2> HIDE DEF IsTrace
  <2> QED BY <1>4
<1>s. \A i \in 1 .. n : tr[i] = tr[i - 1] \o ss[i]
  <2> HIDE DEF IsTrace
  <2> QED BY <1>t
<1>5. CASE n = 0
  <2>1. FlattenSeq(ss) = <<>>
    BY <1>5 DEF FlattenSeq, n
  <2> QED BY <1>s, <1>5, <2>1 DEF n
<1>6. CASE n # 0
  <2> DEFINE Eq(f) == f = [i \in 1 .. n |-> IF i = 1 THEN ss[i] ELSE Cat(f[i - 1], ss[i])]
             f0 == [i \in 1 .. n |-> tr[i]]
             flat == CHOOSE f : Eq(f)
  <2>1. tr[1] = ss[1]
    <3>1. tr[1] = Cat(tr[0], ss[1])
      BY <1>0, <1>6
    <3>2. ss[1] \in Seq(X)
      BY <1>0, <1>6
    <3>3. Cat(<<>>, ss[1]) = ss[1]
      BY <1>c, <3>2
    <3> QED BY <3>1, <3>3
  <2>2. ASSUME NEW i \in 1 .. n PROVE f0[i] = IF i = 1 THEN ss[i] ELSE Cat(f0[i - 1], ss[i])
    <3>1. CASE i = 1
      BY <2>1, <3>1
    <3>2. CASE i # 1
      <4>1. f0[i] = tr[i] /\ f0[i - 1] = tr[i - 1]
        BY <1>0, <3>2
      <4> HIDE DEF f0
      <4> QED BY <3>2, <4>1
    <3> QED BY <3>1, <3>2
  <2>3. Eq(f0)
    <3>1. f0 = [i \in 1 .. n |-> f0[i]]
      OBVIOUS
    <3> HIDE DEF f0
    <3> QED BY <2>2, <3>1
  <2>4. Eq(flat)
    <3> HIDE DEF Eq, f0
    <3> QED BY <2>3
  <2>5. FlattenSeq(ss) = flat[n]
    BY <1>6 DEF FlattenSeq, n, Cat
  <2>e. ASSUME NEW i \in 1 .. n PROVE flat[i] = IF i = 1 THEN ss[i] ELSE Cat(flat[i - 1], ss[i])
    <3> HIDE DEF flat
    <3> QED BY <2>4
  <2> DEFINE Agree == {k \in Nat : k \in 1 .. n => flat[k] = tr[k]}
  <2>6. 0 \in Agree
    OBVIOUS
  <2>7. ASSUME NEW k \in Nat, k \in Agree PROVE k + 1 \in Agree
    <3> SUFFICES ASSUME k + 1 \in 1 .. n PROVE flat[k + 1] = tr[k + 1]
      OBVIOUS
    <3>1. flat[k + 1] = IF k + 1 = 1 THEN ss[k + 1] ELSE Cat(flat[k], ss[k + 1])
      <4>1. (k + 1) - 1 = k
        OBVIOUS
      <4> HIDE DEF flat
      <4> QED BY <2>e, <4>1
    <3>2. CASE k = 0
      BY <2>1, <3>1, <3>2
    <3>3. CASE k # 0
      <4>1. flat[k] = tr[k]
        BY <1>0, <2>7, <3>3
      <4>2. tr[k + 1] = Cat(tr[k], ss[k + 1])
        OBVIOUS
      <4> HIDE DEF flat
      <4> QED BY <3>1, <3>3, <4>1, <4>2
    <3> QED BY <3>2, <3>3
  <2>8. Agree = Nat
    <3> HIDE DEF Agree
    <3> QED BY <2>6, <2>7, SetInduction, Agree \subseteq Nat DEF Agree
  <2>9. flat[n] = tr[n]
    <3> HIDE DEF flat
    <3> QED BY <1>0, <1>6, <2>8
  <2> HIDE DEF flat
  <2> QED BY <1>s, <2>5, <2>9 DEF n
<1> QED BY <1>5, <1>6

\* The sequences up to a position give the beginning, the others the end.
Splits(X, ss, m) ==
  \E a, b \in Seq(X) :
    /\ FlattenSeq(ss) = a \o b
    /\ Range(a) = UNION {Range(ss[i]) : i \in 1 .. m}
    /\ Range(b) = UNION {Range(ss[i]) : i \in m + 1 .. Len(ss)}

LEMMA FlattenSplit ==
  ASSUME NEW X, NEW ss \in Seq(Seq(X)), NEW m \in 0 .. Len(ss)
  PROVE  Splits(X, ss, m)
<1> DEFINE n == Len(ss)
<1> PICK tr \in [0 .. n -> Seq(X)] :
           /\ tr[0] = <<>> /\ \A i \in 1 .. n : tr[i] = tr[i - 1] \o ss[i]
           /\ tr[n] = FlattenSeq(ss)
  BY FlattenTrace
<1>0. n \in Nat /\ m \in Nat /\ m <= n /\ \A i \in 1 .. n : ss[i] \in Seq(X)
  OBVIOUS
<1> HIDE DEF n
<1> DEFINE U(i, j) == UNION {Range(ss[k]) : k \in i .. j}
           First == {k \in Nat : k <= n => Range(tr[k]) = U(1, k)}
           Rest(k, b) == tr[m + k] = tr[m] \o b /\ Range(b) = U(m + 1, m + k)
           Second == {k \in Nat : m + k <= n => \E b \in Seq(X) : Rest(k, b)}
<1>u. ASSUME NEW i \in Nat, NEW k \in Nat, i <= k + 1 PROVE U(i, k + 1) = U(i, k) \cup Range(ss[k + 1])
  <2>1. i .. k + 1 = (i .. k) \cup {k + 1}
    BY <1>u
  <2> QED BY <2>1
<1>1. 0 \in First
  <2>1. Range(tr[0]) = {} /\ U(1, 0) = {}
    BY DEF Range
  <2> QED BY <2>1
<1>2. ASSUME NEW k \in Nat, k \in First PROVE k + 1 \in First
  <2> SUFFICES ASSUME k + 1 <= n PROVE Range(tr[k + 1]) = U(1, k + 1)
    OBVIOUS
  <2>1. Range(tr[k]) = U(1, k)
    <3> HIDE DEF U
    <3> QED BY <1>0, <1>2
  <2>2. tr[k] \in Seq(X) /\ ss[k + 1] \in Seq(X) /\ k + 1 \in 1 .. n
    BY <1>0
  <2>3. tr[k + 1] = tr[k] \o ss[k + 1]
    <3>1. tr[k + 1] = tr[(k + 1) - 1] \o ss[k + 1]
      BY <2>2
    <3>2. (k + 1) - 1 = k
      OBVIOUS
    <3> QED BY <3>1, <3>2, Zenon
  <2>4. Range(tr[k] \o ss[k + 1]) = Range(tr[k]) \cup Range(ss[k + 1])
    BY <2>2, JoinedRange
  <2>5. U(1, k + 1) = U(1, k) \cup Range(ss[k + 1])
    <3>1. 1 \in Nat /\ 1 <= k + 1
      OBVIOUS
    <3> HIDE DEF U
    <3> QED BY <1>u, <3>1
  <2> HIDE DEF U
  <2> QED BY <2>1, <2>3, <2>4, <2>5, Zenon
<1>3. First = Nat
  <2> HIDE DEF First
  <2> QED BY <1>1, <1>2, SetInduction, First \subseteq Nat DEF First
<1>4. 0 \in Second
  <2>1. tr[m] \in Seq(X) /\ m + 0 = m
    BY <1>0
  <2>2. tr[m] = tr[m] \o <<>>
    BY <2>1
  <2>3. Range(<<>>) = {} /\ U(m + 1, m + 0) = {}
    BY <1>0 DEF Range
  <2>4. Rest(0, <<>>) /\ <<>> \in Seq(X)
    <3>1. <<>> \in Seq(X)
      OBVIOUS
    <3> HIDE DEF U
    <3> QED BY <2>1, <2>2, <2>3, <3>1, Zenon
  <2> HIDE DEF Rest
  <2> QED BY <2>4
<1>5. ASSUME NEW k \in Nat, k \in Second PROVE k + 1 \in Second
  <2> SUFFICES ASSUME m + (k + 1) <= n PROVE \E c \in Seq(X) : Rest(k + 1, c)
    <3> HIDE DEF Rest
    <3> QED OBVIOUS
  <2>0. \E b \in Seq(X) : Rest(k, b)
    <3> HIDE DEF Rest
    <3> QED BY <1>0, <1>5
  <2> PICK b \in Seq(X) : Rest(k, b)
    <3> HIDE DEF Rest
    <3> QED BY <2>0
  <2> DEFINE p == m + k
  <2>1. p \in Nat /\ p + 1 \in 1 .. n /\ (p + 1) - 1 = p /\ m + (k + 1) = p + 1
    BY <1>0
  <2>2. tr[m] \in Seq(X) /\ ss[p + 1] \in Seq(X)
    BY <1>0, <2>1
  <2>3. tr[p + 1] = tr[p] \o ss[p + 1]
    <3>1. tr[p + 1] = tr[(p + 1) - 1] \o ss[p + 1]
      BY <2>1
    <3> HIDE DEF p
    <3> QED BY <2>1, <3>1, Zenon
  <2>4. (tr[m] \o b) \o ss[p + 1] = tr[m] \o (b \o ss[p + 1]) /\ b \o ss[p + 1] \in Seq(X)
    <3> HIDE DEF p
    <3> QED BY <2>2, Associates, Zenon
  <2>5. Range(b \o ss[p + 1]) = Range(b) \cup Range(ss[p + 1])
    <3> HIDE DEF p
    <3> QED BY <2>2, JoinedRange
  <2>6. U(m + 1, p + 1) = U(m + 1, p) \cup Range(ss[p + 1])
    <3>0. m \in Nat /\ k \in Nat
      BY <1>0, Zenon
    <3>1. m + 1 \in Nat /\ m + 1 <= p + 1
      BY <3>0
    <3> HIDE DEF p, U
    <3> QED BY <1>u, <2>1, <3>1, Zenon
  <2>7. Rest(k + 1, b \o ss[p + 1])
    <3> HIDE DEF U
    <3>1. tr[p] = tr[m] \o b /\ Range(b) = U(m + 1, p)
      OBVIOUS
    <3> HIDE DEF p
    <3> QED BY <2>1, <2>3, <2>4, <2>5, <2>6, <3>1, Zenon
  <2> HIDE DEF Rest
  <2> QED BY <2>4, <2>7
<1>6. Second = Nat
  <2> HIDE DEF Second
  <2> QED BY <1>4, <1>5, SetInduction, Second \subseteq Nat DEF Second
<1>7. n - m \in Nat /\ m + (n - m) = n
  BY <1>0
<1>8. \E b \in Seq(X) : Rest(n - m, b)
  <2>1. n - m \in Second
    <3> HIDE DEF Second
    <3> QED BY <1>6, <1>7
  <2>2. m + (n - m) <= n
    BY <1>0, <1>7
  <2> HIDE DEF Rest
  <2> QED BY <2>1, <2>2
<1> PICK b \in Seq(X) : Rest(n - m, b)
  <2> HIDE DEF Rest
  <2> QED BY <1>8
<1>9. Range(tr[m]) = U(1, m) /\ tr[m] \in Seq(X)
  <2>1. m \in First
    <3> HIDE DEF First
    <3> QED BY <1>0, <1>3
  <2> HIDE DEF U
  <2> QED BY <1>0, <2>1
<1>10. tr[n] = tr[m] \o b /\ Range(b) = U(m + 1, n)
  <2> HIDE DEF U
  <2> QED BY <1>7
<1>11. FlattenSeq(ss) = tr[m] \o b
  BY <1>10
<1> QED BY <1>9, <1>10, <1>11 DEF n, Splits

LEMMA FlattenRange ==
  ASSUME NEW X, NEW ss \in Seq(Seq(X))
  PROVE  FlattenSeq(ss) \in Seq(X) /\ Range(FlattenSeq(ss)) = UNION {Range(ss[i]) : i \in DOMAIN ss}
<1>1. 0 \in 0 .. Len(ss) /\ DOMAIN ss = 0 + 1 .. Len(ss)
  OBVIOUS
<1>0. Splits(X, ss, 0)
  BY <1>1, FlattenSplit
<1> PICK a \in Seq(X), b \in Seq(X) :
           /\ FlattenSeq(ss) = a \o b
           /\ Range(a) = UNION {Range(ss[i]) : i \in 1 .. 0}
           /\ Range(b) = UNION {Range(ss[i]) : i \in 0 + 1 .. Len(ss)}
  BY <1>0, Zenon DEF Splits
<1>2. Range(a) = {}
  OBVIOUS
<1>3. a \o b \in Seq(X) /\ Range(a \o b) = Range(a) \cup Range(b)
  BY JoinedRange, Joining
<1>4. Range(a \o b) = Range(b)
  BY <1>2, <1>3
<1>5. UNION {Range(ss[i]) : i \in 0 + 1 .. Len(ss)} = UNION {Range(ss[i]) : i \in DOMAIN ss}
  BY <1>1
<1> QED BY <1>3, <1>4, <1>5

-----------------------------------------------------------------------------
(* The folds, as what they go through. *)

\* Where a step may have several outcomes, the fold is over all of them.
EachConfig(C, m, names, removal) == UNION {ChangeLBPortConfig(c, m, names, removal) : c \in C}
EachState(nodes, hasLb, S, p) == UNION {TransformPort(nodes, hasLb, t, p) : t \in S}

LEMMA ChangePortMappingsTrace ==
  ASSUME NEW removal, NEW maps, Len(maps) \in Nat, DOMAIN maps = 1 .. Len(maps), NEW V, NEW f \in V,
         \A v \in V, i \in 1 .. Len(maps) : Bind(v, maps[i], removal) \in V
  PROVE  \E tr \in [0 .. Len(maps) -> V] :
           /\ tr[0] = f /\ \A i \in 1 .. Len(maps) : tr[i] = Bind(tr[i - 1], maps[i], removal)
           /\ tr[Len(maps)] = ChangePortMappings(f, maps, removal)
<1> DEFINE n == Len(maps)
           op(v, x) == Bind(v, x, removal)
           step == [i \in 1 .. n |-> [v \in V |-> op(v, maps[i])]]
           Eq(g) == g = [s \in SUBSET (1 .. n) |-> IF s = {} THEN f ELSE op(g[s \ {Max(s)}], maps[Max(s)])]
           G == CHOOSE g : Eq(g)
<1>0. ChangePortMappings(f, maps, removal) = G[1 .. n]
  BY Zenon DEF ChangePortMappings, FoldLeft, MapThenFoldSet
<1>1. n \in Nat /\ \A v \in V, i \in 1 .. n : op(v, maps[i]) \in V
  OBVIOUS
<1>2. SUFFICES \E tr \in [0 .. n -> V] :
           /\ tr[0] = f /\ \A i \in 1 .. n : tr[i] = op(tr[i - 1], maps[i])
           /\ tr[n] = G[1 .. n]
  <2> HIDE DEF G
  <2> QED BY <1>0
<1> HIDE DEF op, n
<1>3. step \in [1 .. n -> [V -> V]] /\ \A i \in 1 .. n, v \in V : step[i][v] = op(v, maps[i])
  BY <1>1
<1> HIDE DEF step
<1> PICK g : IsFold(n, V, f, step, g)
  BY <1>1, <1>3, FoldExists
<1>4. ASSUME NEW s \in SUBSET (1 .. n), s # {} PROVE Max(s) \in 1 .. n /\ s \ {Max(s)} \in SUBSET (1 .. n)
  BY <1>1, <1>4, MaxOf
<1>5. Eq(g)
  BY <1>3, <1>4 DEF IsFold
<1> HIDE DEF Eq
<1>6. Eq(G)
  BY <1>5
<1> HIDE DEF G
<1>7. G[{}] = f /\ \A s \in SUBSET (1 .. n) :
          s # {} /\ G[s \ {Max(s)}] \in V => G[s] = step[Max(s)][G[s \ {Max(s)}]]
  BY <1>3, <1>4, <1>6 DEF Eq
<1>8. GoesThrough(n, V, f, step, G[1 .. n])
  BY <1>1, <1>3, <1>7, FoldTrace
<1> PICK tr \in [0 .. n -> V] : tr[0] = f /\ (\A i \in 1 .. n : tr[i] = step[i][tr[i - 1]]) /\ tr[n] = G[1 .. n]
  BY <1>8, Zenon DEF GoesThrough
<1>9. ASSUME NEW i \in 1 .. n PROVE tr[i] = op(tr[i - 1], maps[i])
  <2>1. tr[i - 1] \in V /\ tr[i] = step[i][tr[i - 1]]
    BY <1>1
  <2> QED BY <1>3, <2>1
<1> QED BY <1>9, Zenon

TraceEditBindings(removal, maps, V, f) ==
  \E tr \in [0 .. Len(maps) -> V] :
    /\ tr[0] = f /\ \A i \in 1 .. Len(maps) : tr[i] = EditBinding(tr[i - 1], maps[i], removal)
    /\ tr[Len(maps)] = EditBindings(f, maps, removal)

LEMMA EditBindingsTrace ==
  ASSUME NEW removal, NEW maps, Len(maps) \in Nat, DOMAIN maps = 1 .. Len(maps), NEW V, NEW f \in V,
         \A v \in V, i \in 1 .. Len(maps) : EditBinding(v, maps[i], removal) \in V
  PROVE  TraceEditBindings(removal, maps, V, f)
<1> DEFINE n == Len(maps)
           op(v, x) == EditBinding(v, x, removal)
           step == [i \in 1 .. n |-> [v \in V |-> op(v, maps[i])]]
           Eq(g) == g = [s \in SUBSET (1 .. n) |-> IF s = {} THEN f ELSE op(g[s \ {Max(s)}], maps[Max(s)])]
           G == CHOOSE g : Eq(g)
<1>0. EditBindings(f, maps, removal) = G[1 .. n]
  BY Zenon DEF EditBindings, FoldLeft, MapThenFoldSet
<1>s. SUFFICES \E tr \in [0 .. Len(maps) -> V] :
           /\ tr[0] = f /\ \A i \in 1 .. Len(maps) : tr[i] = EditBinding(tr[i - 1], maps[i], removal)
           /\ tr[Len(maps)] = EditBindings(f, maps, removal)
  BY Zenon DEF TraceEditBindings
<1>1. n \in Nat /\ \A v \in V, i \in 1 .. n : op(v, maps[i]) \in V
  OBVIOUS
<1>2. SUFFICES \E tr \in [0 .. n -> V] :
           /\ tr[0] = f /\ \A i \in 1 .. n : tr[i] = op(tr[i - 1], maps[i])
           /\ tr[n] = G[1 .. n]
  <2> HIDE DEF G
  <2> QED BY <1>0
<1> HIDE DEF op, n
<1>3. step \in [1 .. n -> [V -> V]] /\ \A i \in 1 .. n, v \in V : step[i][v] = op(v, maps[i])
  BY <1>1
<1> HIDE DEF step
<1> PICK g : IsFold(n, V, f, step, g)
  BY <1>1, <1>3, FoldExists
<1>4. ASSUME NEW s \in SUBSET (1 .. n), s # {} PROVE Max(s) \in 1 .. n /\ s \ {Max(s)} \in SUBSET (1 .. n)
  BY <1>1, <1>4, MaxOf
<1>5. Eq(g)
  BY <1>3, <1>4 DEF IsFold
<1> HIDE DEF Eq
<1>6. Eq(G)
  BY <1>5
<1> HIDE DEF G
<1>7. G[{}] = f /\ \A s \in SUBSET (1 .. n) :
          s # {} /\ G[s \ {Max(s)}] \in V => G[s] = step[Max(s)][G[s \ {Max(s)}]]
  BY <1>3, <1>4, <1>6 DEF Eq
<1>8. GoesThrough(n, V, f, step, G[1 .. n])
  BY <1>1, <1>3, <1>7, FoldTrace
<1> PICK tr \in [0 .. n -> V] : tr[0] = f /\ (\A i \in 1 .. n : tr[i] = step[i][tr[i - 1]]) /\ tr[n] = G[1 .. n]
  BY <1>8, Zenon DEF GoesThrough
<1>9. ASSUME NEW i \in 1 .. n PROVE tr[i] = op(tr[i - 1], maps[i])
  <2>1. tr[i - 1] \in V /\ tr[i] = step[i][tr[i - 1]]
    BY <1>1
  <2> QED BY <1>3, <2>1
<1> QED BY <1>9, Zenon

TraceAppendAll(names, V, list) ==
  \E tr \in [0 .. Len(names) -> V] :
    /\ tr[0] = list /\ \A i \in 1 .. Len(names) : tr[i] = AppendPerElement(tr[i - 1], names[i])
    /\ tr[Len(names)] = AppendAll(list, names)

LEMMA AppendAllTrace ==
  ASSUME NEW names, Len(names) \in Nat, DOMAIN names = 1 .. Len(names), NEW V, NEW list \in V,
         \A v \in V, i \in 1 .. Len(names) : AppendPerElement(v, names[i]) \in V
  PROVE  TraceAppendAll(names, V, list)
<1> DEFINE n == Len(names)
           op(v, x) == AppendPerElement(v, x)
           step == [i \in 1 .. n |-> [v \in V |-> op(v, names[i])]]
           Eq(g) == g = [s \in SUBSET (1 .. n) |-> IF s = {} THEN list ELSE op(g[s \ {Max(s)}], names[Max(s)])]
           G == CHOOSE g : Eq(g)
<1>0. AppendAll(list, names) = G[1 .. n]
  BY Zenon DEF AppendAll, FoldLeft, MapThenFoldSet
<1>1. n \in Nat /\ \A v \in V, i \in 1 .. n : op(v, names[i]) \in V
  OBVIOUS
<1>2. SUFFICES \E tr \in [0 .. n -> V] :
           /\ tr[0] = list /\ \A i \in 1 .. n : tr[i] = op(tr[i - 1], names[i])
           /\ tr[n] = G[1 .. n]
  <2> HIDE DEF G
  <2> QED BY <1>0 DEF TraceAppendAll
<1> HIDE DEF op, n
<1>3. step \in [1 .. n -> [V -> V]] /\ \A i \in 1 .. n, v \in V : step[i][v] = op(v, names[i])
  BY <1>1
<1> HIDE DEF step
<1> PICK g : IsFold(n, V, list, step, g)
  BY <1>1, <1>3, FoldExists
<1>4. ASSUME NEW s \in SUBSET (1 .. n), s # {} PROVE Max(s) \in 1 .. n /\ s \ {Max(s)} \in SUBSET (1 .. n)
  BY <1>1, <1>4, MaxOf
<1>5. Eq(g)
  BY <1>3, <1>4 DEF IsFold
<1> HIDE DEF Eq
<1>6. Eq(G)
  BY <1>5
<1> HIDE DEF G
<1>7. G[{}] = list /\ \A s \in SUBSET (1 .. n) :
          s # {} /\ G[s \ {Max(s)}] \in V => G[s] = step[Max(s)][G[s \ {Max(s)}]]
  BY <1>3, <1>4, <1>6 DEF Eq
<1>8. GoesThrough(n, V, list, step, G[1 .. n])
  BY <1>1, <1>3, <1>7, FoldTrace
<1> PICK tr \in [0 .. n -> V] : tr[0] = list /\ (\A i \in 1 .. n : tr[i] = step[i][tr[i - 1]]) /\ tr[n] = G[1 .. n]
  BY <1>8, Zenon DEF GoesThrough
<1>9. ASSUME NEW i \in 1 .. n PROVE tr[i] = op(tr[i - 1], names[i])
  <2>1. tr[i - 1] \in V /\ tr[i] = step[i][tr[i - 1]]
    BY <1>1
  <2> QED BY <1>3, <2>1
<1> QED BY <1>9, Zenon

LEMMA RemoveAllTrace ==
  ASSUME NEW names, Len(names) \in Nat, DOMAIN names = 1 .. Len(names), NEW V, NEW list \in V,
         \A v \in V, i \in 1 .. Len(names) : RemoveFirst(v, names[i]) \in V
  PROVE  \E tr \in [0 .. Len(names) -> V] :
           /\ tr[0] = list /\ \A i \in 1 .. Len(names) : tr[i] = RemoveFirst(tr[i - 1], names[i])
           /\ tr[Len(names)] = RemoveAll(list, names)
<1> DEFINE n == Len(names)
           op(v, x) == RemoveFirst(v, x)
           step == [i \in 1 .. n |-> [v \in V |-> op(v, names[i])]]
           Eq(g) == g = [s \in SUBSET (1 .. n) |-> IF s = {} THEN list ELSE op(g[s \ {Max(s)}], names[Max(s)])]
           G == CHOOSE g : Eq(g)
<1>0. RemoveAll(list, names) = G[1 .. n]
  BY Zenon DEF RemoveAll, FoldLeft, MapThenFoldSet
<1>1. n \in Nat /\ \A v \in V, i \in 1 .. n : op(v, names[i]) \in V
  OBVIOUS
<1>2. SUFFICES \E tr \in [0 .. n -> V] :
           /\ tr[0] = list /\ \A i \in 1 .. n : tr[i] = op(tr[i - 1], names[i])
           /\ tr[n] = G[1 .. n]
  <2> HIDE DEF G
  <2> QED BY <1>0
<1> HIDE DEF op, n
<1>3. step \in [1 .. n -> [V -> V]] /\ \A i \in 1 .. n, v \in V : step[i][v] = op(v, names[i])
  BY <1>1
<1> HIDE DEF step
<1> PICK g : IsFold(n, V, list, step, g)
  BY <1>1, <1>3, FoldExists
<1>4. ASSUME NEW s \in SUBSET (1 .. n), s # {} PROVE Max(s) \in 1 .. n /\ s \ {Max(s)} \in SUBSET (1 .. n)
  BY <1>1, <1>4, MaxOf
<1>5. Eq(g)
  BY <1>3, <1>4 DEF IsFold
<1> HIDE DEF Eq
<1>6. Eq(G)
  BY <1>5
<1> HIDE DEF G
<1>7. G[{}] = list /\ \A s \in SUBSET (1 .. n) :
          s # {} /\ G[s \ {Max(s)}] \in V => G[s] = step[Max(s)][G[s \ {Max(s)}]]
  BY <1>3, <1>4, <1>6 DEF Eq
<1>8. GoesThrough(n, V, list, step, G[1 .. n])
  BY <1>1, <1>3, <1>7, FoldTrace
<1> PICK tr \in [0 .. n -> V] : tr[0] = list /\ (\A i \in 1 .. n : tr[i] = step[i][tr[i - 1]]) /\ tr[n] = G[1 .. n]
  BY <1>8, Zenon DEF GoesThrough
<1>9. ASSUME NEW i \in 1 .. n PROVE tr[i] = op(tr[i - 1], names[i])
  <2>1. tr[i - 1] \in V /\ tr[i] = step[i][tr[i - 1]]
    BY <1>1
  <2> QED BY <1>3, <2>1
<1> QED BY <1>9, Zenon

TraceChangeLBPortConfigs(names, removal, maps, V, config) ==
  \E tr \in [0 .. Len(maps) -> V] :
    /\ tr[0] = {config} /\ \A i \in 1 .. Len(maps) : tr[i] = EachConfig(tr[i - 1], maps[i], names, removal)
    /\ tr[Len(maps)] = ChangeLBPortConfigs(config, maps, names, removal)

LEMMA ChangeLBPortConfigsTrace ==
  ASSUME NEW names, NEW removal, NEW maps, Len(maps) \in Nat, DOMAIN maps = 1 .. Len(maps), NEW V, NEW config, {config} \in V,
         \A v \in V, i \in 1 .. Len(maps) : EachConfig(v, maps[i], names, removal) \in V
  PROVE  TraceChangeLBPortConfigs(names, removal, maps, V, config)
<1> DEFINE n == Len(maps)
           op(v, x) == EachConfig(v, x, names, removal)
           step == [i \in 1 .. n |-> [v \in V |-> op(v, maps[i])]]
           Eq(g) == g = [s \in SUBSET (1 .. n) |-> IF s = {} THEN {config} ELSE op(g[s \ {Max(s)}], maps[Max(s)])]
           G == CHOOSE g : Eq(g)
<1>0. ChangeLBPortConfigs(config, maps, names, removal) = G[1 .. n]
  BY Zenon DEF ChangeLBPortConfigs, EachConfig, FoldLeft, MapThenFoldSet
<1>s. SUFFICES \E tr \in [0 .. Len(maps) -> V] :
           /\ tr[0] = {config} /\ \A i \in 1 .. Len(maps) : tr[i] = EachConfig(tr[i - 1], maps[i], names, removal)
           /\ tr[Len(maps)] = ChangeLBPortConfigs(config, maps, names, removal)
  BY Zenon DEF TraceChangeLBPortConfigs
<1>1. n \in Nat /\ \A v \in V, i \in 1 .. n : op(v, maps[i]) \in V
  OBVIOUS
<1>2. SUFFICES \E tr \in [0 .. n -> V] :
           /\ tr[0] = {config} /\ \A i \in 1 .. n : tr[i] = op(tr[i - 1], maps[i])
           /\ tr[n] = G[1 .. n]
  <2> HIDE DEF G
  <2> QED BY <1>0
<1> HIDE DEF op, n
<1>3. step \in [1 .. n -> [V -> V]] /\ \A i \in 1 .. n, v \in V : step[i][v] = op(v, maps[i])
  BY <1>1
<1> HIDE DEF step
<1> PICK g : IsFold(n, V, {config}, step, g)
  BY <1>1, <1>3, FoldExists
<1>4. ASSUME NEW s \in SUBSET (1 .. n), s # {} PROVE Max(s) \in 1 .. n /\ s \ {Max(s)} \in SUBSET (1 .. n)
  BY <1>1, <1>4, MaxOf
<1>5. Eq(g)
  BY <1>3, <1>4 DEF IsFold
<1> HIDE DEF Eq
<1>6. Eq(G)
  BY <1>5
<1> HIDE DEF G
<1>7. G[{}] = {config} /\ \A s \in SUBSET (1 .. n) :
          s # {} /\ G[s \ {Max(s)}] \in V => G[s] = step[Max(s)][G[s \ {Max(s)}]]
  BY <1>3, <1>4, <1>6 DEF Eq
<1>8. GoesThrough(n, V, {config}, step, G[1 .. n])
  BY <1>1, <1>3, <1>7, FoldTrace
<1> PICK tr \in [0 .. n -> V] : tr[0] = {config} /\ (\A i \in 1 .. n : tr[i] = step[i][tr[i - 1]]) /\ tr[n] = G[1 .. n]
  BY <1>8, Zenon DEF GoesThrough
<1>9. ASSUME NEW i \in 1 .. n PROVE tr[i] = op(tr[i - 1], maps[i])
  <2>1. tr[i - 1] \in V /\ tr[i] = step[i][tr[i - 1]]
    BY <1>1
  <2> QED BY <1>3, <2>1
<1> QED BY <1>9, Zenon

TraceTransformPorts(nodes, hasLb, options, V, st) ==
  \E tr \in [0 .. Len(options) -> V] :
    /\ tr[0] = {st} /\ \A i \in 1 .. Len(options) : tr[i] = EachState(nodes, hasLb, tr[i - 1], options[i])
    /\ tr[Len(options)] = TransformPorts(nodes, hasLb, st, options)

LEMMA TransformPortsTrace ==
  ASSUME NEW nodes, NEW hasLb, NEW options, Len(options) \in Nat, DOMAIN options = 1 .. Len(options), NEW V, NEW st, {st} \in V,
         \A v \in V, i \in 1 .. Len(options) : EachState(nodes, hasLb, v, options[i]) \in V
  PROVE  TraceTransformPorts(nodes, hasLb, options, V, st)
<1> DEFINE n == Len(options)
           op(v, x) == EachState(nodes, hasLb, v, x)
           step == [i \in 1 .. n |-> [v \in V |-> op(v, options[i])]]
           Eq(g) == g = [s \in SUBSET (1 .. n) |-> IF s = {} THEN {st} ELSE op(g[s \ {Max(s)}], options[Max(s)])]
           G == CHOOSE g : Eq(g)
<1>0. TransformPorts(nodes, hasLb, st, options) = G[1 .. n]
  BY Zenon DEF TransformPorts, EachState, FoldLeft, MapThenFoldSet
<1>s. SUFFICES \E tr \in [0 .. Len(options) -> V] :
           /\ tr[0] = {st} /\ \A i \in 1 .. Len(options) : tr[i] = EachState(nodes, hasLb, tr[i - 1], options[i])
           /\ tr[Len(options)] = TransformPorts(nodes, hasLb, st, options)
  BY Zenon DEF TraceTransformPorts
<1>1. n \in Nat /\ \A v \in V, i \in 1 .. n : op(v, options[i]) \in V
  OBVIOUS
<1>2. SUFFICES \E tr \in [0 .. n -> V] :
           /\ tr[0] = {st} /\ \A i \in 1 .. n : tr[i] = op(tr[i - 1], options[i])
           /\ tr[n] = G[1 .. n]
  <2> HIDE DEF G
  <2> QED BY <1>0
<1> HIDE DEF op, n
<1>3. step \in [1 .. n -> [V -> V]] /\ \A i \in 1 .. n, v \in V : step[i][v] = op(v, options[i])
  BY <1>1
<1> HIDE DEF step
<1> PICK g : IsFold(n, V, {st}, step, g)
  BY <1>1, <1>3, FoldExists
<1>4. ASSUME NEW s \in SUBSET (1 .. n), s # {} PROVE Max(s) \in 1 .. n /\ s \ {Max(s)} \in SUBSET (1 .. n)
  BY <1>1, <1>4, MaxOf
<1>5. Eq(g)
  BY <1>3, <1>4 DEF IsFold
<1> HIDE DEF Eq
<1>6. Eq(G)
  BY <1>5
<1> HIDE DEF G
<1>7. G[{}] = {st} /\ \A s \in SUBSET (1 .. n) :
          s # {} /\ G[s \ {Max(s)}] \in V => G[s] = step[Max(s)][G[s \ {Max(s)}]]
  BY <1>3, <1>4, <1>6 DEF Eq
<1>8. GoesThrough(n, V, {st}, step, G[1 .. n])
  BY <1>1, <1>3, <1>7, FoldTrace
<1> PICK tr \in [0 .. n -> V] : tr[0] = {st} /\ (\A i \in 1 .. n : tr[i] = step[i][tr[i - 1]]) /\ tr[n] = G[1 .. n]
  BY <1>8, Zenon DEF GoesThrough
<1>9. ASSUME NEW i \in 1 .. n PROVE tr[i] = op(tr[i - 1], options[i])
  <2>1. tr[i - 1] \in V /\ tr[i] = step[i][tr[i - 1]]
    BY <1>1
  <2> QED BY <1>3, <2>1
<1> QED BY <1>9, Zenon


\* What some step reaches and no later one leaves holds at the end.
LEMMA Stays ==
  ASSUME NEW n \in Nat, NEW tr, NEW P, NEW k \in 0 .. n, tr[k] \in P,
         \A i \in 1 .. n : tr[i - 1] \in P => tr[i] \in P
  PROVE  \A i \in k .. n : tr[i] \in P
<1> DEFINE Is == {i \in Nat : k + i <= n => tr[k + i] \in P}
<1>1. 0 \in Is
  BY k + 0 = k
<1>2. ASSUME NEW i \in Nat, i \in Is PROVE i + 1 \in Is
  <2> SUFFICES ASSUME k + (i + 1) <= n PROVE tr[k + (i + 1)] \in P
    OBVIOUS
  <2>1. tr[k + i] \in P /\ k + (i + 1) \in 1 .. n /\ (k + (i + 1)) - 1 = k + i
    BY <1>2
  <2> QED BY <2>1
<1>3. Is = Nat
  <2> HIDE DEF Is
  <2> QED BY <1>1, <1>2, SetInduction, Is \subseteq Nat DEF Is
<1>4. ASSUME NEW i \in k .. n PROVE tr[i] \in P
  <2>1. i - k \in Is /\ k + (i - k) = i
    <3> HIDE DEF Is
    <3> QED BY <1>3
  <2> QED BY <2>1
<1> QED BY <1>4

-----------------------------------------------------------------------------
(* Filters *)

\* The duplicates that are left out are of nodes that are there.
LEMMA DistinctRange ==
  ASSUME NEW X, NEW s \in Seq(X)
  PROVE  Distinct(s) \in Seq(X) /\ Range(Distinct(s)) = Range(s)
<1> DEFINE ss == [i \in DOMAIN s |-> IF \E j \in 1 .. i - 1 : s[j] = s[i] THEN <<>> ELSE <<s[i]>>]
<1>0. DOMAIN s = 1 .. Len(s) /\ Len(s) \in Nat /\ \A i \in 1 .. Len(s) : s[i] \in X
  OBVIOUS
<1>1. DOMAIN ss = 1 .. Len(s) /\ \A i \in 1 .. Len(s) : ss[i] = IF \E j \in 1 .. i - 1 : s[j] = s[i] THEN <<>> ELSE <<s[i]>>
  OBVIOUS
<1>2. ss \in Seq(Seq(X))
  <2>1. \A i \in 1 .. Len(s) : ss[i] \in Seq(X)
    <3>1. <<>> \in Seq(X) /\ \A x \in X : <<x>> \in Seq(X)
      OBVIOUS
    <3> HIDE DEF ss
    <3> QED BY <1>0, <1>1, <3>1
  <2>2. ss = [i \in 1 .. Len(s) |-> ss[i]]
    BY <1>0
  <2> HIDE DEF ss
  <2> QED BY <1>0, <2>1, <2>2
<1>3. Distinct(s) = FlattenSeq(ss)
  BY DEF Distinct
<1>4. \A x : Range(<<x>>) = {x}
  BY DEF Range
<1>5. Range(<<>>) = {}
  BY DEF Range
<1> HIDE DEF ss
<1>6. Distinct(s) \in Seq(X) /\ Range(Distinct(s)) = UNION {Range(ss[i]) : i \in 1 .. Len(s)}
  BY <1>1, <1>2, <1>3, FlattenRange
<1>7. ASSUME NEW i \in 1 .. Len(s) PROVE Range(ss[i]) \subseteq Range(s)
  <2>1. CASE \E j \in 1 .. i - 1 : s[j] = s[i]
    BY <1>1, <1>5, <2>1
  <2>2. CASE ~ \E j \in 1 .. i - 1 : s[j] = s[i]
    BY <1>0, <1>1, <1>4, <2>2 DEF Range
  <2> QED BY <2>1, <2>2
<1>8. ASSUME NEW x \in Range(s) PROVE \E i \in 1 .. Len(s) : x \in Range(ss[i])
  <2> DEFINE At == {i \in 1 .. Len(s) : s[i] = x}
  <2>1. At \in SUBSET Nat /\ At # {}
    BY <1>0 DEF Range
  <2> PICK i \in At : \A j \in At : i <= j
    <3> HIDE DEF At
    <3> QED BY <2>1, FirstOf
  <2>2. ~ \E j \in 1 .. i - 1 : s[j] = s[i]
    <3> SUFFICES ASSUME NEW j \in 1 .. i - 1, s[j] = s[i] PROVE FALSE
      OBVIOUS
    <3>1. j \in At /\ ~(i <= j)
      BY <1>0
    <3> QED BY <3>1
  <2>3. ss[i] = <<x>>
    BY <1>1, <2>2
  <2> QED BY <1>4, <2>3
<1> QED BY <1>6, <1>7, <1>8

\* The nodes of a role.
LEMMA GroupRange ==
  ASSUME NEW N, NEW nodes \in Seq(N), NEW role
  PROVE  /\ Group(nodes, role) \in Seq(Range(nodes)) /\ Group(nodes, role) \in Seq(N)
         /\ Range(Group(nodes, role)) = {n \in Range(nodes) : n.role = role}
<1> DEFINE ss == [i \in DOMAIN nodes |-> IF nodes[i].role = role THEN <<nodes[i]>> ELSE <<>>]
           X == Range(nodes)
<1>0. DOMAIN nodes = 1 .. Len(nodes) /\ Len(nodes) \in Nat /\ X \subseteq N /\ \A i \in 1 .. Len(nodes) : nodes[i] \in X
  BY DEF Range
<1>1. DOMAIN ss = 1 .. Len(nodes) /\ \A i \in 1 .. Len(nodes) : ss[i] = IF nodes[i].role = role THEN <<nodes[i]>> ELSE <<>>
  OBVIOUS
<1>2. ss \in Seq(Seq(X))
  <2>1. \A i \in 1 .. Len(nodes) : ss[i] \in Seq(X)
    <3>1. <<>> \in Seq(X) /\ \A x \in X : <<x>> \in Seq(X)
      OBVIOUS
    <3> HIDE DEF ss, X
    <3> QED BY <1>0, <1>1, <3>1
  <2>2. ss = [i \in 1 .. Len(nodes) |-> ss[i]]
    BY <1>0
  <2> HIDE DEF ss, X
  <2> QED BY <1>0, <2>1, <2>2
<1>3. Group(nodes, role) = FlattenSeq(ss)
  BY DEF Group
<1>4. Range(<<>>) = {} /\ \A x : Range(<<x>>) = {x}
  BY DEF Range
<1>5. \A x : x \in X <=> \E i \in 1 .. Len(nodes) : x = nodes[i]
  BY <1>0 DEF Range
<1> HIDE DEF ss, X
<1>6. FlattenSeq(ss) \in Seq(X) /\ Range(FlattenSeq(ss)) = UNION {Range(ss[i]) : i \in 1 .. Len(nodes)}
  BY <1>1, <1>2, FlattenRange
<1>7. UNION {Range(ss[i]) : i \in 1 .. Len(nodes)} = {n \in X : n.role = role}
  BY <1>1, <1>4, <1>5
<1>8. Seq(X) \subseteq Seq(N)
  BY <1>0
<1> QED BY <1>3, <1>6, <1>7, <1>8, Zenon DEF X

\* A filter for a role that is no error picks nodes of the role, by positions that exist.
LEMMA PickedIs ==
  ASSUME NEW N, NEW nodes \in Seq(N), NEW f \in Filters, f.group \in {"server", "agent"}, ~IsError(nodes, f)
  PROVE  LET group == Group(nodes, f.group)
             at == Indices(f.subset, Len(group))
         IN  /\ at \in Seq(Nat) /\ \A i \in 1 .. Len(at) : at[i] + 1 \in 1 .. Len(group)
             /\ Picked(nodes, f) \in Seq(Range(nodes)) /\ Len(Picked(nodes, f)) = Len(at)
             /\ \A i \in 1 .. Len(at) : Picked(nodes, f)[i] = group[at[i] + 1]
<1> DEFINE group == Group(nodes, f.group)
           at == Indices(f.subset, Len(group))
<1>1. group \in Seq(Range(nodes)) /\ Len(group) \in Nat /\ \A i \in 1 .. Len(group) : group[i] \in Range(nodes)
  <2>1. group \in Seq(Range(nodes))
    BY GroupRange
  <2> HIDE DEF group
  <2> QED BY <2>1
<1>2. SubsetFits(f.subset, Len(group)) /\ f.subset \in Subsets
  BY DEF IsError, Filters
<1>3. Picked(nodes, f) = [i \in DOMAIN at |-> group[at[i] + 1]]
  BY DEF Picked
<1> HIDE DEF group
<1>4. at \in Seq(Nat) /\ \A i \in 1 .. Len(at) : at[i] + 1 \in 1 .. Len(group)
  <2>1. CASE f.subset.kind = "list"
    <3>1. f.subset.of \in Seq(Nat) /\ at = f.subset.of
      BY <1>2, <2>1 DEF Subsets, None, Every, Indices
    <3>2. \A i \in Range(f.subset.of) : i < Len(group)
      BY <1>2, <2>1 DEF SubsetFits
    <3>3. \A i \in 1 .. Len(f.subset.of) : f.subset.of[i] \in Nat /\ f.subset.of[i] < Len(group)
      BY <3>1, <3>2 DEF Range
    <3> PICK s \in Seq(Nat) : s = f.subset.of
      BY <3>1
    <3>4. at = s /\ \A i \in 1 .. Len(s) : s[i] \in Nat /\ s[i] < Len(group)
      BY <3>1, <3>3
    <3> HIDE DEF at
    <3>5. ASSUME NEW i \in 1 .. Len(s) PROVE s[i] + 1 \in 1 .. Len(group)
      <4>1. Len(group) \in Nat
        BY <1>1
      <4>2. s[i] \in Nat /\ s[i] < Len(group)
        BY <3>4
      <4> QED BY <4>1, <4>2, SMTT(30)
    <3> QED BY <3>4, <3>5
  <2>2. CASE f.subset.kind = "range"
    <3> DEFINE from == RangeStart(f.subset)
               to == RangeEnd(f.subset, Len(group))
    <3>1. f.subset.from \in Nat \cup {Open} /\ f.subset.to \in Nat \cup {Open}
      BY <1>2, <2>2 DEF Subsets, None, Every
    <3>2. from \in Nat /\ to \in Int /\ to < Len(group)
      <4>1. f.subset.from # Open => f.subset.from < Len(group)
        BY <1>2, <2>2 DEF SubsetFits
      <4>2. f.subset.to # Open => f.subset.to < Len(group)
        BY <1>2, <2>2 DEF SubsetFits
      <4> QED BY <1>1, <3>1, <4>1, <4>2 DEF RangeStart, RangeEnd, Open
    <3>3. at = [i \in 1 .. to - from + 1 |-> from + i - 1]
      BY <2>2 DEF Indices
    <3> HIDE DEF from, to, at
    <3>4. CASE to - from + 1 \in Nat
      <4>1. \A i \in 1 .. to - from + 1 : from + i - 1 \in Nat /\ from + i - 1 < Len(group)
        BY <3>2
      <4>2. at = [i \in 1 .. to - from + 1 |-> at[i]] /\ \A i \in 1 .. to - from + 1 : at[i] = from + i - 1
        BY <3>3
      <4>3. at \in Seq(Nat) /\ Len(at) = to - from + 1
        <5> DEFINE n == to - from + 1
        <5>1. n \in Nat /\ at = [i \in 1 .. n |-> at[i]] /\ \A i \in 1 .. n : at[i] \in Nat
          BY <3>4, <4>1, <4>2
        <5> HIDE DEF n
        <5>2. at \in Seq(Nat) /\ Len(at) = n
          BY <5>1, IsSeq
        <5> QED BY <5>2 DEF n
      <4>4. \A i \in 1 .. to - from + 1 : at[i] + 1 \in 1 .. Len(group)
        BY <1>1, <4>1, <4>2
      <4> QED BY <4>3, <4>4
    <3>5. CASE ~(to - from + 1 \in Nat)
      <4>1. 1 .. to - from + 1 = {}
        BY <3>2, <3>5
      <4>2. at = <<>>
        BY <3>3, <4>1
      <4> QED BY <4>2
    <3> QED BY <3>4, <3>5
  <2>3. CASE f.subset.kind = "wildcard"
    <3>1. at = [i \in 1 .. Len(group) |-> i - 1]
      BY <2>3 DEF Indices
    <3> HIDE DEF at
    <3> QED BY <1>1, <3>1
  <2> QED BY <1>2, <2>1, <2>2, <2>3 DEF SubsetFits
<1> HIDE DEF at
<1>5. DOMAIN at = 1 .. Len(at) /\ Len(at) \in Nat
  BY <1>4
<1>6. Picked(nodes, f) \in Seq(Range(nodes)) /\ Len(Picked(nodes, f)) = Len(at)
  BY <1>1, <1>3, <1>4, <1>5
<1>7. \A i \in 1 .. Len(at) : Picked(nodes, f)[i] = group[at[i] + 1]
  BY <1>3, <1>5
<1> QED BY <1>4, <1>6, <1>7 DEF at, group

\* The nodes that a filter selects when its turn comes.
Selected(nodes, f) ==
  CASE f.group = "all" -> Range(nodes)
    [] f.group = "loadbalancer" -> Range(Group(nodes, "loadbalancer"))
    [] f.group \in {"server", "agent"} -> Range(Picked(nodes, f))

\* The loop ends at the first filter that ends it, if there is one.
LEMMA FirstEnd ==
  ASSUME NEW N, NEW nodes \in Seq(N), NEW filters \in Seq(Filters)
  PROVE  LET end == EndOf(nodes, filters)
         IN  /\ end \in 1 .. Len(filters) + 1 /\ \A i \in 1 .. end - 1 : ~Ends(nodes, filters[i])
             /\ end # Len(filters) + 1 => Ends(nodes, filters[end])
<1> DEFINE enders == {i \in DOMAIN filters : Ends(nodes, filters[i])}
           first == CHOOSE i \in enders : \A j \in enders : i <= j
<1>1. EndOf(nodes, filters) = IF enders = {} THEN Len(filters) + 1 ELSE first
  BY DEF EndOf
<1>2. enders \in SUBSET Nat /\ DOMAIN filters = 1 .. Len(filters) /\ Len(filters) \in Nat
  OBVIOUS
<1>3. \A i \in 1 .. Len(filters) : i \in enders <=> Ends(nodes, filters[i])
  BY <1>2
<1>4. enders \subseteq 1 .. Len(filters)
  BY <1>2
<1> HIDE DEF enders
<1>5. CASE enders = {}
  BY <1>1, <1>2, <1>3, <1>5
<1>6. CASE enders # {}
  <2>1. \E i \in enders : \A j \in enders : i <= j
    BY <1>2, <1>6, FirstOf
  <2>2. first \in enders /\ \A j \in enders : first <= j
    BY <2>1
  <2> HIDE DEF first
  <2>3. ASSUME NEW i \in 1 .. first - 1 PROVE ~Ends(nodes, filters[i])
    BY <1>2, <1>3, <1>4, <2>2
  <2> QED BY <1>1, <1>2, <1>3, <1>4, <1>6, <2>2, <2>3
<1> QED BY <1>5, <1>6

\* The filters before the one that ends the loop pick nodes, each only once.
LEMMA PickedBeforeIs ==
  ASSUME NEW N, NEW nodes \in Seq(N), NEW filters \in Seq(Filters), NEW end \in 1 .. Len(filters) + 1,
         \A i \in 1 .. end - 1 : ~Ends(nodes, filters[i])
  PROVE  LET before == PickedBefore(nodes, filters, end)
         IN  before \in Seq(Range(nodes)) /\ Range(before) = UNION {Selected(nodes, filters[i]) : i \in 1 .. end - 1}
<1> DEFINE m == end - 1
<1>0. m \in Nat /\ (\A i \in 1 .. m : i \in DOMAIN filters /\ ~Ends(nodes, filters[i]))
      /\ PickedBefore(nodes, filters, end) = Distinct(FlattenSeq([i \in 1 .. m |-> Picked(nodes, filters[i])]))
  BY DEF PickedBefore
<1> HIDE DEF m
<1> DEFINE X == Range(nodes)
           ss == [i \in 1 .. m |-> Picked(nodes, filters[i])]
<1>1. ASSUME NEW i \in 1 .. m
      PROVE  Picked(nodes, filters[i]) \in Seq(X) /\ Selected(nodes, filters[i]) = Range(Picked(nodes, filters[i]))
  <2>1. filters[i] \in Filters
    BY <1>0
  <2>2. ~IsError(nodes, filters[i]) /\ filters[i].group \in {"server", "agent"}
    BY <1>0 DEF Ends, IsError, Parses, Groups
  <2>3. Picked(nodes, filters[i]) \in Seq(X)
    BY <2>1, <2>2, PickedIs
  <2> QED BY <2>2, <2>3 DEF Selected
<1>2. ss \in Seq(Seq(X)) /\ DOMAIN ss = 1 .. m
  <2>1. m \in Nat
    BY <1>0
  <2> HIDE DEF X
  <2>2. \A i \in 1 .. m : ss[i] \in Seq(X)
    BY <1>1
  <2>3. ss = [i \in 1 .. m |-> ss[i]] /\ DOMAIN ss = 1 .. m
    OBVIOUS
  <2> HIDE DEF ss
  <2> QED BY <2>1, <2>2, <2>3, IsSeq
<1>3. FlattenSeq(ss) \in Seq(X) /\ Range(FlattenSeq(ss)) = UNION {Range(ss[i]) : i \in 1 .. m}
  <2> HIDE DEF ss, X
  <2> QED BY <1>0, <1>2, FlattenRange
<1>4. Distinct(FlattenSeq(ss)) \in Seq(X) /\ Range(Distinct(FlattenSeq(ss))) = Range(FlattenSeq(ss))
  <2> HIDE DEF ss, X
  <2> QED BY <1>3, DistinctRange
<1>5. UNION {Range(ss[i]) : i \in 1 .. m} = UNION {Selected(nodes, filters[i]) : i \in 1 .. m}
  BY <1>1
<1> QED BY <1>0, <1>3, <1>4, <1>5 DEF m

\* What FilterNodes returns: each node is selected by one of the filters and, when none of
\* them cuts the others short, each node that is selected is there.
OneByOne(filters) ==
  \/ \A i \in DOMAIN filters : filters[i].group \in {"server", "agent"}
  \/ \A i, j \in DOMAIN filters : filters[i] = filters[j]

LEMMA FilterNodesIs ==
  ASSUME NEW N, NEW nodes \in Seq(N), NEW filters \in Seq(Filters), ~Unfiltered(filters),
         NEW l \in FilterNodes(nodes, filters)
  PROVE  /\ l \in Seq(Range(nodes))
         /\ \A n \in Range(l) : \E f \in Range(filters) : ~IsError(nodes, f) /\ n \in Selected(nodes, f)
         /\ OneByOne(filters) =>
              \A f \in Range(filters) : ~IsError(nodes, f) /\ Selected(nodes, f) \subseteq Range(l)
<1> DEFINE X == Range(nodes)
           end == EndOf(nodes, filters)
           before == PickedBefore(nodes, filters, end)
           last == filters[end]
<1>1. /\ end = Len(filters) + 1 => FilterNodes(nodes, filters) = {before}
      /\ end # Len(filters) + 1 /\ IsError(nodes, last) => FilterNodes(nodes, filters) = {}
      /\ end # Len(filters) + 1 /\ ~IsError(nodes, last) /\ last.group = "all" => FilterNodes(nodes, filters) = {nodes}
      /\ end # Len(filters) + 1 /\ ~IsError(nodes, last) /\ last.group = "loadbalancer" =>
           FilterNodes(nodes, filters) = {before \o Group(nodes, "loadbalancer")}
  BY DEF FilterNodes
<1>2. DOMAIN filters = 1 .. Len(filters) /\ Len(filters) \in Nat /\ filters # <<>> /\ nodes \in Seq(X)
  BY DEF Unfiltered, Range
<1>3. \A f : f \in Range(filters) <=> \E i \in 1 .. Len(filters) : f = filters[i]
  BY <1>2 DEF Range
<1>4. /\ end \in 1 .. Len(filters) + 1 /\ \A i \in 1 .. end - 1 : ~Ends(nodes, filters[i])
      /\ end # Len(filters) + 1 => Ends(nodes, last)
  BY FirstEnd, Zenon
<1> HIDE DEF end
<1>b. before \in Seq(X) /\ Range(before) = UNION {Selected(nodes, filters[i]) : i \in 1 .. end - 1}
  BY <1>4, PickedBeforeIs
<1> HIDE DEF before, X
<1>5. CASE end = Len(filters) + 1
  <2>1. l = before /\ end - 1 = Len(filters)
    BY <1>1, <1>2, <1>5
  <2>2. \A i \in 1 .. Len(filters) : ~IsError(nodes, filters[i])
    BY <1>4, <2>1 DEF Ends
  <2> QED BY <1>3, <1>b, <2>1, <2>2 DEF X
<1>6. CASE end # Len(filters) + 1
  <2>1. /\ end \in 1 .. Len(filters) /\ Ends(nodes, last) /\ \A i \in 1 .. end - 1 : ~Ends(nodes, filters[i])
    BY <1>2, <1>4, <1>6
  <2>2. 1 .. end - 1 \subseteq 1 .. Len(filters)
    BY <1>2, <2>1
  <2>5. ~IsError(nodes, last) /\ last.group \in {"all", "loadbalancer"}
    BY <1>1, <1>6, <2>1 DEF Ends
  <2>6. last \in Range(filters)
    BY <1>3, <2>1
  <2>7. OneByOne(filters) => \A f \in Range(filters) : f = last
    BY <1>2, <1>3, <2>1, <2>5 DEF OneByOne
  <2>8. CASE last.group = "all"
    <3>1. l = nodes /\ Selected(nodes, last) = X
      BY <1>1, <1>6, <2>5, <2>8 DEF Selected, X
    <3> QED BY <1>2, <2>5, <2>6, <2>7, <3>1 DEF X
  <2>9. CASE last.group = "loadbalancer"
    <3> DEFINE group == Group(nodes, "loadbalancer")
    <3>1. l = before \o group /\ Selected(nodes, last) = Range(group)
      BY <1>1, <1>6, <2>5, <2>9 DEF Selected
    <3>2. group \in Seq(X)
      BY GroupRange DEF X
    <3> HIDE DEF group
    <3>3. before \o group \in Seq(X) /\ Range(before \o group) = Range(before) \cup Range(group)
      BY <1>b, <3>2, Joining, JoinedRange
    <3>4. ASSUME NEW n \in Range(before) PROVE \E f \in Range(filters) : ~IsError(nodes, f) /\ n \in Selected(nodes, f)
      <4> PICK i \in 1 .. end - 1 : n \in Selected(nodes, filters[i])
        BY <1>b
      <4> QED BY <1>3, <2>1, <2>2 DEF Ends
    <3>5. l \in Seq(X) /\ Range(l) = Range(before) \cup Range(group)
      BY <3>1, <3>3, Zenon
    <3>6. Selected(nodes, last) \subseteq Range(l)
      BY <3>1, <3>5
    <3> QED BY <2>5, <2>6, <2>7, <3>1, <3>4, <3>5, <3>6 DEF X
  <2> QED BY <2>5, <2>8, <2>9
<1> QED BY <1>5, <1>6

\* Whatever the filters are, the nodes returned are among those given.
LEMMA FilterNodesTyped ==
  ASSUME NEW N, NEW nodes \in Seq(N), NEW filters \in Seq(Filters), NEW l \in FilterNodes(nodes, filters)
  PROVE  l \in Seq(Range(nodes))
<1>1. CASE Unfiltered(filters)
  BY <1>1 DEF FilterNodes, Range
<1>2. CASE ~Unfiltered(filters)
  BY <1>2, FilterNodesIs
<1> QED BY <1>1, <1>2

\* A filter without its suffix, and the nodes it selects.
Bare(f) == [f EXCEPT !.suffix = NoSuffix]
Chosen(nodes, f) == CHOOSE l \in FilterNodes(nodes, <<Bare(f)>>) : TRUE

LEMMA BareIs ==
  ASSUME NEW f \in Filters
  PROVE  /\ Bare(f) \in Filters /\ <<Bare(f)>> \in Seq(Filters)
         /\ Bare(f).group = f.group /\ Bare(f).subset = f.subset /\ Bare(f).bracketed = f.bracketed
<1>1. /\ Bare(f).group = f.group /\ Bare(f).subset = f.subset /\ Bare(f).bracketed = f.bracketed
      /\ Bare(f) \in [group : Texts(Groups), subset : Subsets, suffix : Texts({NoSuffix, "proxy", "direct"}), bracketed : BOOLEAN]
  <2>1. f = [group |-> f.group, subset |-> f.subset, suffix |-> f.suffix, bracketed |-> f.bracketed]
    BY DEF Filters
  <2>2. f.group \in Texts(Groups) /\ f.subset \in Subsets /\ f.bracketed \in BOOLEAN
    BY DEF Filters
  <2>3. Bare(f) = [group |-> f.group, subset |-> f.subset, suffix |-> NoSuffix, bracketed |-> f.bracketed]
    BY <2>1 DEF Bare
  <2>4. NoSuffix \in Texts({NoSuffix, "proxy", "direct"})
    BY DEF Texts
  <2> QED BY <2>2, <2>3, <2>4
<1>2. Bare(f) \in Filters
  BY <1>1 DEF Filters
<1> HIDE DEF Filters
<1> QED BY <1>1, <1>2

\* The groups of nodes by suffix: those that the filters with the suffix select.
LEMMA SuffixGroups ==
  ASSUME NEW N, NEW nodes \in Seq(N), NEW filters \in Seq(Filters), NEW allowed,
         NEW groups \in FilterNodesWithSuffix(nodes, filters, allowed)
  PROVE  /\ ~Unfiltered(filters)
         /\ \A f \in Range(filters) : f.suffix \in allowed \cup {NoSuffix, "all"} /\ FilterNodes(nodes, <<Bare(f)>>) # {}
         /\ \A s \in allowed \cup {NoSuffix} : s # "all" =>
              /\ groups[s] \in Seq(Range(nodes))
              /\ \A f \in Range(filters) : f.suffix = s => Range(Chosen(nodes, f)) \subseteq Range(groups[s])
<1> DEFINE X == Range(nodes)
           suffixes == allowed \cup {NoSuffix, "all"}
           of(i) == FilterNodes(nodes, <<Bare(filters[i])>>)
           list(i, s) == IF filters[i].suffix = s THEN Chosen(nodes, filters[i]) ELSE <<>>
           ss(s) == [i \in DOMAIN filters |-> list(i, s)]
<1>1. /\ ~Unfiltered(filters) /\ \A i \in DOMAIN filters : filters[i].suffix \in suffixes /\ of(i) # {}
      /\ groups = [s \in suffixes |-> (IF s = "all" THEN nodes ELSE <<>>) \o FlattenSeq(ss(s))]
  BY Zenon DEF FilterNodesWithSuffix, Bare, Chosen
<1>2. DOMAIN filters = 1 .. Len(filters) /\ Len(filters) \in Nat /\ \A i \in 1 .. Len(filters) : filters[i] \in Filters
  OBVIOUS
<1>3. \A f : f \in Range(filters) <=> \E i \in 1 .. Len(filters) : f = filters[i]
  BY <1>2 DEF Range
<1>4. \A f \in Range(filters) : f.suffix \in suffixes /\ FilterNodes(nodes, <<Bare(f)>>) # {}
  BY <1>1, <1>2, <1>3
<1>5. ASSUME NEW s \in allowed \cup {NoSuffix}, s # "all"
      PROVE  groups[s] \in Seq(X) /\ \A f \in Range(filters) : f.suffix = s => Range(Chosen(nodes, f)) \subseteq Range(groups[s])
  <2> DEFINE t == ss(s)
  <2>1. \A i \in 1 .. Len(filters) : t[i] = IF filters[i].suffix = s THEN Chosen(nodes, filters[i]) ELSE <<>>
    BY <1>2
  <2>2. t = [i \in 1 .. Len(filters) |-> t[i]]
    BY <1>2
  <2>3. groups[s] = <<>> \o FlattenSeq(t)
    <3>1. groups[s] = (IF s = "all" THEN nodes ELSE <<>>) \o FlattenSeq(t)
      <4>1. s \in suffixes
        OBVIOUS
      <4> QED BY <1>1, <4>1, Zenon
    <3> HIDE DEF t
    <3> QED BY <1>5, <3>1
  <2> HIDE DEF t
  <2>4. ASSUME NEW i \in 1 .. Len(filters) PROVE t[i] \in Seq(X)
    <3>1. Chosen(nodes, filters[i]) \in Seq(X)
      <4>1. filters[i] \in Filters /\ of(i) # {}
        BY <1>1, <1>2
      <4>2. Chosen(nodes, filters[i]) \in of(i)
        BY <4>1 DEF Chosen
      <4> QED BY <4>1, <4>2, BareIs, FilterNodesTyped
    <3>2. <<>> \in Seq(X)
      OBVIOUS
    <3> QED BY <2>1, <3>1, <3>2
  <2>5. t \in Seq(Seq(X)) /\ DOMAIN t = 1 .. Len(filters)
    <3> HIDE DEF X
    <3> QED BY <1>2, <2>2, <2>4, IsSeq
  <2>6. FlattenSeq(t) \in Seq(X) /\ Range(FlattenSeq(t)) = UNION {Range(t[i]) : i \in 1 .. Len(filters)}
    <3> HIDE DEF X
    <3> QED BY <2>5, FlattenRange
  <2>7. groups[s] = FlattenSeq(t)
    <3> DEFINE u == FlattenSeq(t)
    <3>1. u \in Seq(X) /\ groups[s] = <<>> \o u
      BY <2>3, <2>6
    <3> HIDE DEF u
    <3>2. groups[s] = u
      BY <3>1
    <3> QED BY <3>2 DEF u
  <2>8. ASSUME NEW f \in Range(filters), f.suffix = s PROVE Range(Chosen(nodes, f)) \subseteq Range(groups[s])
    <3> PICK i \in 1 .. Len(filters) : f = filters[i]
      BY <1>3
    <3>1. t[i] = Chosen(nodes, f)
      BY <2>1, <2>8
    <3> QED BY <2>6, <2>7, <3>1
  <2> QED BY <2>6, <2>7, <2>8
<1> QED BY <1>1, <1>4, <1>5

-----------------------------------------------------------------------------
(* Ports *)

Bindings == [Ports -> Seq(Nat)]
Mappings == [host : Nat, port : Ports]

LEMMA RemovedFirst ==
  ASSUME NEW X, NEW s \in Seq(X), NEW x
  PROVE  RemoveFirst(s, x) \in Seq(X)
<1> DEFINE At == {i \in 1 .. Len(s) : s[i] = x}
<1>1. CASE At # {}
  <2>1. At \in SUBSET Nat
    OBVIOUS
  <2>2. \E i \in At : \A j \in At : i <= j
    <3> HIDE DEF At
    <3> QED BY <1>1, <2>1, FirstOf
  <2>3. Min(At) \in At
    <3> HIDE DEF At
    <3> QED BY <2>2 DEF Min
  <2>4. Min(At) \in 1 .. Len(s)
    BY <2>3
  <2>5. RemoveFirst(s, x) = SubSeq(s, 1, Min(At) - 1) \o SubSeq(s, Min(At) + 1, Len(s))
    BY <1>1 DEF RemoveFirst, SelectInSeq, RemoveAt
  <2> DEFINE m == Min(At)
  <2>6. m \in 1 .. Len(s) /\ RemoveFirst(s, x) = SubSeq(s, 1, m - 1) \o SubSeq(s, m + 1, Len(s))
    BY <2>4, <2>5
  <2> HIDE DEF m, At
  <2>7. SubSeq(s, 1, m - 1) \in Seq(X) /\ SubSeq(s, m + 1, Len(s)) \in Seq(X)
    BY <2>6
  <2> DEFINE a == SubSeq(s, 1, m - 1)
             b == SubSeq(s, m + 1, Len(s))
  <2>8. a \in Seq(X) /\ b \in Seq(X) /\ RemoveFirst(s, x) = a \o b
    BY <2>6, <2>7
  <2> HIDE DEF a, b
  <2> QED BY <2>8
<1>2. CASE At = {}
  BY <1>2 DEF RemoveFirst
<1> QED BY <1>1, <1>2

\* Mapping by mapping: what an addition leaves of the list of a port.
LEMMA BindIs ==
  ASSUME NEW f \in Bindings, NEW m \in Mappings, NEW removal \in BOOLEAN
  PROVE  /\ Bind(f, m, removal) \in Bindings /\ EditBinding(f, m, removal) \in Bindings
         /\ ~removal => /\ m.host \in Range(Bind(f, m, removal)[m.port])
                        /\ \A p \in Ports : /\ Range(f[p]) \subseteq Range(Bind(f, m, removal)[p])
                                            /\ p # m.port => Bind(f, m, removal)[p] = f[p]
<1>1. m.host \in Nat /\ m.port \in Ports /\ \A p \in Ports : f[p] \in Seq(Nat)
  BY DEF Bindings, Mappings
<1> DEFINE list == f[m.port]
<1>2. list \in Seq(Nat)
  BY <1>1
<1>3. RemoveFirst(list, m.host) \in Seq(Nat)
  BY <1>2, RemovedFirst
<1>4. /\ Append(list, m.host) \in Seq(Nat) /\ m.host \in Range(Append(list, m.host))
      /\ Range(list) \subseteq Range(Append(list, m.host))
  <2> HIDE DEF list
  <2> DEFINE h == m.host
             l == Append(list, h)
  <2>1. h \in Nat
    BY <1>1
  <2> HIDE DEF h
  <2>2. l \in Seq(Nat) /\ Len(l) = Len(list) + 1 /\ l[Len(list) + 1] = h /\ \A i \in 1 .. Len(list) : l[i] = list[i]
    BY <1>2, <2>1
  <2>3. Len(list) \in Nat
    BY <1>2
  <2> HIDE DEF l
  <2>4. h \in Range(l)
    BY <2>2, <2>3 DEF Range
  <2>5. Range(list) \subseteq Range(l)
    <3> SUFFICES ASSUME NEW x \in Range(list) PROVE x \in Range(l)
      OBVIOUS
    <3>1. DOMAIN list = 1 .. Len(list) /\ DOMAIN l = 1 .. Len(l)
      BY <1>2, <2>2
    <3> PICK i \in 1 .. Len(list) : x = list[i]
      BY <3>1 DEF Range
    <3>2. x = l[i] /\ i \in DOMAIN l
      BY <2>2, <2>3, <3>1
    <3> QED BY <3>2 DEF Range
  <2> QED BY <2>2, <2>4, <2>5 DEF h, l
<1> DEFINE with == [f EXCEPT ![m.port] = Append(list, m.host)]
           without == [f EXCEPT ![m.port] = RemoveFirst(list, m.host)]
<1>5. /\ Bind(f, m, removal) = IF removal THEN without ELSE with
      /\ EditBinding(f, m, removal) = IF removal THEN without ELSE IF m.host \in Range(list) THEN f ELSE with
  BY DEF Bind, EditBinding, With, Without
<1>6. without \in Bindings
  BY <1>1, <1>3 DEF Bindings
<1>7. with \in Bindings
  BY <1>1, <1>4 DEF Bindings
<1>8. with[m.port] = Append(list, m.host) /\ \A p \in Ports : p # m.port => with[p] = f[p]
  BY <1>1 DEF Bindings
<1> HIDE DEF with, without, list
<1>9. \A p \in Ports : Range(f[p]) \subseteq Range(with[p])
  <2> SUFFICES ASSUME NEW p \in Ports PROVE Range(f[p]) \subseteq Range(with[p])
    OBVIOUS
  <2>1. CASE p = m.port
    <3>1. with[p] = Append(list, m.host) /\ f[p] = list
      BY <1>8, <2>1 DEF list
    <3> QED BY <1>4, <3>1
  <2>2. CASE p # m.port
    BY <1>8, <2>2
  <2> QED BY <2>1, <2>2
<1>10. m.host \in Range(with[m.port])
  BY <1>4, <1>8
<1>11. CASE removal = TRUE
  BY <1>5, <1>6, <1>7, <1>11
<1>12. CASE removal = FALSE
  <2>1. Bind(f, m, removal) = with /\ EditBinding(f, m, removal) \in {f, with}
    BY <1>5, <1>12
  <2> QED BY <1>7, <1>8, <1>9, <1>10, <1>12, <2>1
<1> QED BY <1>11, <1>12

\* After all the mappings are added, each is there, what was there before is, and nothing else has changed.
LEMMA MappingsChanged ==
  ASSUME NEW f \in Bindings, NEW maps \in Seq(Mappings), NEW removal \in BOOLEAN
  PROVE  LET g == ChangePortMappings(f, maps, removal)
         IN  /\ g \in Bindings
             /\ ~removal =>
                  /\ \A i \in 1 .. Len(maps) : maps[i].host \in Range(g[maps[i].port])
                  /\ \A p \in Ports : /\ Range(f[p]) \subseteq Range(g[p])
                                      /\ (\A i \in 1 .. Len(maps) : maps[i].port # p) => g[p] = f[p]
<1> DEFINE n == Len(maps)
           g == ChangePortMappings(f, maps, removal)
<1>1. n \in Nat /\ DOMAIN maps = 1 .. n /\ \A i \in 1 .. n : maps[i] \in Mappings
  OBVIOUS
<1>2. \A v \in Bindings, i \in 1 .. n : Bind(v, maps[i], removal) \in Bindings
  BY <1>1, BindIs
<1> PICK tr \in [0 .. n -> Bindings] :
           /\ tr[0] = f /\ \A i \in 1 .. n : tr[i] = Bind(tr[i - 1], maps[i], removal)
           /\ tr[n] = g
  <2> HIDE DEF g
  <2>1. g = ChangePortMappings(f, maps, removal)
    BY DEF g
  <2> QED BY <1>1, <1>2, <2>1, ChangePortMappingsTrace, SMTT(30)
<1> HIDE DEF n, g
<1>3. g \in Bindings
  BY <1>1
<1>4. ASSUME removal = FALSE, NEW i \in 1 .. n, NEW p \in Ports
      PROVE  /\ Range(tr[i - 1][p]) \subseteq Range(tr[i][p]) /\ (p # maps[i].port => tr[i][p] = tr[i - 1][p])
             /\ maps[i].host \in Range(tr[i][maps[i].port])
  <2>1. tr[i - 1] \in Bindings /\ maps[i] \in Mappings /\ tr[i] = Bind(tr[i - 1], maps[i], removal)
    BY <1>1
  <2> DEFINE v == tr[i - 1]
             m == maps[i]
  <2>2. v \in Bindings /\ m \in Mappings /\ tr[i] = Bind(v, m, removal)
    BY <2>1
  <2> HIDE DEF v, m
  <2> DEFINE w == Bind(v, m, removal)
  <2>4. ~removal => m.host \in Range(w[m.port]) /\ \A q \in Ports : Range(v[q]) \subseteq Range(w[q]) /\ (q # m.port => w[q] = v[q])
    BY <2>2, BindIs, Zenon
  <2> HIDE DEF w
  <2>3. m.host \in Range(tr[i][m.port]) /\ Range(v[p]) \subseteq Range(tr[i][p]) /\ (p # m.port => tr[i][p] = v[p])
    <3>1. tr[i] = w
      BY <2>2 DEF w
    <3> QED BY <1>4, <2>4, <3>1
  <2> QED BY <2>3 DEF v, m
<1>5. ASSUME removal = FALSE, NEW k \in 0 .. n, NEW p \in Ports PROVE Range(tr[k][p]) \subseteq Range(g[p])
  <2> SUFFICES ASSUME NEW h \in Range(tr[k][p]) PROVE h \in Range(g[p])
    OBVIOUS
  <2> DEFINE P == {v \in Bindings : h \in Range(v[p])}
  <2>1. tr[k] \in P
    BY <1>1
  <2>2. ASSUME NEW i \in 1 .. n, tr[i - 1] \in P PROVE tr[i] \in P
    <3>1. Range(tr[i - 1][p]) \subseteq Range(tr[i][p])
      BY <1>4, <1>5
    <3>2. tr[i] \in Bindings
      BY <1>1
    <3> QED BY <2>2, <3>1, <3>2
  <2>3. \A i \in k .. n : tr[i] \in P
    <3> HIDE DEF P
    <3> QED BY <1>1, <2>1, <2>2, Stays
  <2>4. n \in k .. n
    BY <1>1
  <2> QED BY <2>3, <2>4
<1>6. ASSUME removal = FALSE, NEW i \in 1 .. n PROVE maps[i].host \in Range(g[maps[i].port])
  <2>1. maps[i].port \in Ports /\ i \in 0 .. n
    BY <1>1 DEF Mappings
  <2>2. maps[i].host \in Range(tr[i][maps[i].port])
    BY <1>4, <1>6, <2>1
  <2> QED BY <1>5, <1>6, <2>1, <2>2
<1>7. ASSUME removal = FALSE, NEW p \in Ports, \A i \in 1 .. n : maps[i].port # p PROVE g[p] = f[p]
  <2> DEFINE P == {v \in Bindings : v[p] = f[p]}
  <2>1. tr[0] \in P /\ 0 \in 0 .. n /\ n \in 0 .. n
    BY <1>1
  <2>2. ASSUME NEW i \in 1 .. n, tr[i - 1] \in P PROVE tr[i] \in P
    <3>1. tr[i][p] = tr[i - 1][p]
      BY <1>4, <1>7
    <3>2. tr[i] \in Bindings
      BY <1>1
    <3> QED BY <2>2, <3>1, <3>2
  <2>3. \A i \in 0 .. n : tr[i] \in P
    <3> HIDE DEF P
    <3> QED BY <1>1, <2>1, <2>2, Stays
  <2> QED BY <2>1, <2>3
<1>8. ASSUME removal = FALSE, NEW p \in Ports PROVE Range(f[p]) \subseteq Range(g[p])
  <2>1. 0 \in 0 .. n
    BY <1>1
  <2> QED BY <1>5, <1>8, <2>1
<1>9. CASE removal = TRUE
  BY <1>3, <1>9 DEF g
<1>10. CASE removal = FALSE
  BY <1>3, <1>6, <1>7, <1>8, <1>10 DEF g, n
<1> QED BY <1>9, <1>10

\* The load balancer is no target.
Configs(N) == [Ports -> Seq(N \ {Lb})]

LEMMA AppendIs ==
  ASSUME NEW K, NEW list \in Seq(K), NEW n \in K
  PROVE  LET l == AppendPerElement(list, n)
         IN  l \in Seq(K) /\ (list # <<>> => l # <<>> /\ n \in Range(l)) /\ Range(list) \subseteq Range(l)
<1> DEFINE found == {i \in DOMAIN list : list[i] = n}
           first == CHOOSE i \in found : \A j \in found : i <= j
           before == IF found = {} THEN Len(list) ELSE first - 1
           more == [i \in 1 .. before |-> n]
           l == AppendPerElement(list, n)
<1>1. l = list \o more
  BY DEF AppendPerElement
<1>2. Len(list) \in Nat /\ found \in SUBSET Nat /\ found \subseteq 1 .. Len(list)
  OBVIOUS
<1>3. found # {} => n \in Range(list)
  BY DEF Range
<1> HIDE DEF found, l
<1>4. before \in Nat /\ (found = {} => before = Len(list))
  <2>1. CASE found = {}
    BY <1>2, <2>1
  <2>2. CASE found # {}
    <3>1. \E i \in found : \A j \in found : i <= j
      BY <1>2, <2>2, FirstOf
    <3>2. first \in found
      BY <3>1
    <3> HIDE DEF first
    <3> QED BY <1>2, <2>2, <3>2
  <2> QED BY <2>1, <2>2
<1> HIDE DEF before
<1>5. more \in Seq(K) /\ (before # 0 => n \in Range(more))
  <2>1. more \in Seq(K)
    BY <1>4
  <2>2. ASSUME before # 0 PROVE n \in Range(more)
    <3>1. 1 \in DOMAIN more /\ more[1] = n
      BY <1>4, <2>2
    <3> QED BY <3>1 DEF Range
  <2> QED BY <2>1, <2>2
<1> HIDE DEF more
<1>6. l \in Seq(K) /\ Range(l) = Range(list) \cup Range(more)
  BY <1>1, <1>5, Joining, JoinedRange
<1>7. ASSUME list # <<>> PROVE n \in Range(l)
  <2>1. CASE found = {}
    <3>1. Len(list) # 0
      BY <1>7
    <3> QED BY <1>4, <1>5, <1>6, <2>1, <3>1
  <2>2. CASE found # {}
    BY <1>3, <1>6, <2>2
  <2> QED BY <2>1, <2>2
<1>8. l = <<>> => Range(l) = {}
  BY DEF Range
<1> QED BY <1>6, <1>7, <1>8 DEF l

\* After all the names are added each is there, if the list was not empty, and what was there before is.
LEMMA AppendAllIs ==
  ASSUME NEW K, NEW list \in Seq(K), NEW names \in Seq(K)
  PROVE  LET l == AppendAll(list, names)
         IN  l \in Seq(K) /\ Range(list) \subseteq Range(l) /\ (list # <<>> => l # <<>> /\ Range(names) \subseteq Range(l))
<1> DEFINE V == {l \in Seq(K) : list # <<>> => l # <<>>}
           last == AppendAll(list, names)
           n == Len(names)
<1>1. n \in Nat /\ DOMAIN names = 1 .. n /\ \A i \in 1 .. n : names[i] \in K
  OBVIOUS
<1>2. \A v \in V, i \in 1 .. n : AppendPerElement(v, names[i]) \in V
  BY <1>1, AppendIs
<1>3. list \in V
  OBVIOUS
<1> HIDE DEF last
<1>4. \E tr \in [0 .. n -> V] :
        tr[0] = list /\ tr[n] = last /\ \A i \in 1 .. n : tr[i] = AppendPerElement(tr[i - 1], names[i])
  <2> HIDE DEF V
  <2>1. last = AppendAll(list, names)
    BY DEF last
  <2>2. TraceAppendAll(names, V, list)
    BY <1>1, <1>2, <1>3, AppendAllTrace
  <2> QED BY <2>1, <2>2, Zenon DEF TraceAppendAll
<1> PICK tr \in [0 .. n -> V] :
        tr[0] = list /\ tr[n] = last /\ \A i \in 1 .. n : tr[i] = AppendPerElement(tr[i - 1], names[i])
  BY <1>4
<1> HIDE DEF n
<1>5. \A i \in 0 .. n : tr[i] \in Seq(K) /\ (list # <<>> => tr[i] # <<>>)
  OBVIOUS
<1>6. ASSUME NEW i \in 1 .. n
      PROVE  Range(tr[i - 1]) \subseteq Range(tr[i]) /\ (list # <<>> => names[i] \in Range(tr[i]))
  <2> DEFINE v == tr[i - 1]
             x == names[i]
  <2>1. v \in Seq(K) /\ x \in K /\ tr[i] = AppendPerElement(v, x) /\ (list # <<>> => v # <<>>)
    BY <1>1, <1>5
  <2> HIDE DEF v, x
  <2> DEFINE l == AppendPerElement(v, x)
  <2>3. Range(v) \subseteq Range(l) /\ (v # <<>> => x \in Range(l))
    BY <2>1, AppendIs, Zenon
  <2> HIDE DEF l
  <2>2. Range(v) \subseteq Range(tr[i]) /\ (v # <<>> => x \in Range(tr[i]))
    BY <2>1, <2>3 DEF l
  <2> QED BY <2>1, <2>2 DEF v, x
<1> HIDE DEF V
<1>7. ASSUME NEW k \in 0 .. n PROVE Range(tr[k]) \subseteq Range(last)
  <2> DEFINE P == {v \in V : Range(tr[k]) \subseteq Range(v)}
  <2>1. tr[k] \in P
    OBVIOUS
  <2>2. ASSUME NEW i \in 1 .. n, tr[i - 1] \in P PROVE tr[i] \in P
    <3>1. Range(tr[i - 1]) \subseteq Range(tr[i]) /\ tr[i] \in V
      BY <1>1, <1>6
    <3> QED BY <2>2, <3>1
  <2>3. \A i \in k .. n : tr[i] \in P
    <3> HIDE DEF P
    <3> QED BY <1>1, <2>1, <2>2, Stays
  <2>4. n \in k .. n
    BY <1>1
  <2> QED BY <2>3, <2>4
<1>8. 0 \in 0 .. n /\ n \in 0 .. n /\ \A i \in 1 .. n : i \in 0 .. n
  BY <1>1
<1>9. last \in Seq(K) /\ Range(list) \subseteq Range(last) /\ (list # <<>> => last # <<>>)
  BY <1>5, <1>7, <1>8
<1>10. ASSUME list # <<>>, NEW x \in Range(names) PROVE x \in Range(last)
  <2> PICK i \in 1 .. n : x = names[i]
    BY <1>1 DEF Range
  <2> QED BY <1>6, <1>7, <1>8, <1>10
<1> QED BY <1>9, <1>10 DEF last

LEMMA RemoveAllIs ==
  ASSUME NEW K, NEW list \in Seq(K), NEW names, Len(names) \in Nat, DOMAIN names = 1 .. Len(names)
  PROVE  RemoveAll(list, names) \in Seq(K)
<1> DEFINE last == RemoveAll(list, names)
           n == Len(names)
<1>1. \A v \in Seq(K), i \in 1 .. n : RemoveFirst(v, names[i]) \in Seq(K)
  BY RemovedFirst
<1> HIDE DEF last
<1>2. \E tr \in [0 .. n -> Seq(K)] : tr[0] = list /\ tr[n] = last
  <2>1. last = RemoveAll(list, names)
    BY DEF last
  <2> QED BY <1>1, <2>1, RemoveAllTrace
<1>3. last \in Seq(K)
  BY <1>2
<1> QED BY <1>3 DEF last

\* Everything in the one list is in the other.
Within(s, t) == Range(s) \subseteq Range(t)

\* One mapping: an addition adds all the names to the list of its port, and takes nothing away.
LEMMA ConfigChanged ==
  ASSUME NEW N, NEW c \in Configs(N), NEW m \in Mappings, NEW names \in Seq(N), NEW removal \in BOOLEAN,
         NEW d \in ChangeLBPortConfig(c, m, names, removal)
  PROVE  /\ d \in Configs(N)
         /\ ~removal /\ names # <<>> =>
              /\ d[m.port] # <<>> /\ Within(names, d[m.port])
              /\ \A p \in Ports : Within(c[p], d[p]) /\ (p # m.port => d[p] = c[p])
<1> DEFINE K == N \ {Lb}
           list == c[m.port]
<1>1. m.port \in Ports /\ list \in Seq(K) /\ DOMAIN names = 1 .. Len(names) /\ Len(names) \in Nat
  BY DEF Configs, Mappings
<1>2. CASE removal = TRUE
  <2>1. d = [c EXCEPT ![m.port] = RemoveAll(list, names)]
    BY <1>2, Zenon DEF ChangeLBPortConfig, RemovePortConfig
  <2> DEFINE fold == RemoveAll(list, names)
  <2>2. fold \in Seq(K)
    <3> HIDE DEF list, K
    <3> QED BY <1>1, RemoveAllIs
  <2>3. d = [c EXCEPT ![m.port] = fold]
    BY <2>1
  <2> HIDE DEF fold
  <2>4. d \in Configs(N)
    BY <2>2, <2>3 DEF Configs
  <2> QED BY <1>2, <2>4
<1>3. CASE removal = FALSE
  <2> DEFINE fold == AppendAll(list, names)
             new == IF list = <<>> THEN names ELSE fold
  <2>1. Lb \notin Range(names) /\ d = [c EXCEPT ![m.port] = new]
    BY <1>3, Zenon DEF ChangeLBPortConfig, AddPortConfig
  <2>2. names \in Seq(K)
    BY <2>1 DEF Range
  <2>3. /\ fold \in Seq(K) /\ Range(list) \subseteq Range(fold)
        /\ list # <<>> => fold # <<>> /\ Range(names) \subseteq Range(fold)
    <3> HIDE DEF list, K
    <3> QED BY <1>1, <2>2, AppendAllIs
  <2> HIDE DEF fold, list
  <2>4. /\ new \in Seq(K) /\ (names # <<>> => new # <<>>)
        /\ Range(list) \subseteq Range(new) /\ Range(names) \subseteq Range(new)
    <3>1. list = <<>> => Range(list) = {}
      BY DEF Range
    <3> QED BY <2>2, <2>3, <3>1
  <2> HIDE DEF new
  <2>5. d \in Configs(N)
    BY <2>1, <2>4 DEF Configs
  <2>6. d[m.port] = new /\ \A p \in Ports : p # m.port => d[p] = c[p]
    BY <1>1, <2>1 DEF Configs
  <2>7. Within(names, d[m.port]) /\ \A p \in Ports : Within(c[p], d[p])
    <3>1. Within(names, new) /\ Within(list, new)
      BY <2>4 DEF Within
    <3>2. \A p \in Ports : p # m.port => Within(c[p], d[p])
      BY <2>6 DEF Within
    <3> QED BY <2>6, <3>1, <3>2 DEF list
  <2> QED BY <2>4, <2>5, <2>6, <2>7
<1> QED BY <1>2, <1>3

\* All the mappings of an option: the ports that are added have targets afterwards.
LEMMA ConfigsChanged ==
  ASSUME NEW N, NEW c \in Configs(N), NEW maps \in Seq(Mappings), NEW names \in Seq(N), NEW removal \in BOOLEAN
  PROVE  LET last == ChangeLBPortConfigs(c, maps, names, removal)
         IN  \A d \in last :
               /\ d \in Configs(N)
               /\ ~removal /\ names # <<>> =>
                    /\ \A p \in Ports : /\ c[p] # <<>> \/ (\E i \in 1 .. Len(maps) : maps[i].port = p) => d[p] # <<>>
                                        /\ (\A i \in 1 .. Len(maps) : maps[i].port # p) => d[p] = c[p]
                                        /\ Within(c[p], d[p])
                    /\ \A i \in 1 .. Len(maps) : Within(names, d[maps[i].port])
<1> DEFINE n == Len(maps)
           last == ChangeLBPortConfigs(c, maps, names, removal)
           V == SUBSET Configs(N)
<1>1. n \in Nat /\ DOMAIN maps = 1 .. n /\ \A i \in 1 .. n : maps[i] \in Mappings
  OBVIOUS
<1>2. \A v \in V, i \in 1 .. n : EachConfig(v, maps[i], names, removal) \in V
  BY <1>1, ConfigChanged DEF EachConfig
<1>3. {c} \in V
  OBVIOUS
<1> HIDE DEF V
<1>4. \E tr \in [0 .. n -> V] : /\ tr[0] = {c} /\ tr[n] = last
                                /\ \A i \in 1 .. n : tr[i] = EachConfig(tr[i - 1], maps[i], names, removal)
  <2>1. TraceChangeLBPortConfigs(names, removal, maps, V, c)
    BY <1>1, <1>2, <1>3, ChangeLBPortConfigsTrace
  <2> QED BY <2>1 DEF TraceChangeLBPortConfigs
<1> HIDE DEF last
<1> PICK tr \in [0 .. n -> V] : /\ tr[0] = {c} /\ tr[n] = last
                                /\ \A i \in 1 .. n : tr[i] = EachConfig(tr[i - 1], maps[i], names, removal)
  BY <1>4
<1> HIDE DEF n
<1>5. \A i \in 0 .. n : tr[i] \subseteq Configs(N)
  BY DEF V
<1>6. \A d \in last : d \in Configs(N)
  BY <1>1, <1>5
<1>7. ASSUME removal = FALSE, names # <<>>, NEW i \in 1 .. n, NEW d \in tr[i]
      PROVE  \E b \in tr[i - 1] :
               /\ d[maps[i].port] # <<>> /\ Within(names, d[maps[i].port])
               /\ \A p \in Ports : Within(b[p], d[p]) /\ (p # maps[i].port => d[p] = b[p])
  <2> PICK b \in tr[i - 1] : d \in ChangeLBPortConfig(b, maps[i], names, removal)
    BY DEF EachConfig
  <2> DEFINE m == maps[i]
  <2>1. b \in Configs(N) /\ m \in Mappings /\ d \in ChangeLBPortConfig(b, m, names, removal)
    BY <1>1, <1>5
  <2> HIDE DEF m
  <2>2. /\ d[m.port] # <<>> /\ Within(names, d[m.port])
        /\ \A p \in Ports : Within(b[p], d[p]) /\ (p # m.port => d[p] = b[p])
    BY <1>7, <2>1, ConfigChanged
  <2> QED BY <2>2 DEF m
<1>8. ASSUME removal = FALSE, names # <<>>, NEW p \in Ports, NEW k \in 0 .. n, \A d \in tr[k] : d[p] # <<>>
      PROVE  \A d \in last : d[p] # <<>>
  <2> DEFINE P == {C \in V : \A d \in C : d[p] # <<>>}
  <2>1. tr[k] \in P /\ n \in k .. n
    BY <1>1, <1>8
  <2>2. ASSUME NEW i \in 1 .. n, tr[i - 1] \in P PROVE tr[i] \in P
    <3>1. \A b \in tr[i - 1] : b[p] # <<>>
      BY <2>2
    <3>2. ASSUME NEW d \in tr[i] PROVE d[p] # <<>>
      <4> PICK b \in tr[i - 1] :
               /\ d[maps[i].port] # <<>> /\ Within(names, d[maps[i].port])
               /\ \A q \in Ports : Within(b[q], d[q]) /\ (q # maps[i].port => d[q] = b[q])
        BY <1>7, <1>8
      <4> QED BY <1>8, <3>1
    <3>3. tr[i] \in V
      BY <1>1
    <3> QED BY <3>2, <3>3
  <2>3. \A i \in k .. n : tr[i] \in P
    <3> HIDE DEF P
    <3> QED BY <1>1, <2>1, <2>2, Stays
  <2> QED BY <2>1, <2>3
<1>9. ASSUME removal = FALSE, names # <<>>, NEW p \in Ports, c[p] # <<>> \/ \E i \in 1 .. n : maps[i].port = p
      PROVE  \A d \in last : d[p] # <<>>
  <2>1. CASE c[p] # <<>>
    <3>1. 0 \in 0 .. n /\ \A d \in tr[0] : d[p] # <<>>
      BY <1>1, <2>1
    <3> QED BY <1>8, <1>9, <3>1
  <2>2. CASE \E i \in 1 .. n : maps[i].port = p
    <3> PICK i \in 1 .. n : maps[i].port = p
      BY <2>2
    <3>1. i \in 0 .. n /\ \A d \in tr[i] : d[p] # <<>>
      <4>1. \A d \in tr[i] : d[maps[i].port] # <<>>
        BY <1>7, <1>9
      <4> QED BY <1>1, <4>1
    <3> QED BY <1>8, <1>9, <3>1
  <2> QED BY <1>9, <2>1, <2>2
<1>10. ASSUME removal = FALSE, names # <<>>, NEW p \in Ports, \A i \in 1 .. n : maps[i].port # p
       PROVE  \A d \in last : d[p] = c[p]
  <2> DEFINE P == {C \in V : \A d \in C : d[p] = c[p]}
  <2>1. tr[0] \in P /\ 0 \in 0 .. n /\ n \in 0 .. n
    <3>1. 0 \in 0 .. n /\ n \in 0 .. n
      BY <1>1
    <3>2. tr[0] \in V /\ \A d \in tr[0] : d[p] = c[p]
      BY <3>1
    <3> QED BY <3>1, <3>2
  <2>2. ASSUME NEW i \in 1 .. n, tr[i - 1] \in P PROVE tr[i] \in P
    <3>1. \A b \in tr[i - 1] : b[p] = c[p]
      BY <2>2
    <3>2. ASSUME NEW d \in tr[i] PROVE d[p] = c[p]
      <4> PICK b \in tr[i - 1] :
               /\ d[maps[i].port] # <<>> /\ Within(names, d[maps[i].port])
               /\ \A q \in Ports : Within(b[q], d[q]) /\ (q # maps[i].port => d[q] = b[q])
        BY <1>7, <1>10
      <4> QED BY <1>10, <3>1
    <3>3. tr[i] \in V
      BY <1>1
    <3> QED BY <3>2, <3>3
  <2>3. \A i \in 0 .. n : tr[i] \in P
    <3> HIDE DEF P
    <3> QED BY <1>1, <2>1, <2>2, Stays
  <2> QED BY <2>1, <2>3
<1>a. ASSUME removal = FALSE, names # <<>>, NEW p \in Ports, NEW list, NEW k \in 0 .. n, \A d \in tr[k] : Within(list, d[p])
      PROVE  \A d \in last : Within(list, d[p])
  <2> DEFINE P == {C \in V : \A d \in C : Within(list, d[p])}
  <2>1. tr[k] \in P /\ n \in k .. n
    BY <1>1, <1>a
  <2>2. ASSUME NEW i \in 1 .. n, tr[i - 1] \in P PROVE tr[i] \in P
    <3>1. \A b \in tr[i - 1] : Within(list, b[p])
      BY <2>2
    <3>2. ASSUME NEW d \in tr[i] PROVE Within(list, d[p])
      <4> PICK b \in tr[i - 1] : \A q \in Ports : Within(b[q], d[q])
        BY <1>7, <1>a
      <4>1. Within(list, b[p]) /\ Within(b[p], d[p])
        BY <3>1
      <4> QED BY <4>1 DEF Within
    <3>3. tr[i] \in V
      BY <1>1
    <3> QED BY <3>2, <3>3
  <2>3. \A i \in k .. n : tr[i] \in P
    <3> HIDE DEF P
    <3> QED BY <1>1, <2>1, <2>2, Stays
  <2> QED BY <2>1, <2>3
<1>b. ASSUME removal = FALSE, names # <<>>, NEW p \in Ports PROVE \A d \in last : Within(c[p], d[p])
  <2>1. 0 \in 0 .. n /\ \A d \in tr[0] : Within(c[p], d[p])
    BY <1>1 DEF Within
  <2> QED BY <1>a, <1>b, <2>1
<1>c. ASSUME removal = FALSE, names # <<>>, NEW i \in 1 .. n PROVE \A d \in last : Within(names, d[maps[i].port])
  <2>1. maps[i].port \in Ports /\ i \in 0 .. n
    BY <1>1 DEF Mappings
  <2>2. \A d \in tr[i] : Within(names, d[maps[i].port])
    BY <1>7, <1>c
  <2> QED BY <1>a, <1>c, <2>1, <2>2
<1>11. CASE removal = TRUE
  BY <1>6, <1>11 DEF last
<1>12. CASE removal = FALSE
  <2>1. ASSUME NEW d \in last, names # <<>>, NEW p \in Ports
        PROVE  /\ c[p] # <<>> \/ (\E i \in 1 .. n : maps[i].port = p) => d[p] # <<>>
               /\ (\A i \in 1 .. n : maps[i].port # p) => d[p] = c[p]
               /\ Within(c[p], d[p])
    BY <1>9, <1>10, <1>12, <1>b, <2>1
  <2>2. ASSUME NEW d \in last, names # <<>>, NEW i \in 1 .. n PROVE Within(names, d[maps[i].port])
    BY <1>12, <1>c, <2>2
  <2> QED BY <1>6, <2>1, <2>2 DEF last, n
<1> QED BY <1>11, <1>12

\* The state of the ports of a cluster with the nodes N, and what an addition keeps of it.
PortStates(N) == [published : Bindings, config : Configs(N), direct : [N -> Bindings]]
IsPort(p) == p.maps \in Seq(Mappings) /\ p.filters \in Seq(Filters) /\ p.removal \in BOOLEAN
InSync(st) == \A p \in Ports : st.published[p] = <<>> <=> st.config[p] = <<>>
FilterSuffixes == {"direct", "proxy", NoSuffix}
Grows(N, st, t) ==
  /\ InSync(st) => InSync(t)
  /\ \A n \in N, m \in Mappings, x \in FilterSuffixes : Serves(st, n, m, x) => Serves(t, n, m, x)
\* The nodes of S serve all the option's mappings.
Carries(st, p, x, S) == \A i \in 1 .. Len(p.maps), n \in S : Serves(st, n, p.maps[i], x)

LEMMA NotEmpty ==
  ASSUME NEW X, NEW s \in Seq(X)
  PROVE  s = <<>> <=> Range(s) = {}
<1>1. CASE s = <<>>
  BY <1>1 DEF Range
<1>2. CASE s # <<>>
  <2>1. 1 \in DOMAIN s
    BY <1>2
  <2>2. s[1] \in Range(s)
    BY <2>1 DEF Range
  <2> QED BY <1>2, <2>2
<1> QED BY <1>1, <1>2

LEMMA GrowsTransitive ==
  ASSUME NEW N, NEW a, NEW b, NEW c, Grows(N, a, b), Grows(N, b, c)
  PROVE  Grows(N, a, c)
BY DEF Grows

LEMMA CarriesStays ==
  ASSUME NEW N, NEW a, NEW b, Grows(N, a, b), NEW p, IsPort(p), NEW x \in FilterSuffixes, NEW S \in SUBSET N, Carries(a, p, x, S)
  PROVE  Carries(b, p, x, S)
<1>1. \A i \in 1 .. Len(p.maps) : p.maps[i] \in Mappings
  BY DEF IsPort
<1> QED BY <1>1 DEF Carries, Grows

LEMMA ProxiedIs ==
  ASSUME NEW N, NEW st \in PortStates(N), NEW p, IsPort(p), NEW names \in Seq(N), names # <<>>,
         NEW t \in Proxied(st, p, names), NEW x, x # "direct"
  PROVE  t \in PortStates(N) /\ (~p.removal => Grows(N, st, t) /\ Carries(t, p, x, Range(names)))
<1> DEFINE f == st.published
           g == ChangePortMappings(f, p.maps, p.removal)
<1>1. /\ f \in Bindings /\ st.config \in Configs(N) /\ st.direct \in [N -> Bindings]
      /\ st = [published |-> f, config |-> st.config, direct |-> st.direct]
  BY DEF PortStates
<1>2. p.maps \in Seq(Mappings) /\ p.removal \in BOOLEAN /\ \A i \in 1 .. Len(p.maps) : p.maps[i] \in Mappings
  BY DEF IsPort
<1> PICK c \in ChangeLBPortConfigs(st.config, p.maps, names, p.removal) :
           t = [st EXCEPT !.published = g, !.config = c]
  BY DEF Proxied
<1>3. t = [published |-> g, config |-> c, direct |-> st.direct]
  <2> HIDE DEF g, f
  <2> QED BY <1>1
<1>4. /\ g \in Bindings
      /\ ~p.removal =>
           /\ \A i \in 1 .. Len(p.maps) : p.maps[i].host \in Range(g[p.maps[i].port])
           /\ \A q \in Ports : /\ Range(f[q]) \subseteq Range(g[q])
                               /\ (\A i \in 1 .. Len(p.maps) : p.maps[i].port # q) => g[q] = f[q]
  <2> HIDE DEF f
  <2> QED BY <1>1, <1>2, MappingsChanged, Zenon
<1>5. /\ c \in Configs(N)
      /\ ~p.removal =>
           /\ \A q \in Ports : /\ st.config[q] # <<>> \/ (\E i \in 1 .. Len(p.maps) : p.maps[i].port = q) => c[q] # <<>>
                               /\ (\A i \in 1 .. Len(p.maps) : p.maps[i].port # q) => c[q] = st.config[q]
                               /\ Within(st.config[q], c[q])
           /\ \A i \in 1 .. Len(p.maps) : Within(names, c[p.maps[i].port])
  <2> DEFINE c0 == st.config
             maps == p.maps
             removal == p.removal
  <2>1. c0 \in Configs(N) /\ maps \in Seq(Mappings) /\ removal \in BOOLEAN /\ c \in ChangeLBPortConfigs(c0, maps, names, removal)
    BY <1>1, <1>2
  <2> HIDE DEF c0, maps, removal
  <2>2. /\ c \in Configs(N)
        /\ ~removal =>
             /\ \A q \in Ports : /\ c0[q] # <<>> \/ (\E i \in 1 .. Len(maps) : maps[i].port = q) => c[q] # <<>>
                                 /\ (\A i \in 1 .. Len(maps) : maps[i].port # q) => c[q] = c0[q]
                                 /\ Within(c0[q], c[q])
             /\ \A i \in 1 .. Len(maps) : Within(names, c[maps[i].port])
    BY <2>1, ConfigsChanged
  <2> QED BY <2>2 DEF c0, maps, removal
<1> HIDE DEF f, g
<1>6. t \in PortStates(N) /\ t.published = g /\ t.config = c /\ t.direct = st.direct
  BY <1>1, <1>3, <1>4, <1>5 DEF PortStates
<1>7. ASSUME p.removal = FALSE, InSync(st), NEW q \in Ports PROVE g[q] = <<>> <=> c[q] = <<>>
  <2>1. f[q] = <<>> <=> st.config[q] = <<>>
    BY <1>7 DEF InSync, f
  <2>2. g[q] \in Seq(Nat) /\ f[q] \in Seq(Nat)
    BY <1>1, <1>4 DEF Bindings
  <2>3. CASE \E i \in 1 .. Len(p.maps) : p.maps[i].port = q
    <3>1. c[q] # <<>>
      BY <1>5, <1>7, <2>3
    <3>2. Range(g[q]) # {}
      BY <1>4, <1>7, <2>3
    <3> QED BY <2>2, <3>1, <3>2, NotEmpty
  <2>4. CASE \A i \in 1 .. Len(p.maps) : p.maps[i].port # q
    BY <1>4, <1>5, <1>7, <2>1, <2>4
  <2> QED BY <2>3, <2>4
<1>8. ASSUME p.removal = FALSE, NEW n \in N, NEW m \in Mappings, NEW y \in FilterSuffixes, Serves(st, n, m, y)
      PROVE  Serves(t, n, m, y)
  <2>1. m.port \in Ports
    BY DEF Mappings
  <2>2. Range(f[m.port]) \subseteq Range(g[m.port]) /\ Range(st.config[m.port]) \subseteq Range(c[m.port])
    BY <1>4, <1>5, <1>8, <2>1 DEF Within
  <2> QED BY <1>6, <1>8, <2>2 DEF Serves, f
<1>9. ASSUME p.removal = FALSE PROVE Carries(t, p, x, Range(names))
  <2> SUFFICES ASSUME NEW i \in 1 .. Len(p.maps), NEW n \in Range(names) PROVE Serves(t, n, p.maps[i], x)
    BY DEF Carries
  <2> DEFINE m == p.maps[i]
  <2>1. m.host \in Range(g[m.port]) /\ n \in Range(c[m.port])
    BY <1>4, <1>5, <1>9 DEF Within
  <2> HIDE DEF m
  <2>2. Serves(t, n, m, x)
    BY <1>6, <2>1 DEF Serves
  <2> QED BY <2>2 DEF m
<1>10. CASE p.removal = TRUE
  BY <1>6, <1>10
<1>11. CASE p.removal = FALSE
  <2>1. InSync(st) => InSync(t)
    BY <1>6, <1>7, <1>11 DEF InSync
  <2>2. Grows(N, st, t)
    BY <1>8, <1>11, <2>1 DEF Grows
  <2> QED BY <1>6, <1>9, <1>11, <2>2
<1> QED BY <1>2, <1>10, <1>11

LEMMA DirectIs ==
  ASSUME NEW N, NEW st \in PortStates(N), NEW p, IsPort(p), NEW names \in Seq(N), names # <<>>,
         NEW t \in Direct(st, p, names)
  PROVE  t \in PortStates(N) /\ (~p.removal => Grows(N, st, t) /\ Carries(t, p, "direct", Range(names)))
<1> DEFINE node == names[1]
           f == st.direct[node]
           g == ChangePortMappings(f, p.maps, p.removal)
           d == [st.direct EXCEPT ![node] = g]
<1>1. node \in N /\ Range(names) = {node}
  <2>1. ~(Len(names) > 1) /\ Len(names) \in Nat /\ DOMAIN names = 1 .. Len(names)
    BY DEF Direct
  <2>2. Len(names) # 0
    OBVIOUS
  <2>3. DOMAIN names = {1}
    BY <2>1, <2>2
  <2> QED BY <2>3 DEF Range
<1> HIDE DEF node
<1>2. /\ st.published \in Bindings /\ st.config \in Configs(N) /\ st.direct \in [N -> Bindings]
      /\ st = [published |-> st.published, config |-> st.config, direct |-> st.direct]
      /\ f \in Bindings
  BY <1>1 DEF PortStates
<1>3. p.maps \in Seq(Mappings) /\ p.removal \in BOOLEAN /\ \A i \in 1 .. Len(p.maps) : p.maps[i] \in Mappings
  BY DEF IsPort
<1>4. t = [st EXCEPT !.direct[node] = g]
  BY DEF Direct, node
<1>5. t = [published |-> st.published, config |-> st.config, direct |-> d]
  <2> HIDE DEF g
  <2> QED BY <1>2, <1>4
<1>6. /\ g \in Bindings
      /\ ~p.removal =>
           /\ \A i \in 1 .. Len(p.maps) : p.maps[i].host \in Range(g[p.maps[i].port])
           /\ \A q \in Ports : Range(f[q]) \subseteq Range(g[q])
  <2> HIDE DEF f
  <2> QED BY <1>2, <1>3, MappingsChanged, Zenon
<1> HIDE DEF g
<1>7. d \in [N -> Bindings] /\ d[node] = g /\ \A n \in N : n # node => d[n] = st.direct[n]
  BY <1>1, <1>2, <1>6
<1> HIDE DEF d
<1>8. t \in PortStates(N) /\ t.published = st.published /\ t.config = st.config /\ t.direct = d
  BY <1>2, <1>5, <1>7 DEF PortStates
<1>9. ASSUME p.removal = FALSE, NEW n \in N, NEW m \in Mappings, NEW y \in FilterSuffixes, Serves(st, n, m, y)
      PROVE  Serves(t, n, m, y)
  <2>1. m.port \in Ports
    BY DEF Mappings
  <2>2. Range(st.direct[n][m.port]) \subseteq Range(d[n][m.port])
    <3>1. n = node => d[n] = g /\ st.direct[n] = f
      BY <1>7
    <3>2. Range(f[m.port]) \subseteq Range(g[m.port])
      BY <1>6, <1>9, <2>1
    <3> HIDE DEF f
    <3>3. CASE n = node
      BY <3>1, <3>2, <3>3
    <3>4. CASE n # node
      <4>1. d[n] = st.direct[n]
        BY <1>7, <3>4
      <4> QED BY <4>1
    <3> QED BY <3>3, <3>4
  <2> QED BY <1>8, <1>9, <2>2 DEF Serves
<1>10. ASSUME p.removal = FALSE PROVE Carries(t, p, "direct", Range(names))
  <2> SUFFICES ASSUME NEW i \in 1 .. Len(p.maps) PROVE Serves(t, node, p.maps[i], "direct")
    BY <1>1 DEF Carries
  <2> DEFINE m == p.maps[i]
  <2>1. m.host \in Range(d[node][m.port])
    BY <1>6, <1>7, <1>10
  <2> HIDE DEF m
  <2>2. Serves(t, node, m, "direct")
    BY <1>8, <2>1 DEF Serves
  <2> QED BY <2>2 DEF m
<1>11. InSync(st) => InSync(t)
  BY <1>8 DEF InSync
<1>12. CASE p.removal = TRUE
  BY <1>8, <1>12
<1>13. CASE p.removal = FALSE
  BY <1>8, <1>9, <1>10, <1>11, <1>13 DEF Grows
<1> QED BY <1>3, <1>12, <1>13

LEMMA ApplyGroupIs ==
  ASSUME NEW N, NEW st \in PortStates(N), NEW p, IsPort(p), NEW names \in Seq(N), NEW suffix \in FilterSuffixes, NEW hasLb,
         NEW t \in ApplyGroup(hasLb, st, p, suffix, names)
  PROVE  t \in PortStates(N) /\ (~p.removal => Grows(N, st, t) /\ Carries(t, p, suffix, Range(names)))
<1>0. suffix # "all"
  BY DEF FilterSuffixes, NoSuffix
<1>1. CASE names = <<>>
  <2>1. t = st
    BY <1>1 DEF ApplyGroup
  <2>2. Range(names) = {}
    BY <1>1 DEF Range
  <2> QED BY <2>1, <2>2 DEF Grows, Carries
<1>2. CASE names # <<>> /\ suffix = "direct"
  <2>1. t \in Direct(st, p, names)
    <3>1. ~(names = <<>> \/ suffix = "all") /\ ~(suffix \in {"proxy", NoSuffix})
      BY <1>0, <1>2 DEF NoSuffix
    <3>2. ApplyGroup(hasLb, st, p, suffix, names) = Direct(st, p, names)
      BY <1>2, <3>1 DEF ApplyGroup
    <3> QED BY <3>2
  <2> QED BY <1>2, <2>1, DirectIs
<1>3. CASE names # <<>> /\ suffix # "direct"
  <2>1. hasLb /\ t \in Proxied(st, p, names)
    <3>1. suffix \in {"proxy", NoSuffix} /\ suffix # "all"
      BY <1>0, <1>3 DEF FilterSuffixes
    <3>2. ApplyGroup(hasLb, st, p, suffix, names) = IF hasLb THEN Proxied(st, p, names) ELSE {}
      BY <1>3, <3>1 DEF ApplyGroup
    <3> QED BY <3>2
  <2> QED BY <1>3, <2>1, ProxiedIs
<1> QED BY <1>1, <1>2, <1>3

\* The groups of an option, one after the other, in some order.
LEMMA InSomeOrder ==
  ASSUME NEW N, NEW st \in PortStates(N), NEW p, IsPort(p), NEW hasLb,
         NEW groups, \A s \in FilterSuffixes : groups[s] \in Seq(N),
         NEW x, NEW y, NEW z, {x, y, z} = FilterSuffixes,
         NEW a \in ApplyGroup(hasLb, st, p, x, groups[x]), NEW b \in ApplyGroup(hasLb, a, p, y, groups[y]),
         NEW t \in ApplyGroup(hasLb, b, p, z, groups[z])
  PROVE  /\ t \in PortStates(N)
         /\ ~p.removal => Grows(N, st, t) /\ \A s \in FilterSuffixes : Carries(t, p, s, Range(groups[s]))
<1>1. x \in FilterSuffixes /\ y \in FilterSuffixes /\ z \in FilterSuffixes /\ \A s \in FilterSuffixes : s \in {x, y, z}
  OBVIOUS
<1>2. groups[x] \in Seq(N) /\ groups[y] \in Seq(N) /\ groups[z] \in Seq(N)
  BY <1>1
<1>3. a \in PortStates(N) /\ (~p.removal => Grows(N, st, a) /\ Carries(a, p, x, Range(groups[x])))
  BY <1>1, <1>2, ApplyGroupIs
<1>4. b \in PortStates(N) /\ (~p.removal => Grows(N, a, b) /\ Carries(b, p, y, Range(groups[y])))
  BY <1>1, <1>2, <1>3, ApplyGroupIs
<1>5. t \in PortStates(N) /\ (~p.removal => Grows(N, b, t) /\ Carries(t, p, z, Range(groups[z])))
  BY <1>1, <1>2, <1>4, ApplyGroupIs
<1>6. ASSUME ~p.removal PROVE Grows(N, st, t) /\ \A s \in FilterSuffixes : Carries(t, p, s, Range(groups[s]))
  <2>1. Grows(N, st, a) /\ Grows(N, a, b) /\ Grows(N, b, t)
    BY <1>3, <1>4, <1>5, <1>6
  <2>2. Grows(N, st, t) /\ Grows(N, a, t)
    BY <2>1, GrowsTransitive
  <2>3. Range(groups[x]) \in SUBSET N /\ Range(groups[y]) \in SUBSET N
    BY <1>2, RangeIs
  <2>4. Carries(t, p, x, Range(groups[x]))
    BY <1>1, <1>3, <1>6, <2>2, <2>3, CarriesStays
  <2>5. Carries(t, p, y, Range(groups[y]))
    BY <1>1, <1>4, <1>6, <2>1, <2>3, CarriesStays
  <2> QED BY <1>1, <1>5, <1>6, <2>2, <2>4, <2>5
<1> QED BY <1>5, <1>6

\* The filters that an option with none, or with one for the load balancer, gets instead.
LEMMA TargetsTyped ==
  ASSUME NEW nodes, NEW p, IsPort(p)
  PROVE  TargetFilters(nodes, p) \in Seq(Filters)
<1>1. \A g \in {"server", "agent"} : Filter(g, Every, "proxy") \in Filters
  BY DEF Filter, Filters, Texts, Groups, Subsets, Every, None
<1>2. DefaultTargets \in Seq(Filters)
  <2> DEFINE a == Filter("server", Every, "proxy")
             b == Filter("agent", Every, "proxy")
  <2>1. a \in Filters /\ b \in Filters
    BY <1>1
  <2> HIDE DEF a, b, Filters
  <2>2. <<a, b>> \in Seq(Filters)
    BY <2>1
  <2> QED BY <2>2 DEF DefaultTargets, a, b
<1> QED BY <1>2 DEF TargetFilters, IsPort

\* The nodes that a filter of the option chooses serve its mappings.
IsServed(nodes, st, p) ==
  \A f \in Range(TargetFilters(nodes, p)) :
    f.suffix # "all" =>
      /\ f.suffix \in FilterSuffixes /\ FilterNodes(nodes, <<Bare(f)>>) # {}
      /\ Range(Chosen(nodes, f)) \in SUBSET Range(nodes)
      /\ Carries(st, p, f.suffix, Range(Chosen(nodes, f)))

LEMMA IsServedStays ==
  ASSUME NEW nodes, NEW a, NEW b, Grows(Range(nodes), a, b), NEW p, IsPort(p), IsServed(nodes, a, p)
  PROVE  IsServed(nodes, b, p)
<1> SUFFICES ASSUME NEW f \in Range(TargetFilters(nodes, p)), f.suffix # "all"
             PROVE  /\ f.suffix \in FilterSuffixes /\ FilterNodes(nodes, <<Bare(f)>>) # {}
                    /\ Range(Chosen(nodes, f)) \in SUBSET Range(nodes)
                    /\ Carries(b, p, f.suffix, Range(Chosen(nodes, f)))
  BY Zenon DEF IsServed
<1>1. /\ f.suffix \in FilterSuffixes /\ FilterNodes(nodes, <<Bare(f)>>) # {}
      /\ Range(Chosen(nodes, f)) \in SUBSET Range(nodes)
      /\ Carries(a, p, f.suffix, Range(Chosen(nodes, f)))
  BY Zenon DEF IsServed
<1> DEFINE N == Range(nodes)
           S == Range(Chosen(nodes, f))
<1>2. S \in SUBSET N /\ Grows(N, a, b) /\ Carries(a, p, f.suffix, S)
  BY <1>1
<1> HIDE DEF N, S
<1>3. Carries(b, p, f.suffix, S)
  BY <1>1, <1>2, CarriesStays
<1> QED BY <1>1, <1>3 DEF S

LEMMA TransformPortIs ==
  ASSUME NEW M, NEW nodes \in Seq(M), NEW st \in PortStates(Range(nodes)), NEW p, IsPort(p), NEW hasLb,
         NEW t \in TransformPort(nodes, hasLb, st, p)
  PROVE  /\ t \in PortStates(Range(nodes))
         /\ ~p.removal => Grows(Range(nodes), st, t) /\ IsServed(nodes, t, p)
<1> DEFINE N == Range(nodes)
           filters == TargetFilters(nodes, p)
           apply(groups, S, s) == UNION {ApplyGroup(hasLb, u, p, s, groups[s]) : u \in S}
<1> PICK groups \in FilterNodesWithSuffix(nodes, filters, {"proxy", "direct"}) :
           \/ t \in apply(groups, apply(groups, apply(groups, {st}, "direct"), "proxy"), NoSuffix)
           \/ t \in apply(groups, apply(groups, apply(groups, {st}, NoSuffix), "proxy"), "direct")
  BY DEF TransformPort
<1>1. filters \in Seq(Filters)
  BY TargetsTyped
<1> HIDE DEF filters
<1>2. /\ \A f \in Range(filters) : f.suffix \in {"proxy", "direct"} \cup {NoSuffix, "all"} /\ FilterNodes(nodes, <<Bare(f)>>) # {}
      /\ \A s \in {"proxy", "direct"} \cup {NoSuffix} : s # "all" =>
              /\ groups[s] \in Seq(N)
              /\ \A f \in Range(filters) : f.suffix = s => Range(Chosen(nodes, f)) \subseteq Range(groups[s])
  <2> DEFINE allowed == {"proxy", "direct"}
  <2>1. groups \in FilterNodesWithSuffix(nodes, filters, allowed)
    OBVIOUS
  <2> HIDE DEF allowed
  <2>2. /\ \A f \in Range(filters) : f.suffix \in allowed \cup {NoSuffix, "all"} /\ FilterNodes(nodes, <<Bare(f)>>) # {}
        /\ \A s \in allowed \cup {NoSuffix} : s # "all" =>
              /\ groups[s] \in Seq(N)
              /\ \A f \in Range(filters) : f.suffix = s => Range(Chosen(nodes, f)) \subseteq Range(groups[s])
    BY <1>1, <2>1, SuffixGroups
  <2> QED BY <2>2, Zenon DEF allowed
<1>3. \A s \in FilterSuffixes : s \in {"proxy", "direct"} \cup {NoSuffix} /\ s # "all"
  BY DEF FilterSuffixes, NoSuffix
<1>4. \A s \in FilterSuffixes : groups[s] \in Seq(N)
  BY <1>2, <1>3
<1>5. ASSUME \A s \in FilterSuffixes : Carries(t, p, s, Range(groups[s])) PROVE IsServed(nodes, t, p)
  <2> SUFFICES ASSUME NEW f \in Range(filters), f.suffix # "all"
               PROVE  /\ f.suffix \in FilterSuffixes /\ FilterNodes(nodes, <<Bare(f)>>) # {}
                      /\ Range(Chosen(nodes, f)) \in SUBSET N
                      /\ Carries(t, p, f.suffix, Range(Chosen(nodes, f)))
    BY Zenon DEF IsServed, filters, N
  <2>1. f.suffix \in FilterSuffixes /\ FilterNodes(nodes, <<Bare(f)>>) # {}
    BY <1>2 DEF FilterSuffixes
  <2> DEFINE S == Range(Chosen(nodes, f))
             G == groups[f.suffix]
  <2>2. S \subseteq Range(G) /\ G \in Seq(N) /\ Carries(t, p, f.suffix, Range(G))
    BY <1>2, <1>3, <1>4, <1>5, <2>1
  <2> HIDE DEF S, G, N
  <2>3. S \in SUBSET N
    BY <2>2, RangeIs
  <2>4. Carries(t, p, f.suffix, S)
    BY <2>2 DEF Carries
  <2> QED BY <2>1, <2>3, <2>4 DEF S
<1> HIDE DEF N
<1>6. st \in PortStates(N)
  BY DEF N
<1>7. ASSUME NEW x, NEW y, NEW z, {x, y, z} = FilterSuffixes, t \in apply(groups, apply(groups, apply(groups, {st}, x), y), z)
      PROVE  t \in PortStates(N) /\ (~p.removal => Grows(N, st, t) /\ IsServed(nodes, t, p))
  <2> PICK b \in apply(groups, apply(groups, {st}, x), y) : t \in ApplyGroup(hasLb, b, p, z, groups[z])
    BY <1>7
  <2> PICK a \in apply(groups, {st}, x) : b \in ApplyGroup(hasLb, a, p, y, groups[y])
    OBVIOUS
  <2>1. a \in ApplyGroup(hasLb, st, p, x, groups[x])
    OBVIOUS
  <2>2. /\ t \in PortStates(N)
        /\ ~p.removal => Grows(N, st, t) /\ \A s \in FilterSuffixes : Carries(t, p, s, Range(groups[s]))
    <3> HIDE DEF apply
    <3>1. a \in ApplyGroup(hasLb, st, p, x, groups[x]) /\ b \in ApplyGroup(hasLb, a, p, y, groups[y])
          /\ t \in ApplyGroup(hasLb, b, p, z, groups[z]) /\ {x, y, z} = FilterSuffixes
      BY <1>7, <2>1
    <3> QED BY <1>4, <1>6, <3>1, InSomeOrder
  <2> QED BY <1>5, <2>2
<1>8. {"direct", "proxy", NoSuffix} = FilterSuffixes /\ {NoSuffix, "proxy", "direct"} = FilterSuffixes
  BY DEF FilterSuffixes
<1> HIDE DEF apply
<1> QED BY <1>7, <1>8 DEF N

LEMMA TransformPortsIs ==
  ASSUME NEW M, NEW nodes \in Seq(M), NEW st \in PortStates(Range(nodes)), NEW hasLb,
         NEW options, Len(options) \in Nat, DOMAIN options = 1 .. Len(options),
         \A i \in 1 .. Len(options) : IsPort(options[i]),
         NEW t \in TransformPorts(nodes, hasLb, st, options)
  PROVE  /\ t \in PortStates(Range(nodes))
         /\ (\A i \in 1 .. Len(options) : ~options[i].removal) =>
              /\ Grows(Range(nodes), st, t)
              /\ \A i \in 1 .. Len(options) : IsServed(nodes, t, options[i])
<1> DEFINE N == Range(nodes)
           n == Len(options)
           last == TransformPorts(nodes, hasLb, st, options)
           V == SUBSET PortStates(N)
<1>1. \A v \in V, i \in 1 .. n : EachState(nodes, hasLb, v, options[i]) \in V
  BY TransformPortIs DEF EachState
<1>2. {st} \in V
  OBVIOUS
<1>3. \E tr \in [0 .. n -> V] : /\ tr[0] = {st} /\ \A i \in 1 .. n : tr[i] = EachState(nodes, hasLb, tr[i - 1], options[i])
                                /\ tr[n] = last
  <2> HIDE DEF V
  <2>1. TraceTransformPorts(nodes, hasLb, options, V, st)
    BY <1>1, <1>2, TransformPortsTrace
  <2> QED BY <2>1 DEF TraceTransformPorts
<1> HIDE DEF last, V
<1> PICK tr \in [0 .. n -> V] : /\ tr[0] = {st} /\ \A i \in 1 .. n : tr[i] = EachState(nodes, hasLb, tr[i - 1], options[i])
                                /\ tr[n] = last
  BY <1>3
<1>4. n \in Nat /\ \A i \in 1 .. n : IsPort(options[i])
  OBVIOUS
<1> HIDE DEF n, N
<1>5. nodes \in Seq(M) /\ st \in PortStates(N) /\ \A i \in 0 .. n : tr[i] \subseteq PortStates(N)
  BY DEF N, V
<1>6. t \in tr[n] /\ n \in 0 .. n /\ 0 \in 0 .. n
  BY <1>4 DEF last
<1>7. ASSUME \A i \in 1 .. n : ~options[i].removal, NEW i \in 1 .. n, NEW d \in tr[i]
      PROVE  \E b \in tr[i - 1] : Grows(N, b, d) /\ IsServed(nodes, d, options[i])
  <2> PICK b \in tr[i - 1] : d \in TransformPort(nodes, hasLb, b, options[i])
    BY DEF EachState
  <2>1. b \in PortStates(N)
    BY <1>4, <1>5
  <2> DEFINE p == options[i]
  <2>2. IsPort(p) /\ d \in TransformPort(nodes, hasLb, b, p) /\ ~p.removal
    BY <1>4, <1>7
  <2> HIDE DEF p
  <2>3. Grows(N, b, d) /\ IsServed(nodes, d, p)
    BY <2>1, <2>2, TransformPortIs DEF N
  <2> QED BY <2>3 DEF p
<1>8. ASSUME \A i \in 1 .. n : ~options[i].removal PROVE Grows(N, st, t)
  <2> DEFINE P == {S \in V : \A d \in S : Grows(N, st, d)}
  <2>1. tr[0] \in P
    <3>1. Grows(N, st, st)
      BY DEF Grows
    <3> QED BY <1>6, <3>1
  <2>2. ASSUME NEW i \in 1 .. n, tr[i - 1] \in P PROVE tr[i] \in P
    <3>1. ASSUME NEW d \in tr[i] PROVE Grows(N, st, d)
      <4> PICK b \in tr[i - 1] : Grows(N, b, d)
        BY <1>7, <1>8
      <4>1. Grows(N, st, b)
        BY <2>2
      <4> QED BY <4>1, GrowsTransitive
    <3>2. tr[i] \in V
      BY <1>4
    <3> QED BY <3>1, <3>2
  <2>3. \A i \in 0 .. n : tr[i] \in P
    <3> HIDE DEF P
    <3> QED BY <1>4, <1>6, <2>1, <2>2, Stays
  <2> QED BY <1>6, <2>3
<1>9. ASSUME \A i \in 1 .. n : ~options[i].removal, NEW k \in 1 .. n PROVE IsServed(nodes, t, options[k])
  <2> DEFINE p == options[k]
             P == {S \in V : \A d \in S : IsServed(nodes, d, p)}
  <2>0. IsPort(p) /\ k \in 0 .. n
    BY <1>4
  <2> HIDE DEF p
  <2>1. tr[k] \in P
    <3>1. ASSUME NEW d \in tr[k] PROVE IsServed(nodes, d, p)
      BY <1>7, <1>9 DEF p
    <3>2. tr[k] \in V
      BY <2>0
    <3> QED BY <3>1, <3>2
  <2>2. ASSUME NEW i \in 1 .. n, tr[i - 1] \in P PROVE tr[i] \in P
    <3>1. ASSUME NEW d \in tr[i] PROVE IsServed(nodes, d, p)
      <4> PICK b \in tr[i - 1] : Grows(N, b, d)
        BY <1>7, <1>9
      <4>1. IsServed(nodes, b, p)
        BY <2>2
      <4> QED BY <2>0, <4>1, IsServedStays DEF N
    <3>2. tr[i] \in V
      BY <1>4
    <3> QED BY <3>1, <3>2
  <2>3. \A i \in k .. n : tr[i] \in P
    <3> HIDE DEF P
    <3> QED BY <1>4, <2>0, <2>1, <2>2, Stays
  <2>4. n \in k .. n
    BY <1>4
  <2> QED BY <1>6, <2>3, <2>4 DEF p
<1>10. t \in PortStates(N)
  BY <1>5, <1>6
<1> QED BY <1>8, <1>9, <1>10 DEF n, N

-----------------------------------------------------------------------------
(* The nodes of a configuration *)

AllNodes == {Lb} \cup {Server(i) : i \in Nat} \cup {Agent(i) : i \in Nat}
Counted(c) == c.servers \in Nat /\ c.agents \in Nat /\ c.noLb \in BOOLEAN
Lbs(c) == IF c.noLb THEN 0 ELSE 1

LEMMA NodesAre ==
  ASSUME NEW c, Counted(c)
  PROVE  LET nodes == NodesOf(c)
             b == Lbs(c)
         IN  /\ nodes \in Seq(AllNodes) /\ Len(nodes) = b + c.servers + c.agents /\ b \in {0, 1}
             /\ \A i \in 1 .. Len(nodes) : /\ i <= b => nodes[i] = Lb
                                           /\ i > b /\ i <= b + c.servers => nodes[i] = Server(i - b - 1)
                                           /\ i > b + c.servers => nodes[i] = Agent(i - b - c.servers - 1)
<1> DEFINE lb == IF c.noLb THEN <<>> ELSE <<Lb>>
           servers == [i \in 1 .. c.servers |-> Server(i - 1)]
           agents == [i \in 1 .. c.agents |-> Agent(i - 1)]
           b == Lbs(c)
           s == c.servers
           a == c.agents
           A == AllNodes
<1>1. s \in Nat /\ a \in Nat
  BY DEF Counted
<1>2. NodesOf(c) = (lb \o servers) \o agents
  BY DEF NodesOf
<1>3. lb \in Seq(A) /\ Len(lb) = b /\ b \in {0, 1} /\ \A i \in 1 .. b : lb[i] = Lb
  <2>1. Lb \in A
    BY DEF AllNodes
  <2> HIDE DEF A
  <2>2. CASE c.noLb
    BY <2>2 DEF Lbs
  <2>3. CASE ~c.noLb
    <3>1. lb = <<Lb>> /\ b = 1
      BY <2>3 DEF Lbs
    <3> DEFINE x == Lb
    <3> HIDE DEF x, lb, b
    <3>2. lb = <<x>> /\ x \in A /\ b = 1
      BY <2>1, <3>1 DEF x
    <3>3. lb \in Seq(A) /\ Len(lb) = b /\ b \in {0, 1} /\ \A i \in 1 .. b : lb[i] = x
      BY <3>2
    <3> QED BY <3>3 DEF x
  <2> QED BY <2>2, <2>3
<1>4. servers \in Seq(A) /\ Len(servers) = s /\ \A i \in 1 .. s : servers[i] = Server(i - 1)
  <2>1. \A i \in 1 .. s : Server(i - 1) \in A
    BY <1>1 DEF AllNodes
  <2>2. servers = [i \in 1 .. s |-> servers[i]] /\ \A i \in 1 .. s : servers[i] = Server(i - 1)
    OBVIOUS
  <2> HIDE DEF A, servers, s
  <2> QED BY <1>1, <2>1, <2>2, IsSeq
<1>5. agents \in Seq(A) /\ Len(agents) = a /\ \A i \in 1 .. a : agents[i] = Agent(i - 1)
  <2>1. \A i \in 1 .. a : Agent(i - 1) \in A
    BY <1>1 DEF AllNodes
  <2>2. agents = [i \in 1 .. a |-> agents[i]] /\ \A i \in 1 .. a : agents[i] = Agent(i - 1)
    OBVIOUS
  <2> HIDE DEF A, agents, a
  <2> QED BY <1>1, <2>1, <2>2, IsSeq
<1> HIDE DEF lb, servers, agents, b, s, a, A
<1> DEFINE first == lb \o servers
           nodes == first \o agents
<1>6. first \in Seq(A) /\ Len(first) = b + s /\ (\A i \in 1 .. b : first[i] = Lb)
      /\ \A i \in 1 .. s : first[b + i] = Server(i - 1)
  <2>1. /\ first \in Seq(A) /\ Len(first) = Len(lb) + Len(servers)
        /\ \A i \in 1 .. Len(lb) : first[i] = lb[i]
        /\ \A i \in 1 .. Len(servers) : first[Len(lb) + i] = servers[i]
    BY <1>3, <1>4, Joining
  <2> HIDE DEF first
  <2> QED BY <1>3, <1>4, <2>1
<1> HIDE DEF first
<1>7. nodes \in Seq(A) /\ Len(nodes) = b + s + a /\ (\A i \in 1 .. b + s : nodes[i] = first[i])
      /\ \A i \in 1 .. a : nodes[b + s + i] = Agent(i - 1)
  <2>1. /\ nodes \in Seq(A) /\ Len(nodes) = Len(first) + Len(agents)
        /\ \A i \in 1 .. Len(first) : nodes[i] = first[i]
        /\ \A i \in 1 .. Len(agents) : nodes[Len(first) + i] = agents[i]
    <3>1. first \in Seq(A) /\ agents \in Seq(A)
      BY <1>5, <1>6
    <3> QED BY <3>1, Joining
  <2> HIDE DEF nodes
  <2> QED BY <1>5, <1>6, <2>1
<1>8. NodesOf(c) = nodes
  BY <1>2 DEF first
<1> HIDE DEF nodes
<1>9. ASSUME NEW i \in 1 .. Len(nodes)
      PROVE  /\ i <= b => nodes[i] = Lb
             /\ i > b /\ i <= b + s => nodes[i] = Server(i - b - 1)
             /\ i > b + s => nodes[i] = Agent(i - b - s - 1)
  <2>1. CASE i <= b
    BY <1>1, <1>3, <1>6, <1>7, <2>1
  <2>2. CASE i > b /\ i <= b + s
    <3>1. i - b \in 1 .. s /\ i = b + (i - b) /\ i \in 1 .. b + s /\ (i - b) - 1 = i - b - 1
      BY <1>1, <1>3, <1>7, <2>2
    <3>2. nodes[i] = Server((i - b) - 1)
      BY <1>6, <1>7, <3>1
    <3> QED BY <1>1, <1>3, <2>2, <3>1, <3>2
  <2>3. CASE i > b + s
    <3>1. i - (b + s) \in 1 .. a /\ i = b + s + (i - (b + s)) /\ (i - (b + s)) - 1 = i - b - s - 1
      BY <1>1, <1>3, <1>7, <2>3
    <3>2. nodes[i] = Agent((i - (b + s)) - 1)
      BY <1>7, <3>1
    <3> QED BY <1>1, <1>3, <2>3, <3>1, <3>2
  <2> QED BY <1>1, <1>3, <1>7, <2>1, <2>2, <2>3
<1> QED BY <1>3, <1>7, <1>8, <1>9 DEF A, b, s, a

\* No node is there twice, and the load balancer unless the cluster has none.
LEMMA NodesDiffer ==
  ASSUME NEW c, Counted(c)
  PROVE  LET nodes == NodesOf(c)
         IN  /\ \A i, j \in 1 .. Len(nodes) : nodes[i] = nodes[j] => i = j
             /\ Cardinality(Range(nodes)) = Len(nodes)
             /\ Lb \in Range(nodes) <=> ~c.noLb
             /\ (\E n \in Range(nodes) : n.role = "server") <=> c.servers > 0
<1> DEFINE nodes == NodesOf(c)
           b == Lbs(c)
           s == c.servers
<1>1. /\ nodes \in Seq(AllNodes) /\ Len(nodes) = b + s + c.agents /\ b \in {0, 1}
      /\ \A i \in 1 .. Len(nodes) : /\ i <= b => nodes[i] = Lb
                                    /\ i > b /\ i <= b + s => nodes[i] = Server(i - b - 1)
                                    /\ i > b + s => nodes[i] = Agent(i - b - s - 1)
  BY NodesAre
<1>2. s \in Nat /\ c.agents \in Nat /\ c.noLb \in BOOLEAN
  BY DEF Counted
<1> HIDE DEF nodes, b, s
<1>3. DOMAIN nodes = 1 .. Len(nodes) /\ Len(nodes) \in Nat
  BY <1>1
<1>4. ASSUME NEW i \in 1 .. Len(nodes)
      PROVE  \/ i <= b /\ nodes[i] = Lb
             \/ i > b /\ i <= b + s /\ nodes[i] = Server(i - b - 1)
             \/ i > b + s /\ nodes[i] = Agent(i - b - s - 1)
  BY <1>1, <1>2
<1>5. ASSUME NEW i \in 1 .. Len(nodes)
      PROVE  \/ i <= b /\ nodes[i].role = "loadbalancer"
             \/ i > b /\ i <= b + s /\ nodes[i].role = "server" /\ nodes[i].idx = i - b - 1
             \/ i > b + s /\ nodes[i].role = "agent" /\ nodes[i].idx = i - b - s - 1
  <2>1. CASE i <= b /\ nodes[i] = Lb
    BY <2>1 DEF Lb
  <2>2. CASE i > b /\ i <= b + s /\ nodes[i] = Server(i - b - 1)
    BY <2>2 DEF Server
  <2>3. CASE i > b + s /\ nodes[i] = Agent(i - b - s - 1)
    BY <2>3 DEF Agent
  <2> QED BY <1>4, <2>1, <2>2, <2>3
<1>6. ASSUME NEW i \in 1 .. Len(nodes), NEW j \in 1 .. Len(nodes), nodes[i] = nodes[j] PROVE i = j
  <2> DEFINE role == nodes[i].role
             idx == nodes[i].idx
  <2>1. /\ \/ i <= b /\ role = "loadbalancer"
           \/ i > b /\ i <= b + s /\ role = "server" /\ idx = i - b - 1
           \/ i > b + s /\ role = "agent" /\ idx = i - b - s - 1
        /\ \/ j <= b /\ role = "loadbalancer"
           \/ j > b /\ j <= b + s /\ role = "server" /\ idx = j - b - 1
           \/ j > b + s /\ role = "agent" /\ idx = j - b - s - 1
    BY <1>5, <1>6
  <2> HIDE DEF role, idx
  <2>2. i \in Int /\ j \in Int /\ i >= 1 /\ j >= 1
    OBVIOUS
  <2> QED BY <1>1, <1>2, <2>1, <2>2
<1>7. Cardinality(Range(nodes)) = Len(nodes)
  <2> DEFINE n == Len(nodes)
             R == Range(nodes)
  <2>0. n \in Nat /\ 1 \in Int /\ n \in Int
    BY <1>3
  <2>2. nodes \in Bijection(1 .. n, R)
    <3>1. nodes \in [1 .. n -> R]
      BY <1>1, <1>3 DEF Range
    <3>2. \A x \in R : \E i \in 1 .. n : nodes[i] = x
      BY <1>3 DEF Range
    <3> HIDE DEF n, R
    <3> QED BY <1>6, <3>1, <3>2 DEF Bijection, Injection, Surjection, IsInjective, n
  <2> HIDE DEF n, R
  <2>3. ExistsBijection(1 .. n, R)
    BY <2>2 DEF ExistsBijection
  <2>4. Cardinality(R) = n
    BY <2>0, <2>3, FS_CountingElements
  <2> QED BY <2>4 DEF n, R
<1>8. \A n : n \in Range(nodes) <=> \E i \in 1 .. Len(nodes) : n = nodes[i]
  BY <1>3 DEF Range
<1>9. Lb \in Range(nodes) <=> ~c.noLb
  <2>1. ASSUME ~c.noLb PROVE Lb \in Range(nodes)
    <3>1. b = 1
      BY <2>1 DEF b, Lbs
    <3>2. 1 \in 1 .. Len(nodes) /\ nodes[1] = Lb
      BY <1>1, <1>2, <3>1
    <3> QED BY <1>8, <3>2
  <2>2. ASSUME Lb \in Range(nodes) PROVE ~c.noLb
    <3> PICK i \in 1 .. Len(nodes) : Lb = nodes[i]
      BY <1>8, <2>2
    <3>1. i <= b
      BY <1>5 DEF Lb
    <3>2. b # 0
      BY <3>1
    <3> QED BY <1>2, <3>2 DEF b, Lbs
  <2> QED BY <2>1, <2>2
<1>10. (\E n \in Range(nodes) : n.role = "server") <=> s > 0
  <2>1. ASSUME s > 0 PROVE \E n \in Range(nodes) : n.role = "server"
    <3>1. b + 1 \in 1 .. Len(nodes)
      BY <1>1, <1>2, <2>1
    <3>2. nodes[b + 1].role = "server"
      BY <1>2, <1>5, <2>1, <3>1, b + 1 > b DEF b, Lbs
    <3> QED BY <1>8, <3>1, <3>2
  <2>2. ASSUME NEW n \in Range(nodes), n.role = "server" PROVE s > 0
    <3> PICK i \in 1 .. Len(nodes) : n = nodes[i]
      BY <1>8
    <3>1. i > b /\ i <= b + s
      BY <1>5, <2>2
    <3> QED BY <1>1, <1>2, <3>1
  <2> QED BY <2>1, <2>2
<1> QED BY <1>6, <1>7, <1>9, <1>10 DEF nodes, s

-----------------------------------------------------------------------------
(* The configuration: read, migrated and joined with the flags *)

LEMMA Listed ==
  ASSUME NEW s, IsList(s)
  PROVE  /\ Len(s) \in Nat /\ DOMAIN s = 1 .. Len(s) /\ \A i \in 1 .. Len(s) : s[i] \in Range(s)
         /\ \A x \in Range(s) : \E i \in 1 .. Len(s) : x = s[i]
<1> DEFINE S == Range(s)
<1> HIDE DEF S
<1>1. s \in Seq(S)
  BY DEF IsList, S
<1>2. Len(s) \in Nat /\ DOMAIN s = 1 .. Len(s) /\ \A i \in 1 .. Len(s) : s[i] \in S
  BY <1>1
<1>3. \A x \in S : \E i \in 1 .. Len(s) : x = s[i]
  BY <1>2 DEF S, Range
<1> QED BY <1>2, <1>3 DEF S

LEMMA ListIs ==
  ASSUME NEW n \in Nat, NEW s, s = [i \in 1 .. n |-> s[i]]
  PROVE  IsList(s) /\ Len(s) = n /\ DOMAIN s = 1 .. n
<1> DEFINE S == Range(s)
<1>1. DOMAIN s = 1 .. n
  OBVIOUS
<1>2. \A i \in 1 .. n : s[i] \in S
  BY <1>1 DEF Range
<1> HIDE DEF S
<1>3. s \in Seq(S) /\ Len(s) = n
  BY <1>2, IsSeq
<1> QED BY <1>1, <1>3 DEF S, IsList

LEMMA ListsJoined ==
  ASSUME NEW s, NEW t, IsList(s), IsList(t)
  PROVE  /\ IsList(s \o t) /\ Range(s \o t) = Range(s) \cup Range(t) /\ Len(s \o t) = Len(s) + Len(t)
         /\ \A i \in 1 .. Len(s) : (s \o t)[i] = s[i]
         /\ \A i \in 1 .. Len(t) : (s \o t)[Len(s) + i] = t[i]
<1> DEFINE S == Range(s) \cup Range(t)
<1>1. Range(s) \subseteq S /\ Range(t) \subseteq S
  OBVIOUS
<1>2. s \in Seq(Range(s)) /\ t \in Seq(Range(t))
  BY DEF IsList
<1> HIDE DEF S
<1>3. s \in Seq(S) /\ t \in Seq(S)
  <2>1. ASSUME NEW A, NEW u \in Seq(A), A \subseteq S PROVE u \in Seq(S)
    BY <2>1
  <2> QED BY <1>1, <1>2, <2>1
<1>4. /\ s \o t \in Seq(S) /\ Len(s \o t) = Len(s) + Len(t)
      /\ \A i \in 1 .. Len(s) : (s \o t)[i] = s[i]
      /\ \A i \in 1 .. Len(t) : (s \o t)[Len(s) + i] = t[i]
  BY <1>3, Joining
<1>5. Range(s \o t) = Range(s) \cup Range(t)
  BY <1>3, JoinedRange
<1>6. s \o t \in Seq(Range(s \o t))
  BY <1>4, <1>5, Zenon DEF S
<1> QED BY <1>4, <1>5, <1>6 DEF IsList

\* A filter and what the migration has made of it: only the syntax may have changed.
SameFilter(v, f, g) ==
  /\ f \in Filters /\ g \in Filters /\ f.group = g.group /\ f.subset = g.subset /\ f.suffix = g.suffix
  /\ IF v = "v1alpha2" THEN f.bracketed = FALSE ELSE f = g
Alike(v, fs, gs) ==
  fs \in Seq(Filters) /\ gs \in Seq(Filters) /\ Len(fs) = Len(gs) /\ \A i \in 1 .. Len(fs) : SameFilter(v, fs[i], gs[i])
\* Options, or ports: what counts besides the filters is in the field.
Stem(v, s, t, field) ==
  /\ IsList(s) /\ IsList(t) /\ Len(s) = Len(t)
  /\ \A i \in 1 .. Len(s) : /\ {field, "filters"} \subseteq DOMAIN s[i]
                            /\ s[i][field] = t[i][field] /\ Alike(v, s[i].filters, t[i].filters)

LEMMA RewrittenIs ==
  ASSUME NEW v, NEW s, IsList(s), NEW field, field # "filters", v = "v1alpha2",
         \A o \in Range(s) : {field, "filters"} \subseteq DOMAIN o /\ o.filters \in Seq(Filters)
  PROVE  Stem(v, Rewritten(s), s, field)
<1> DEFINE r == Rewritten(s)
           n == Len(s)
<1>1. n \in Nat /\ DOMAIN s = 1 .. n /\ \A i \in 1 .. n : s[i] \in Range(s)
  BY Listed
<1>2. r = [i \in 1 .. n |-> r[i]] /\ \A i \in 1 .. n : r[i] = Unbracketed(s[i])
  BY <1>1 DEF Rewritten
<1> HIDE DEF r, n
<1>3. IsList(r) /\ Len(r) = n
  BY <1>1, <1>2, ListIs
<1>4. ASSUME NEW i \in 1 .. n
      PROVE  /\ DOMAIN r[i] = DOMAIN s[i] /\ \A g \in DOMAIN s[i] : g # "filters" => r[i][g] = s[i][g]
             /\ Alike(v, r[i].filters, s[i].filters)
  <2> DEFINE o == s[i]
             fs == o.filters
             u == [k \in DOMAIN fs |-> [fs[k] EXCEPT !.bracketed = FALSE]]
  <2>1. fs \in Seq(Filters) /\ "filters" \in DOMAIN o
    BY <1>1, <1>4
  <2>2. r[i] = [o EXCEPT !.filters = u]
    BY <1>2, <1>4 DEF Unbracketed
  <2> HIDE DEF o, fs
  <2>3. u \in Seq(Filters) /\ Len(u) = Len(fs) /\ \A k \in 1 .. Len(fs) : SameFilter(v, u[k], fs[k])
    <3> DEFINE m == Len(fs)
    <3>1. m \in Nat /\ DOMAIN fs = 1 .. m /\ \A k \in 1 .. m : fs[k] \in Filters
      BY <2>1
    <3> HIDE DEF m
    <3>2. ASSUME NEW k \in 1 .. m PROVE u[k] \in Filters /\ SameFilter(v, u[k], fs[k])
      <4> DEFINE f == fs[k]
                 g == u[k]
      <4>1. f \in Filters
        BY <3>1
      <4>2. g = [f EXCEPT !.bracketed = FALSE]
        BY <3>1
      <4> HIDE DEF f, g
      <4>3. /\ g \in Filters /\ g.group = f.group /\ g.subset = f.subset /\ g.suffix = f.suffix
            /\ g.bracketed = FALSE
        <5> DEFINE A == Texts(Groups)
                   B == Texts({NoSuffix, "proxy", "direct"})
        <5> HIDE DEF A, B
        <5>1. f \in [group : A, subset : Subsets, suffix : B, bracketed : BOOLEAN]
          BY <4>1 DEF Filters, A, B
        <5>2. /\ g \in [group : A, subset : Subsets, suffix : B, bracketed : BOOLEAN]
              /\ g.group = f.group /\ g.subset = f.subset /\ g.suffix = f.suffix /\ g.bracketed = FALSE
          BY <4>2, <5>1
        <5> QED BY <5>2 DEF Filters, A, B
      <4>4. SameFilter(v, g, f)
        BY <4>1, <4>3 DEF SameFilter
      <4> QED BY <4>3, <4>4 DEF f, g
    <3>3. u = [k \in 1 .. m |-> u[k]]
      BY <3>1
    <3> HIDE DEF u
    <3>4. u \in Seq(Filters) /\ Len(u) = m
      BY <3>1, <3>2, <3>3, IsSeq
    <3> QED BY <3>2, <3>4 DEF m
  <2> HIDE DEF u
  <2>4. DOMAIN r[i] = DOMAIN o /\ r[i].filters = u /\ \A g \in DOMAIN o : g # "filters" => r[i][g] = o[g]
    BY <2>1, <2>2
  <2>5. Alike(v, r[i].filters, fs)
    BY <2>1, <2>3, <2>4 DEF Alike
  <2> QED BY <2>4, <2>5 DEF o, fs
<1>5. ASSUME NEW i \in 1 .. n
      PROVE  {field, "filters"} \subseteq DOMAIN s[i]
  BY <1>1
<1>6. Stem(v, r, s, field)
  BY <1>3, <1>4, <1>5 DEF Stem, n
<1> QED BY <1>6 DEF r, n

LEMMA RewrittenKeeps ==
  ASSUME NEW s, IsList(s), NEW i \in 1 .. Len(s), NEW g, g # "filters", g \in DOMAIN s[i]
  PROVE  Rewritten(s)[i][g] = s[i][g]
<1>1. DOMAIN s = 1 .. Len(s)
  BY Listed
<1>2. Rewritten(s)[i] = Unbracketed(s[i])
  BY <1>1 DEF Rewritten
<1> DEFINE o == s[i]
           u == [k \in DOMAIN o.filters |-> [o.filters[k] EXCEPT !.bracketed = FALSE]]
<1>3. Unbracketed(o) = [o EXCEPT !.filters = u]
  BY DEF Unbracketed
<1>4. g \in DOMAIN o
  OBVIOUS
<1> HIDE DEF o, u
<1>5. Unbracketed(o)[g] = o[g]
  BY <1>3, <1>4
<1> QED BY <1>2, <1>5 DEF o

\* Without a migration they are what they were.
LEMMA SameIs ==
  ASSUME NEW v, NEW s, IsList(s), NEW field,
         \A o \in Range(s) : {field, "filters"} \subseteq DOMAIN o /\ o.filters \in Seq(Filters),
         v = "v1alpha2" => \A o \in Range(s) : \A f \in Range(o.filters) : f.bracketed = FALSE
  PROVE  Stem(v, s, s, field)
<1>1. Len(s) \in Nat /\ DOMAIN s = 1 .. Len(s) /\ \A i \in 1 .. Len(s) : s[i] \in Range(s)
  BY Listed
<1>2. ASSUME NEW i \in 1 .. Len(s) PROVE Alike(v, s[i].filters, s[i].filters)
  <2> DEFINE fs == s[i].filters
  <2>1. fs \in Seq(Filters) /\ (v = "v1alpha2" => \A f \in Range(fs) : f.bracketed = FALSE)
    BY <1>1
  <2> HIDE DEF fs
  <2>2. \A k \in 1 .. Len(fs) : fs[k] \in Filters /\ fs[k] \in Range(fs)
    BY <2>1 DEF Range
  <2>3. \A k \in 1 .. Len(fs) : SameFilter(v, fs[k], fs[k])
    BY <2>1, <2>2 DEF SameFilter
  <2> QED BY <2>1, <2>3 DEF Alike, fs
<1> QED BY <1>1, <1>2 DEF Stem

\* The arguments of v1alpha2 get filters for all the nodes of their group.
LEMMA ForGroupIs ==
  ASSUME NEW args, IsList(args), NEW group \in Groups
  PROVE  LET s == ForGroup(args, group)
         IN  /\ IsList(s)
             /\ \A o \in Range(s) : /\ {"what", "filters"} \subseteq DOMAIN o /\ o.filters \in Seq(Filters)
                                    /\ \A f \in Range(o.filters) : f.bracketed = FALSE
<1> DEFINE s == ForGroup(args, group)
           n == Len(args)
           f == Filter(group, Every, NoSuffix)
<1>1. n \in Nat /\ DOMAIN args = 1 .. n
  BY Listed
<1>2. s = [i \in 1 .. n |-> s[i]] /\ \A i \in 1 .. n : s[i] = [what |-> args[i], filters |-> <<f>>]
  BY <1>1 DEF ForGroup
<1>3. f \in Filters /\ f.bracketed = FALSE
  <2>1. group \in Texts(Groups) /\ NoSuffix \in Texts({NoSuffix, "proxy", "direct"}) /\ Every \in Subsets
    BY DEF Texts, Subsets
  <2> DEFINE A == Texts(Groups)
             B == Texts({NoSuffix, "proxy", "direct"})
             e == Every
             x == NoSuffix
  <2>2. f = [group |-> group, subset |-> e, suffix |-> x, bracketed |-> FALSE]
    BY DEF Filter
  <2> HIDE DEF f, A, B, e, x
  <2>3. f \in [group : A, subset : Subsets, suffix : B, bracketed : BOOLEAN] /\ f.bracketed = FALSE
    BY <2>1, <2>2 DEF A, B, e, x
  <2> QED BY <2>3 DEF Filters, A, B
<1> HIDE DEF s, n, f
<1>4. IsList(s) /\ DOMAIN s = 1 .. n
  BY <1>1, <1>2, ListIs
<1>5. ASSUME NEW o \in Range(s)
      PROVE  /\ {"what", "filters"} \subseteq DOMAIN o /\ o.filters \in Seq(Filters)
             /\ \A g \in Range(o.filters) : g.bracketed = FALSE
  <2>1. PICK i \in 1 .. n : o = s[i]
    BY <1>4 DEF Range
  <2>2. o = [what |-> args[i], filters |-> <<f>>]
    BY <1>2, <2>1
  <2>3. <<f>> \in Seq(Filters) /\ Range(<<f>>) = {f}
    BY <1>3 DEF Range
  <2>4. {"what", "filters"} \subseteq DOMAIN o /\ o.filters = <<f>>
    BY <2>2
  <2> QED BY <1>3, <2>3, <2>4
<1> QED BY <1>4, <1>5 DEF s

\* The fields of the present version that are not options or ports keep their values in a migration.
Others == Fields \ {"version", "options", "ports"}

LEMMA DecodedIs ==
  ASSUME file \in Files, flags \in FlagSets
  PROVE  LET c == Decoded(file.version)
         IN  DOMAIN c = Fields /\ Counted(c) /\ \A f \in Fields \ Plain : c[f] = file[f]
<1> DEFINE c == Decoded(file.version)
           K == KnownTo(file.version)
<1>1. /\ DOMAIN file = Fields /\ file.servers \in Nat /\ file.agents \in Nat /\ file.noLb \in BOOLEAN
      /\ DOMAIN flags.plain \subseteq Plain
      /\ \A f \in {"servers", "agents"} \cap DOMAIN flags.plain : flags.plain[f] \in Nat
  BY ConfigAssumption
<1>b. "noLb" \in DOMAIN flags.plain => flags.plain["noLb"] \in BOOLEAN
  BY ConfigAssumption
<1>2. c = [f \in DOMAIN file |-> IF f \in DOMAIN flags.plain \cap K THEN flags.plain[f] ELSE file[f]]
  BY DEF Decoded
<1> HIDE DEF c, K
<1>3. DOMAIN c = Fields
  BY <1>1, <1>2
<1>4. \A f \in Fields : (c[f] = flags.plain[f] /\ f \in DOMAIN flags.plain) \/ c[f] = file[f]
  BY <1>1, <1>2
<1>5. \A f \in Fields \ Plain : c[f] = file[f]
  BY <1>1, <1>4
<1>6. {"servers", "agents", "noLb"} \subseteq Fields
  BY DEF Fields
<1>7. c.servers \in Nat
  BY <1>1, <1>4, <1>6
<1>8. c.agents \in Nat
  BY <1>1, <1>4, <1>6
<1>9. c.noLb \in BOOLEAN
  BY <1>1, <1>b, <1>4, <1>6
<1> QED BY <1>3, <1>5, <1>7, <1>8, <1>9 DEF Counted, c

\* m is what the migrations make of c.
OptionsMigrated(c) ==
  [k \in Kinds |->
     CASE k \in {"volume", "env", "runtimeLabel"} -> Rewritten(c.options[k])
       [] k = "arg" -> ForGroup(c.serverArgs, "server") \o ForGroup(c.agentArgs, "agent")
       [] OTHER -> <<>>]
IsMigration(m, c) ==
  /\ DOMAIN m = Fields /\ m.version = "v1alpha5" /\ \A f \in Others : m[f] = c[f]
  /\ c.version # "v1alpha2" => m.ports = c.ports /\ m.options = c.options
  /\ c.version = "v1alpha2" => m.ports = Rewritten(c.ports) /\ m.options = OptionsMigrated(c)

LEMMA MigratedIs ==
  ASSUME NEW c, DOMAIN c = Fields, c.version \in Versions
  PROVE  IsMigration(Migrated(c), c)
<1> DEFINE options == OptionsMigrated(c)
           ps == Rewritten(c.ports)
           three == MigrateV1Alpha2(c)
<1>0. {"version", "options", "ports"} \subseteq Fields
  BY DEF Fields
<1>1. three = [c EXCEPT !.version = "v1alpha3", !.ports = ps, !.options = options]
  BY DEF MigrateV1Alpha2, OptionsMigrated
<1> HIDE DEF options, ps, three
<1>2. /\ DOMAIN three = Fields /\ three.version = "v1alpha3" /\ \A f \in Others : three[f] = c[f]
      /\ three.ports = ps /\ three.options = options
  BY <1>0, <1>1 DEF Others
<1>3. ASSUME NEW d, DOMAIN d = Fields
      PROVE  LET five == MigrateV1Alpha4(d)
             IN  /\ DOMAIN five = Fields /\ five.version = "v1alpha5"
                 /\ \A f \in Fields \ {"version"} : five[f] = d[f]
  BY <1>0, <1>3 DEF MigrateV1Alpha4
<1>4. ASSUME NEW d, DOMAIN d = Fields
      PROVE  LET four == MigrateV1Alpha3(d)
             IN  DOMAIN four = Fields /\ \A f \in Fields \ {"version"} : four[f] = d[f]
  BY <1>0, <1>4 DEF MigrateV1Alpha3
<1>5. CASE c.version = "v1alpha2"
  <2> DEFINE four == MigrateV1Alpha3(three)
             five == MigrateV1Alpha4(four)
  <2>1. DOMAIN four = Fields /\ \A f \in Fields \ {"version"} : four[f] = three[f]
    BY <1>2, <1>4
  <2>2. DOMAIN five = Fields /\ five.version = "v1alpha5" /\ \A f \in Fields \ {"version"} : five[f] = four[f]
    BY <1>3, <2>1
  <2>3. Migrated(c) = five
    BY <1>5 DEF Migrated, three
  <2> HIDE DEF four, five
  <2>4. /\ \A f \in Others : five[f] = c[f]
        /\ five.ports = ps /\ five.options = options
    BY <1>0, <1>2, <2>1, <2>2 DEF Others
  <2> QED BY <1>5, <2>2, <2>3, <2>4 DEF IsMigration, ps, options
<1>6. CASE c.version = "v1alpha3"
  <2> DEFINE four == MigrateV1Alpha3(c)
             five == MigrateV1Alpha4(four)
  <2>1. DOMAIN four = Fields /\ \A f \in Fields \ {"version"} : four[f] = c[f]
    BY <1>4
  <2>2. DOMAIN five = Fields /\ five.version = "v1alpha5" /\ \A f \in Fields \ {"version"} : five[f] = four[f]
    BY <1>3, <2>1
  <2>3. Migrated(c) = five
    BY <1>6 DEF Migrated
  <2> HIDE DEF four, five
  <2>4. \A f \in Fields \ {"version"} : five[f] = c[f]
    BY <2>1, <2>2
  <2> QED BY <1>0, <1>6, <2>2, <2>3, <2>4 DEF IsMigration, Others
<1>7. CASE c.version = "v1alpha4"
  <2> DEFINE five == MigrateV1Alpha4(c)
  <2>2. DOMAIN five = Fields /\ five.version = "v1alpha5" /\ \A f \in Fields \ {"version"} : five[f] = c[f]
    BY <1>3
  <2>3. Migrated(c) = five
    BY <1>7 DEF Migrated
  <2> HIDE DEF five
  <2> QED BY <1>0, <1>7, <2>2, <2>3 DEF IsMigration, Others
<1>8. CASE c.version = "v1alpha5"
  <2>1. Migrated(c) = c
    BY <1>8 DEF Migrated
  <2> QED BY <1>8, <2>1 DEF IsMigration, Others
<1> QED BY <1>5, <1>6, <1>7, <1>8 DEF Versions

\* What has been read is what the file of that version asks for, in the present syntax; no
\* filter has the old one but those written in it for the present.
AskedInFile == [k \in Kinds |-> FileOptions(k)]
ArePortsOf(c, written) ==
  /\ IsList(c.ports)
  /\ \A p \in Range(c.ports) : /\ IsPort(p) /\ p.removal = FALSE
                               /\ \A f \in Range(p.filters) : f.bracketed => f \in written
IsSimple(c) ==
  DOMAIN c = Fields /\ c.version = "v1alpha5" /\ Counted(c) /\ c.apiPort \in Nat /\ DOMAIN c.options = Kinds
IsRead(c, v, asked) == IsSimple(c) /\ \A k \in Kinds : Stem(v, c.options[k], asked[k], "what")

LEMMA ReadIs ==
  ASSUME file \in Files, flags \in FlagSets, file.version \in Versions
  PROVE  /\ IsRead(Migrated(Decoded(file.version)), file.version, AskedInFile)
         /\ ArePortsOf(Migrated(Decoded(file.version)), Written)
<1> DEFINE d == Decoded(file.version)
           c == Migrated(d)
<1>1. /\ file.apiPort \in Nat /\ DOMAIN file.options = Kinds /\ \A k \in Kinds : AreOptions(file.options[k])
      /\ ArePorts(file.ports) /\ IsList(file.serverArgs) /\ IsList(file.agentArgs)
      /\ \A p \in Range(file.ports) : "removal" \in DOMAIN p /\ p.removal = FALSE
  BY ConfigAssumption DEF Typed
<1>2. DOMAIN d = Fields /\ Counted(d) /\ \A f \in Fields \ Plain : d[f] = file[f]
  BY DecodedIs
<1> HIDE DEF d
<1>3. {"version", "options", "ports", "apiPort", "serverArgs", "agentArgs"} \subseteq Fields \ Plain
  BY DEF Fields, Plain
<1>4. /\ d.version = file.version /\ d.options = file.options /\ d.ports = file.ports
      /\ d.serverArgs = file.serverArgs /\ d.agentArgs = file.agentArgs /\ d.apiPort = file.apiPort
  BY <1>2, <1>3
<1>a. IsMigration(c, d)
  <2>1. d.version \in Versions
    BY <1>4
  <2> QED BY <1>2, <2>1, MigratedIs
<1> HIDE DEF c
<1>5. /\ DOMAIN c = Fields /\ c.version = "v1alpha5" /\ \A f \in Others : c[f] = d[f]
      /\ file.version # "v1alpha2" => c.ports = d.ports /\ c.options = d.options
      /\ file.version = "v1alpha2" => c.ports = Rewritten(d.ports) /\ c.options = OptionsMigrated(d)
  BY <1>4, <1>a DEF IsMigration
<1>6. {"servers", "agents", "noLb", "apiPort"} \subseteq Others
  BY DEF Others, Fields
<1>7. Counted(c) /\ c.apiPort \in Nat
  BY <1>1, <1>2, <1>4, <1>5, <1>6 DEF Counted
<1>8. \A k \in Kinds : IsList(file.options[k])
                       /\ \A o \in Range(file.options[k]) : {"what", "filters"} \subseteq DOMAIN o /\ o.filters \in Seq(Filters)
  BY <1>1 DEF AreOptions
<1>9. /\ IsList(file.ports)
      /\ \A p \in Range(file.ports) : {"maps", "filters"} \subseteq DOMAIN p /\ p.maps \in Seq(Mappings) /\ p.filters \in Seq(Filters)
  BY <1>1 DEF ArePorts, Mappings
<1>10. ASSUME NEW k \in Kinds PROVE Stem(file.version, c.options[k], FileOptions(k), "what")
  <2>1. CASE file.version # "v1alpha2"
    <3>1. FileOptions(k) = file.options[k] /\ c.options[k] = file.options[k]
      BY <1>4, <1>5, <2>1 DEF FileOptions
    <3> DEFINE s == file.options[k]
    <3>2. IsList(s) /\ \A o \in Range(s) : {"what", "filters"} \subseteq DOMAIN o /\ o.filters \in Seq(Filters)
      BY <1>8, <1>10
    <3> HIDE DEF s
    <3>3. Stem(file.version, s, s, "what")
      BY <2>1, <3>2, SameIs
    <3> QED BY <3>1, <3>3 DEF s
  <2>2. CASE file.version = "v1alpha2" /\ k \in {"volume", "env", "runtimeLabel"}
    <3>1. FileOptions(k) = file.options[k]
      BY <2>2 DEF FileOptions
    <3>2. c.options[k] = Rewritten(file.options[k])
      BY <1>4, <1>5, <2>2, <1>10 DEF OptionsMigrated
    <3> DEFINE s == file.options[k]
    <3>3. IsList(s) /\ \A o \in Range(s) : {"what", "filters"} \subseteq DOMAIN o /\ o.filters \in Seq(Filters)
      BY <1>8, <1>10
    <3> HIDE DEF s
    <3>4. Stem(file.version, Rewritten(s), s, "what")
      BY <2>2, <3>3, RewrittenIs
    <3> QED BY <3>1, <3>2, <3>4 DEF s
  <2>3. CASE file.version = "v1alpha2" /\ k = "arg"
    <3> DEFINE s == ForGroup(file.serverArgs, "server")
               t == ForGroup(file.agentArgs, "agent")
               u == s \o t
    <3>1. FileOptions(k) = u
      BY <2>3 DEF FileOptions
    <3>2. c.options[k] = u
      BY <1>4, <1>5, <2>3, <1>10 DEF OptionsMigrated
    <3>3. /\ IsList(s) /\ IsList(t)
          /\ \A o \in Range(s) \cup Range(t) : /\ {"what", "filters"} \subseteq DOMAIN o /\ o.filters \in Seq(Filters)
                                               /\ \A f \in Range(o.filters) : f.bracketed = FALSE
      <4>1. "server" \in Groups /\ "agent" \in Groups
        BY DEF Groups
      <4> QED BY <1>1, <4>1, ForGroupIs
    <3> HIDE DEF s, t
    <3>4. IsList(u) /\ Range(u) = Range(s) \cup Range(t)
      BY <3>3, ListsJoined
    <3> HIDE DEF u
    <3>5. Stem(file.version, u, u, "what")
      BY <3>3, <3>4, SameIs
    <3> QED BY <3>1, <3>2, <3>5
  <2>4. CASE file.version = "v1alpha2" /\ k \notin {"volume", "env", "runtimeLabel", "arg"}
    <3>1. FileOptions(k) = <<>>
      BY <2>4 DEF FileOptions
    <3>2. c.options[k] = <<>>
      BY <1>5, <2>4, <1>10 DEF OptionsMigrated
    <3> DEFINE s == <<>>
    <3>3. IsList(s) /\ Range(s) = {}
      BY DEF IsList, Range
    <3> HIDE DEF s
    <3>4. Stem(file.version, s, s, "what")
      BY <3>3, SameIs
    <3> QED BY <3>1, <3>2, <3>4 DEF s
  <2> QED BY <2>1, <2>2, <2>3, <2>4
<1>11. DOMAIN c.options = Kinds
  BY <1>1, <1>4, <1>5 DEF OptionsMigrated
<1>12. ArePortsOf(c, Written)
  <2> DEFINE s == file.ports
             v == file.version
             W == Written
  <2>1. /\ IsList(s)
        /\ \A p \in Range(s) : /\ {"maps", "filters"} \subseteq DOMAIN p /\ p.maps \in Seq(Mappings)
                               /\ p.filters \in Seq(Filters) /\ "removal" \in DOMAIN p /\ p.removal = FALSE
    BY <1>1, <1>9
  <2>2. c.ports = IF v = "v1alpha2" THEN Rewritten(s) ELSE s
    BY <1>4, <1>5
  <2>3. v # "v1alpha2" => \A p \in Range(s) : Range(p.filters) \subseteq W
    BY DEF Written, FiltersOf
  <2> HIDE DEF s, v, W
  <2>4. CASE v # "v1alpha2"
    <3>1. \A p \in Range(s) : IsPort(p)
      BY <2>1 DEF IsPort
    <3> QED BY <2>1, <2>2, <2>3, <2>4, <3>1 DEF ArePortsOf, W
  <2>5. CASE v = "v1alpha2"
    <3> DEFINE r == Rewritten(s)
    <3>1. /\ Stem(v, r, s, "maps")
          /\ \A i \in 1 .. Len(s) : \A g \in DOMAIN s[i] : g # "filters" => r[i][g] = s[i][g]
      <4> DEFINE field == "maps"
      <4>1. IsList(s) /\ field # "filters"
            /\ \A o \in Range(s) : {field, "filters"} \subseteq DOMAIN o /\ o.filters \in Seq(Filters)
        BY <2>1
      <4> HIDE DEF field
      <4>2. Stem(v, r, s, field)
        BY <2>5, <4>1, RewrittenIs
      <4>3. ASSUME NEW i \in 1 .. Len(s), NEW g \in DOMAIN s[i], g # "filters" PROVE r[i][g] = s[i][g]
        BY <4>1, <4>3, RewrittenKeeps
      <4> QED BY <4>2, <4>3 DEF field
    <3> HIDE DEF r
    <3>2. /\ IsList(r) /\ Len(r) = Len(s)
          /\ \A i \in 1 .. Len(r) : Alike(v, r[i].filters, s[i].filters)
      BY <3>1 DEF Stem
    <3>3. ASSUME NEW p \in Range(r)
          PROVE  IsPort(p) /\ p.removal = FALSE /\ \A f \in Range(p.filters) : f.bracketed => f \in W
      <4>1. PICK i \in 1 .. Len(r) : p = r[i]
        BY <3>2, Listed
      <4>2. s[i] \in Range(s)
        BY <2>1, <3>2, <4>1, Listed
      <4>3. "maps" \in DOMAIN s[i] /\ "removal" \in DOMAIN s[i]
        BY <2>1, <4>2
      <4>4. p.maps = s[i].maps /\ p.removal = s[i].removal
        BY <3>1, <3>2, <4>1, <4>3
      <4> DEFINE fs == p.filters
      <4>5. fs \in Seq(Filters) /\ \A j \in 1 .. Len(fs) : fs[j].bracketed = FALSE
        BY <2>5, <3>2, <4>1 DEF Alike, SameFilter
      <4> HIDE DEF fs
      <4>6. \A f \in Range(fs) : f.bracketed = FALSE
        BY <4>5 DEF Range
      <4>7. p.maps \in Seq(Mappings) /\ p.removal = FALSE
        BY <2>1, <4>2, <4>4
      <4> QED BY <4>5, <4>6, <4>7 DEF IsPort, fs
    <3> QED BY <2>2, <2>5, <3>2, <3>3 DEF r, ArePortsOf, W
  <2> QED BY <2>4, <2>5
<1>13. \A k \in Kinds : AskedInFile[k] = FileOptions(k)
  BY DEF AskedInFile
<1> QED BY <1>5, <1>7, <1>10, <1>11, <1>12, <1>13 DEF IsRead, IsSimple, c, d

LEMMA FiniteMany ==
  ASSUME NEW n \in Nat, NEW F, F = [i \in 1 .. n |-> F[i]]
  PROVE  IsFiniteSet({F[i] : i \in 1 .. n})
<1> DEFINE D == 1 .. n
           T == {F[i] : i \in D}
<1>1. IsFiniteSet(D)
  <2>1. 1 \in Int /\ n \in Int
    OBVIOUS
  <2> QED BY <2>1, FS_Interval
<1>2. F \in [D -> T] /\ \A t \in T : \E i \in D : F[i] = t
  OBVIOUS
<1> HIDE DEF D, T
<1>3. F \in Surjection(D, T)
  BY <1>2 DEF Surjection
<1>4. IsFiniteSet(T)
  BY <1>1, <1>3, FS_Surjection
<1> QED BY <1>4 DEF D, T

\* What is read from a map comes in some order, and all of it.
LEMMA InOrder ==
  ASSUME NEW S, IsFiniteSet(S), NEW s \in SetToSeqs(S)
  PROVE  IsList(s) /\ Range(s) = S
<1> DEFINE n == Cardinality(S)
           D == 1 .. n
<1>1. n \in Nat
  BY FS_CardinalityType
<1>2. s \in [D -> S] /\ \A i, j \in D : i # j => s[i] # s[j]
  BY DEF SetToSeqs
<1>3. IsFiniteSet(D) /\ Cardinality(D) = n
  <2> HIDE DEF n
  <2>1. 1 \in Int /\ n \in Int
    BY <1>1
  <2>2. IsFiniteSet(D) /\ Cardinality(D) = IF 1 > n THEN 0 ELSE n - 1 + 1
    BY <2>1, FS_Interval
  <2> QED BY <1>1, <2>2
<1> HIDE DEF n, D
<1>4. s \in Injection(D, S)
  BY <1>2 DEF Injection, IsInjective
<1>5. s \in Surjection(D, S)
  BY <1>3, <1>4, FS_Injection DEF n
<1>6. DOMAIN s = D /\ \A t \in S : \E i \in D : s[i] = t
  BY <1>5 DEF Surjection
<1>7. Range(s) = S
  BY <1>2, <1>6 DEF Range
<1>8. s = [i \in 1 .. n |-> s[i]]
  BY <1>2 DEF D
<1> QED BY <1>1, <1>7, <1>8, ListIs

\* Of the flags for a kind of option: all the texts, and for each the filters of all who have it.
IsGiven(given, own) ==
  /\ IsList(given)
  /\ \A o \in Range(given) :
       /\ {"what", "filters"} \subseteq DOMAIN o /\ o.filters \in Seq(Filters)
       /\ \E p \in Range(own) : p.what = o.what
       /\ Range(o.filters) = UNION {Range(p.filters) : p \in {p \in Range(own) : p.what = o.what}}
       /\ o.filters # <<>> => \E p \in Range(own) : p.what = o.what /\ p.filters # <<>> /\ p.filters[1] = o.filters[1]
  /\ \A p \in Range(own) : \E o \in Range(given) : o.what = p.what

\* What comes first in a concatenation comes first in one of the sequences.
LEMMA FlattenFirst ==
  ASSUME NEW X, NEW ss \in Seq(Seq(X)), FlattenSeq(ss) # <<>>
  PROVE  \E i \in 1 .. Len(ss) : ss[i] # <<>> /\ ss[i][1] = FlattenSeq(ss)[1]
<1> DEFINE n == Len(ss)
<1>0. n \in Nat /\ \A i \in 1 .. n : ss[i] \in Seq(X)
  OBVIOUS
<1> PICK tr \in [0 .. n -> Seq(X)] :
      tr[0] = <<>> /\ (\A i \in 1 .. n : tr[i] = tr[i - 1] \o ss[i]) /\ tr[n] = FlattenSeq(ss)
  BY FlattenTrace
<1> DEFINE From(k) == tr[k] # <<>> => \E i \in 1 .. k : ss[i] # <<>> /\ ss[i][1] = tr[k][1]
           Is == {k \in Nat : k <= n => From(k)}
<1> HIDE DEF n
<1>1. 0 \in Is
  OBVIOUS
<1>2. ASSUME NEW k \in Nat, k \in Is PROVE k + 1 \in Is
  <2> SUFFICES ASSUME k + 1 <= n, tr[k + 1] # <<>>
               PROVE  \E i \in 1 .. k + 1 : ss[i] # <<>> /\ ss[i][1] = tr[k + 1][1]
    OBVIOUS
  <2>1. k + 1 \in 1 .. n /\ k \in 0 .. n /\ (k + 1) - 1 = k /\ k <= n
    BY <1>0
  <2> DEFINE a == tr[k]
             b == ss[k + 1]
             c == tr[k + 1]
  <2>2. c = a \o b /\ a \in Seq(X) /\ b \in Seq(X)
    BY <1>0, <2>1
  <2> HIDE DEF a, b, c
  <2>3. CASE a = <<>>
    <3>1. c = b
      BY <2>2, <2>3
    <3> QED BY <3>1 DEF b, c
  <2>4. CASE a # <<>>
    <3>1. c[1] = a[1]
      BY <2>2, <2>4
    <3>2. PICK i \in 1 .. k : ss[i] # <<>> /\ ss[i][1] = a[1]
      BY <1>2, <2>1, <2>4 DEF a
    <3>3. i \in 1 .. k + 1
      OBVIOUS
    <3>4. ss[i][1] = tr[k + 1][1]
      BY <3>1, <3>2 DEF c
    <3> QED BY <3>2, <3>3, <3>4
  <2> QED BY <2>3, <2>4
<1>3. Is = Nat
  <2> HIDE DEF Is
  <2>1. Is \in SUBSET Nat
    BY DEF Is
  <2> QED BY <1>1, <1>2, <2>1, SetInduction
<1>4. From(n)
  <2>1. n \in Is
    BY <1>0, <1>3
  <2>2. n <= n => From(n)
    <3> HIDE DEF From
    <3> QED BY <2>1
  <2> HIDE DEF From
  <2> QED BY <1>0, <2>2
<1> QED BY <1>4 DEF n

LEMMA GroupedIs ==
  ASSUME NEW s, AreOptions(s), NEW given \in SetToSeqs(Grouped(s))
  PROVE  IsGiven(given, s)
<1> DEFINE n == Len(s)
           part(w) == [i \in DOMAIN s |-> IF s[i].what = w THEN s[i].filters ELSE <<>>]
           option(w) == [what |-> w, filters |-> FlattenSeq(part(w))]
           F == [i \in 1 .. n |-> option(s[i].what)]
<1>1. n \in Nat /\ DOMAIN s = 1 .. n /\ \A x : x \in Range(s) <=> \E i \in 1 .. n : x = s[i]
  <2>1. IsList(s)
    BY DEF AreOptions
  <2> QED BY <2>1, Listed
<1>2. \A i \in 1 .. n : s[i].filters \in Seq(Filters)
  BY <1>1 DEF AreOptions
<1>3. Grouped(s) = {option(w) : w \in {s[i].what : i \in DOMAIN s}}
  BY DEF Grouped
<1>4. ASSUME NEW w
      PROVE  /\ FlattenSeq(part(w)) \in Seq(Filters)
             /\ Range(FlattenSeq(part(w))) = UNION {Range(p.filters) : p \in {p \in Range(s) : p.what = w}}
             /\ FlattenSeq(part(w)) # <<>> =>
                  \E p \in Range(s) : p.what = w /\ p.filters # <<>> /\ p.filters[1] = FlattenSeq(part(w))[1]
  <2> DEFINE ss == part(w)
  <2>1. \A i \in 1 .. n : ss[i] = IF s[i].what = w THEN s[i].filters ELSE <<>>
    BY <1>1
  <2>2. \A i \in 1 .. n : ss[i] \in Seq(Filters)
    BY <1>2, <2>1
  <2>3. ss = [i \in 1 .. n |-> ss[i]]
    BY <1>1
  <2> HIDE DEF ss, n
  <2>4. ss \in Seq(Seq(Filters)) /\ Len(ss) = n /\ DOMAIN ss = 1 .. n
    BY <1>1, <2>2, <2>3, IsSeq
  <2>5. FlattenSeq(ss) \in Seq(Filters) /\ Range(FlattenSeq(ss)) = UNION {Range(ss[i]) : i \in 1 .. n}
    BY <2>4, FlattenRange
  <2>6. Range(<<>>) = {}
    BY DEF Range
  <2>7. UNION {Range(ss[i]) : i \in 1 .. n} = UNION {Range(p.filters) : p \in {p \in Range(s) : p.what = w}}
    <3>1. ASSUME NEW f, NEW i \in 1 .. n, f \in Range(ss[i])
          PROVE  \E p \in {p \in Range(s) : p.what = w} : f \in Range(p.filters)
      <4>1. s[i].what = w /\ ss[i] = s[i].filters
        BY <2>1, <2>6, <3>1
      <4>2. s[i] \in Range(s)
        BY <1>1
      <4> QED BY <3>1, <4>1, <4>2
    <3>2. ASSUME NEW f, NEW p \in Range(s), p.what = w, f \in Range(p.filters)
          PROVE  \E i \in 1 .. n : f \in Range(ss[i])
      <4>1. PICK i \in 1 .. n : p = s[i]
        BY <1>1
      <4> QED BY <2>1, <3>2, <4>1
    <3> QED BY <3>1, <3>2
  <2>8. FlattenSeq(ss) # <<>> =>
          \E p \in Range(s) : p.what = w /\ p.filters # <<>> /\ p.filters[1] = FlattenSeq(ss)[1]
    <3> HAVE FlattenSeq(ss) # <<>>
    <3>1. PICK i \in 1 .. n : ss[i] # <<>> /\ ss[i][1] = FlattenSeq(ss)[1]
      BY <2>4, FlattenFirst
    <3>2. s[i].what = w /\ ss[i] = s[i].filters
      BY <2>1, <3>1
    <3>3. s[i] \in Range(s)
      BY <1>1
    <3> QED BY <3>1, <3>2, <3>3
  <2> QED BY <2>5, <2>7, <2>8 DEF ss
<1> DEFINE Opt(w) == option(w)
<1>5. \A w : Opt(w).what = w /\ Opt(w).filters = FlattenSeq(part(w)) /\ DOMAIN Opt(w) = {"what", "filters"}
  OBVIOUS
<1>6. F = [i \in 1 .. n |-> F[i]] /\ \A i \in 1 .. n : F[i] = Opt(s[i].what)
  OBVIOUS
<1>7. Grouped(s) = {Opt(w) : w \in {s[i].what : i \in 1 .. n}}
  BY <1>1, <1>3
<1> HIDE DEF part, Opt, n, F
<1>8. Grouped(s) = {F[i] : i \in 1 .. n}
  BY <1>6, <1>7
<1>9. IsList(given) /\ Range(given) = Grouped(s)
  <2>1. IsFiniteSet(Grouped(s))
    BY <1>1, <1>6, <1>8, FiniteMany
  <2> QED BY <2>1, InOrder
<1>10. ASSUME NEW o \in Range(given)
       PROVE  /\ {"what", "filters"} \subseteq DOMAIN o /\ o.filters \in Seq(Filters)
              /\ \E p \in Range(s) : p.what = o.what
              /\ Range(o.filters) = UNION {Range(p.filters) : p \in {p \in Range(s) : p.what = o.what}}
              /\ o.filters # <<>> => \E p \in Range(s) : p.what = o.what /\ p.filters # <<>> /\ p.filters[1] = o.filters[1]
  <2>1. PICK i \in 1 .. n : o = Opt(s[i].what)
    BY <1>7, <1>9
  <2> DEFINE w == s[i].what
  <2>2. s[i] \in Range(s)
    BY <1>1
  <2>3. o.what = w /\ o.filters = FlattenSeq(part(w)) /\ DOMAIN o = {"what", "filters"}
    BY <1>5, <2>1
  <2>4. \E p \in Range(s) : p.what = w
    BY <2>2
  <2> HIDE DEF w
  <2>5. /\ o.filters \in Seq(Filters)
        /\ Range(o.filters) = UNION {Range(p.filters) : p \in {p \in Range(s) : p.what = w}}
        /\ o.filters # <<>> => \E p \in Range(s) : p.what = w /\ p.filters # <<>> /\ p.filters[1] = o.filters[1]
    BY <1>4, <2>3
  <2> QED BY <2>3, <2>4, <2>5
<1>11. ASSUME NEW p \in Range(s) PROVE \E o \in Range(given) : o.what = p.what
  <2>1. PICK i \in 1 .. n : p = s[i]
    BY <1>1
  <2>2. Opt(p.what) \in Range(given)
    BY <1>7, <1>9, <2>1
  <2> QED BY <1>5, <2>2
<1> QED BY <1>9, <1>10, <1>11 DEF IsGiven

LEMMA OrdersAre ==
  ASSUME flags \in FlagSets, NEW k \in Kinds, NEW given \in Orders(k)
  PROVE  IsGiven(given, flags.options[k])
<1> DEFINE s == flags.options[k]
<1>1. Typed(flags)
  BY ConfigAssumption
<1>2. AreOptions(s) /\ (k = "ulimit" => \A o \in Range(s) : o.filters = <<>>)
  BY <1>1 DEF Typed
<1>3. CASE k # "ulimit"
  <2>1. given \in SetToSeqs(Grouped(s))
    BY <1>3 DEF Orders
  <2> HIDE DEF s
  <2>2. IsGiven(given, s)
    BY <1>2, <2>1, GroupedIs
  <2> QED BY <2>2 DEF s
<1>4. CASE k = "ulimit"
  <2>1. given = [i \in DOMAIN s |-> [what |-> s[i].what, filters |-> <<>>]]
    BY <1>4 DEF Orders
  <2> DEFINE n == Len(s)
  <2> HIDE DEF s
  <2>2. n \in Nat /\ DOMAIN s = 1 .. n /\ \A x : x \in Range(s) <=> \E i \in 1 .. n : x = s[i]
    <3>1. IsList(s)
      BY <1>2 DEF AreOptions
    <3> QED BY <3>1, Listed
  <2> HIDE DEF n
  <2>3. given = [i \in 1 .. n |-> given[i]] /\ \A i \in 1 .. n : given[i] = [what |-> s[i].what, filters |-> <<>>]
    BY <2>1, <2>2
  <2>4. IsList(given) /\ DOMAIN given = 1 .. n
    BY <2>2, <2>3, ListIs
  <2>5. \A x : x \in Range(given) <=> \E i \in 1 .. n : x = given[i]
    BY <2>4 DEF Range
  <2>6. \A i \in 1 .. n : /\ DOMAIN given[i] = {"what", "filters"} /\ given[i].filters = <<>>
                          /\ given[i].what = s[i].what
    BY <2>3
  <2>7. ASSUME NEW o \in Range(given)
        PROVE  /\ {"what", "filters"} \subseteq DOMAIN o /\ o.filters \in Seq(Filters)
               /\ \E p \in Range(s) : p.what = o.what
               /\ Range(o.filters) = UNION {Range(p.filters) : p \in {p \in Range(s) : p.what = o.what}}
               /\ o.filters = <<>>
    <3>1. PICK i \in 1 .. n : o = given[i]
      BY <2>5
    <3>2. DOMAIN o = {"what", "filters"} /\ o.filters = <<>> /\ o.what = s[i].what /\ s[i] \in Range(s)
      BY <2>2, <2>6, <3>1
    <3>3. Range(<<>>) = {} /\ <<>> \in Seq(Filters)
      BY DEF Range
    <3>4. UNION {Range(p.filters) : p \in {p \in Range(s) : p.what = o.what}} = {}
      BY <1>2, <1>4, <3>3
    <3> QED BY <3>2, <3>3, <3>4
  <2>8. \A p \in Range(s) : \E o \in Range(given) : o.what = p.what
    BY <2>2, <2>5, <2>6
  <2>9. IsGiven(given, s)
    BY <2>4, <2>7, <2>8 DEF IsGiven
  <2> QED BY <2>9 DEF s
<1> QED BY <1>3, <1>4

LEMMA PortOrdersAre ==
  ASSUME flags \in FlagSets, NEW order \in PortOrders
  PROVE  /\ IsList(order)
         /\ \A p \in Range(order) : /\ IsPort(p) /\ p.removal = FALSE /\ {"maps", "filters"} \subseteq DOMAIN p
                                    /\ \E q \in Range(flags.ports) : q.maps = p.maps /\ q.filters = p.filters
<1> DEFINE s == flags.ports
           n == Len(s)
           Port(p) == [maps |-> p.maps, filters |-> p.filters, removal |-> FALSE]
           F == [i \in 1 .. n |-> Port(s[i])]
           S == {Port(p) : p \in Range(s)}
<1>1. Typed(flags)
  BY ConfigAssumption
<1>2. ArePorts(s)
  BY <1>1 DEF Typed
<1>3. order \in SetToSeqs(S)
  BY DEF PortOrders
<1> HIDE DEF s
<1>4. n \in Nat /\ DOMAIN s = 1 .. n /\ \A x : x \in Range(s) <=> \E i \in 1 .. n : x = s[i]
  <2>1. IsList(s)
    BY <1>2 DEF ArePorts
  <2> QED BY <2>1, Listed
<1>5. \A p \in Range(s) : p.maps \in Seq(Mappings) /\ p.filters \in Seq(Filters)
  BY <1>2 DEF ArePorts, Mappings
<1>6. F = [i \in 1 .. n |-> F[i]] /\ \A i \in 1 .. n : F[i] = Port(s[i])
  OBVIOUS
<1>7. \A p : Port(p).maps = p.maps /\ Port(p).filters = p.filters /\ Port(p).removal = FALSE
             /\ {"maps", "filters"} \subseteq DOMAIN Port(p)
  OBVIOUS
<1> HIDE DEF F, n, Port
<1>8. S = {F[i] : i \in 1 .. n}
  BY <1>4, <1>6
<1>9. IsFiniteSet(S)
  BY <1>4, <1>6, <1>8, FiniteMany
<1>10. S = {Port(p) : p \in Range(s)}
  OBVIOUS
<1> HIDE DEF S
<1>11. IsList(order) /\ Range(order) = S
  BY <1>3, <1>9, InOrder
<1>12. ASSUME NEW p \in Range(order)
       PROVE  /\ IsPort(p) /\ p.removal = FALSE /\ {"maps", "filters"} \subseteq DOMAIN p
              /\ \E q \in Range(s) : q.maps = p.maps /\ q.filters = p.filters
  <2>1. PICK q \in Range(s) : p = Port(q)
    BY <1>10, <1>11
  <2>2. p.maps = q.maps /\ p.filters = q.filters /\ p.removal = FALSE /\ {"maps", "filters"} \subseteq DOMAIN p
    BY <1>7, <2>1
  <2>3. IsPort(p)
    BY <1>5, <2>2 DEF IsPort
  <2> QED BY <2>2, <2>3
<1> QED BY <1>11, <1>12 DEF s

-----------------------------------------------------------------------------
(* The stages of the command: what the configuration is at each of them *)

Phases == {"start", "read", "merged", "simple", "cluster", "processed", "valid", "created", "failed"}
Named == {"simple", "cluster", "processed", "valid", "created"}   \* after ProcessSimpleConfig
AreMerged(options, v, asked, flagged) ==
  \A k \in Kinds : \E own, given : /\ options[k] = own \o given
                                   /\ Stem(v, own, asked[k], "what") /\ IsGiven(given, flagged[k])
IsMerged(c, v, asked, flagged) == IsSimple(c) /\ c.apiPort # Unset /\ AreMerged(c.options, v, asked, flagged)

Configured ==
  /\ file \in Files /\ flags \in FlagSets /\ phase \in Phases /\ edits \in 0 .. MaxEdits /\ drift \in BOOLEAN
  /\ phase = "read" => IsRead(cfg, file.version, AskedInFile)
  /\ phase \in {"merged"} \cup Named => IsMerged(cfg, file.version, AskedInFile, flags.options)
  /\ phase \in {"read", "merged"} \cup Named => ArePortsOf(cfg, Written)
  /\ phase \in Named /\ cfg.network = "host" => cfg.noLb = TRUE

LEMMA ConfiguredAtFirst == Init => Configured
<1> SUFFICES ASSUME Init PROVE Configured
  OBVIOUS
<1>1. MaxEdits \in Nat
  BY ConfigAssumption
<1>2. file \in Files /\ flags \in FlagSets /\ phase = "start" /\ edits = 0 /\ drift = FALSE
  BY DEF Init
<1>3. edits \in 0 .. MaxEdits
  BY <1>1, <1>2
<1> QED BY <1>2, <1>3 DEF Configured, Phases, Named

LEMMA InputStays ==
  ASSUME file' = file, flags' = flags
  PROVE  Written' = Written /\ AskedInFile' = AskedInFile
BY DEF Written, AskedInFile, FileOptions

\* The options and the ports of the flags are appended to those that were read.
LEMMA MergedIs ==
  ASSUME Configured, phase = "read", flags \in FlagSets,
         NEW chosen, \A k \in Kinds : chosen[k] \in Orders(k), NEW order \in PortOrders, NEW port \in Nat \ {Unset},
         NEW aliases, NEW c,
         c = [cfg EXCEPT !.options = [k \in Kinds |-> Joined(@[k], chosen[k])],
                         !.ports = Joined(@, order), !.apiPort = port, !.aliases = aliases]
  PROVE  IsMerged(c, file.version, AskedInFile, flags.options) /\ ArePortsOf(c, Written)
<1>1. IsRead(cfg, file.version, AskedInFile) /\ ArePortsOf(cfg, Written)
  BY DEF Configured
<1>2. IsSimple(cfg) /\ \A k \in Kinds : Stem(file.version, cfg.options[k], AskedInFile[k], "what")
  BY <1>1 DEF IsRead
<1>3. {"options", "ports", "apiPort", "aliases", "version", "servers", "agents", "noLb"} \subseteq Fields
  BY DEF Fields
<1> DEFINE options == [k \in Kinds |-> Joined(cfg.options[k], chosen[k])]
           ps == Joined(cfg.ports, order)
<1>4. /\ DOMAIN cfg = Fields
      /\ c = [cfg EXCEPT !.options = options, !.ports = ps, !.apiPort = port, !.aliases = aliases]
  BY <1>2 DEF IsSimple
<1>5. DOMAIN options = Kinds /\ \A k \in Kinds : options[k] = cfg.options[k] \o chosen[k]
  BY DEF Joined
<1>6. ps = cfg.ports \o order
  BY DEF Joined
<1> HIDE DEF options, ps
<1>7. /\ DOMAIN c = Fields /\ c.options = options /\ c.ports = ps /\ c.apiPort = port
      /\ c.version = cfg.version /\ c.servers = cfg.servers /\ c.agents = cfg.agents /\ c.noLb = cfg.noLb
  BY <1>3, <1>4
<1>8. IsSimple(c)
  BY <1>2, <1>5, <1>7 DEF IsSimple, Counted
<1>9. AreMerged(c.options, file.version, AskedInFile, flags.options)
  <2>1. ASSUME NEW k \in Kinds
        PROVE  \E own, given : /\ c.options[k] = own \o given
                               /\ Stem(file.version, own, AskedInFile[k], "what") /\ IsGiven(given, flags.options[k])
    <3>1. IsGiven(chosen[k], flags.options[k])
      BY OrdersAre
    <3>2. c.options[k] = cfg.options[k] \o chosen[k] /\ Stem(file.version, cfg.options[k], AskedInFile[k], "what")
      BY <1>2, <1>5, <1>7
    <3> QED BY <3>1, <3>2
  <2> QED BY <2>1 DEF AreMerged
<1>10. ArePortsOf(c, Written)
  <2>1. /\ IsList(order)
        /\ \A p \in Range(order) : /\ IsPort(p) /\ p.removal = FALSE
                                   /\ \E q \in Range(flags.ports) : q.maps = p.maps /\ q.filters = p.filters
    BY PortOrdersAre
  <2>2. \A q \in Range(flags.ports) : Range(q.filters) \subseteq Written
    BY DEF Written, FiltersOf
  <2> DEFINE s == cfg.ports
             W == Written
  <2>3. /\ IsList(s)
        /\ \A p \in Range(s) : /\ IsPort(p) /\ p.removal = FALSE
                               /\ \A f \in Range(p.filters) : f.bracketed => f \in W
    BY <1>1 DEF ArePortsOf
  <2>4. ps = s \o order
    BY <1>6
  <2> HIDE DEF s, W
  <2>5. IsList(ps) /\ Range(ps) = Range(s) \cup Range(order)
    BY <2>1, <2>3, <2>4, ListsJoined
  <2>6. \A p \in Range(order) : \A f \in Range(p.filters) : f.bracketed => f \in W
    BY <2>1, <2>2 DEF W
  <2> QED BY <1>7, <2>1, <2>3, <2>5, <2>6 DEF ArePortsOf, W
<1> QED BY <1>7, <1>8, <1>9, <1>10 DEF IsMerged

LEMMA ConfiguredByReadConfig == Configured /\ ReadConfig => Configured'
<1> SUFFICES ASSUME Configured, ReadConfig PROVE Configured'
  OBVIOUS
<1>1. file' = file /\ flags' = flags /\ edits' = edits /\ drift' = drift
  BY DEF ReadConfig, Fatal, input
<1>2. file \in Files /\ flags \in FlagSets /\ edits \in 0 .. MaxEdits /\ drift \in BOOLEAN
  BY DEF Configured
<1>3. Written' = Written /\ AskedInFile' = AskedInFile
  BY <1>1, InputStays
<1>4. CASE phase' = "read" /\ file.version \in Versions /\ cfg' = Migrated(Decoded(file.version))
  <2> DEFINE c == Migrated(Decoded(file.version))
  <2>1. IsRead(c, file.version, AskedInFile) /\ ArePortsOf(c, Written)
    BY <1>2, <1>4, ReadIs
  <2> HIDE DEF c
  <2>2. cfg' = c
    BY <1>4 DEF c
  <2> QED BY <1>1, <1>2, <1>3, <1>4, <2>1, <2>2 DEF Configured, Phases, Named
<1>5. CASE phase' = "failed"
  BY <1>1, <1>2, <1>5 DEF Configured, Phases, Named
<1> QED BY <1>4, <1>5 DEF ReadConfig, Fatal, Goto

LEMMA ConfiguredByApplyCLIOverrides == Configured /\ ApplyCLIOverrides => Configured'
<1> SUFFICES ASSUME Configured, ApplyCLIOverrides PROVE Configured'
  OBVIOUS
<1>1. file' = file /\ flags' = flags /\ edits' = edits /\ drift' = drift
  BY DEF ApplyCLIOverrides, Fatal, input
<1>2. file \in Files /\ flags \in FlagSets /\ edits \in 0 .. MaxEdits /\ drift \in BOOLEAN
  BY DEF Configured
<1>3. Written' = Written /\ AskedInFile' = AskedInFile
  BY <1>1, InputStays
<1>4. CASE phase' = "failed"
  BY <1>1, <1>2, <1>4 DEF Configured, Phases, Named
<1>5. CASE phase' # "failed"
  <2>1. phase = "read" /\ phase' = "merged"
    BY <1>5 DEF ApplyCLIOverrides, Goto, Fatal
  <2>2. PICK chosen \in [Kinds -> UNION {Orders(k) : k \in Kinds}], order \in PortOrders, free \in FreePorts \cup {ApiPort} :
          /\ \A k \in Kinds : chosen[k] \in Orders(k)
          /\ cfg' = [cfg EXCEPT !.options = [k \in Kinds |-> Joined(@[k], chosen[k])],
                                !.ports = Joined(@, order),
                                !.apiPort = IF flags.apiPort # Unset THEN flags.apiPort
                                            ELSE IF @ # Unset THEN @ ELSE free,
                                !.aliases = Joined(@, flags.aliases)]
    BY <1>5 DEF ApplyCLIOverrides, Goto, Fatal
  <2> DEFINE port == IF flags.apiPort # Unset THEN flags.apiPort ELSE IF cfg.apiPort # Unset THEN cfg.apiPort ELSE free
             aliases == Joined(cfg.aliases, flags.aliases)
             c == [cfg EXCEPT !.options = [k \in Kinds |-> Joined(@[k], chosen[k])],
                              !.ports = Joined(@, order), !.apiPort = port, !.aliases = aliases]
  <2>3. port \in Nat \ {Unset}
    <3>1. flags.apiPort \in Nat /\ FreePorts \subseteq Nat \ {Unset}
      BY <1>2, ConfigAssumption DEF Typed
    <3>2. cfg.apiPort \in Nat
      BY <2>1 DEF Configured, IsRead, IsSimple
    <3>3. ApiPort \in Nat \ {Unset}
      BY DEF ApiPort, Unset
    <3> QED BY <3>1, <3>2, <3>3
  <2>4. cfg' = c
    BY <2>2
  <2> HIDE DEF port, aliases
  <2>5. c = [cfg EXCEPT !.options = [k \in Kinds |-> Joined(@[k], chosen[k])],
                        !.ports = Joined(@, order), !.apiPort = port, !.aliases = aliases]
    OBVIOUS
  <2>7. IsMerged(c, file.version, AskedInFile, flags.options) /\ ArePortsOf(c, Written)
    BY <1>2, <2>1, <2>2, <2>3, MergedIs
  <2> HIDE DEF c
  <2> QED BY <1>1, <1>2, <1>3, <2>1, <2>4, <2>7 DEF Configured, Phases, Named
<1> QED BY <1>4, <1>5

LEMMA ConfiguredByProcessSimpleConfig == Configured /\ ProcessSimpleConfig => Configured'
<1> SUFFICES ASSUME Configured, ProcessSimpleConfig PROVE Configured'
  OBVIOUS
<1>1. /\ file' = file /\ flags' = flags /\ edits' = edits /\ drift' = drift /\ phase = "merged" /\ phase' = "simple"
  BY DEF ProcessSimpleConfig, Goto, input
<1>2. /\ file \in Files /\ flags \in FlagSets /\ edits \in 0 .. MaxEdits /\ drift \in BOOLEAN
      /\ IsMerged(cfg, file.version, AskedInFile, flags.options) /\ ArePortsOf(cfg, Written)
  BY <1>1 DEF Configured
<1>3. Written' = Written /\ AskedInFile' = AskedInFile
  BY <1>1, InputStays
<1> DEFINE named == IF flags.name # "" THEN [cfg EXCEPT !.name = flags.name] ELSE cfg
<1>4. cfg' = IF named.network = "host" THEN [named EXCEPT !.noLb = TRUE, !.apiPort = ApiPort] ELSE named
  BY DEF ProcessSimpleConfig
<1>5. {"name", "network", "noLb", "apiPort", "options", "ports", "version", "servers", "agents"} \subseteq Fields
  BY DEF Fields
<1>6. DOMAIN cfg = Fields
  BY <1>2 DEF IsMerged, IsSimple
<1>7. DOMAIN named = Fields /\ \A f \in Fields \ {"name"} : named[f] = cfg[f]
  BY <1>5, <1>6
<1> HIDE DEF named
<1>8. /\ DOMAIN cfg' = Fields /\ \A f \in Fields \ {"name", "noLb", "apiPort"} : cfg'[f] = cfg[f]
      /\ cfg'["network"] = "host" => cfg'["noLb"] = TRUE
      /\ cfg'["noLb"] \in {cfg["noLb"], TRUE} /\ cfg'["apiPort"] \in {cfg["apiPort"], ApiPort}
  <2>1. CASE named.network = "host"
    <3> DEFINE c == [named EXCEPT !.noLb = TRUE, !.apiPort = ApiPort]
    <3>1. cfg' = c
      BY <1>4, <2>1
    <3>2. /\ DOMAIN c = Fields /\ \A f \in Fields \ {"name", "noLb", "apiPort"} : c[f] = cfg[f]
          /\ c["noLb"] = TRUE /\ c["apiPort"] = ApiPort
      BY <1>5, <1>7
    <3> HIDE DEF c
    <3> QED BY <3>1, <3>2
  <2>2. CASE named.network # "host"
    <3>1. cfg' = named
      BY <1>4, <2>2
    <3> QED BY <1>5, <1>7, <2>2, <3>1
  <2> QED BY <2>1, <2>2
<1> DEFINE c == cfg'
<1>9. /\ c.options = cfg.options /\ c.ports = cfg.ports /\ c.version = cfg.version
      /\ c.servers = cfg.servers /\ c.agents = cfg.agents
  BY <1>5, <1>8
<1>10. ApiPort \in Nat /\ ApiPort # Unset
  BY DEF ApiPort, Unset
<1>11. IsSimple(c) /\ c.apiPort # Unset
  <2>1. IsSimple(cfg) /\ cfg.apiPort # Unset
    BY <1>2 DEF IsMerged
  <2>2. c.noLb \in BOOLEAN
    BY <1>8, <2>1 DEF IsSimple, Counted
  <2>3. c.apiPort \in Nat /\ c.apiPort # Unset
    BY <1>8, <1>10, <2>1 DEF IsSimple
  <2> QED BY <1>8, <1>9, <2>1, <2>2, <2>3 DEF IsSimple, Counted
<1>12. IsMerged(c, file.version, AskedInFile, flags.options)
  BY <1>2, <1>9, <1>11 DEF IsMerged
<1>13. ArePortsOf(c, Written)
  BY <1>2, <1>9 DEF ArePortsOf
<1>14. c.network = "host" => c.noLb = TRUE
  BY <1>8
<1> QED BY <1>1, <1>2, <1>3, <1>12, <1>13, <1>14 DEF Configured, Phases, Named

LEMMA ConfiguredByLater ==
  /\ Configured
  /\ TransformSimpleToClusterConfig \/ ProcessClusterConfig \/ ValidateClusterConfig \/ CreateCluster
       \/ ClusterEditChangesetSimple \/ NodeEdit \/ UNCHANGED vars
  => Configured'
<1> SUFFICES ASSUME Configured,
                    TransformSimpleToClusterConfig \/ ProcessClusterConfig \/ ValidateClusterConfig \/ CreateCluster
                      \/ ClusterEditChangesetSimple \/ NodeEdit \/ UNCHANGED vars
             PROVE  Configured'
  OBVIOUS
<1>1. /\ file' = file /\ flags' = flags /\ cfg' = cfg
  BY Zenon DEF TransformSimpleToClusterConfig, ProcessClusterConfig, ValidateClusterConfig, CreateCluster,
         ClusterEditChangesetSimple, NodeEdit, Fatal, Keeps, input, vars
<1>2. \/ phase' = phase
      \/ phase' = "failed"
      \/ phase \in Named /\ phase' \in Named
  BY Zenon DEF TransformSimpleToClusterConfig, ProcessClusterConfig, ValidateClusterConfig, CreateCluster,
         ClusterEditChangesetSimple, NodeEdit, Fatal, Goto, Keeps, vars, Named
<1>3. edits' \in 0 .. MaxEdits
  <2>1. edits \in 0 .. MaxEdits /\ MaxEdits \in Nat
    BY ConfigAssumption DEF Configured
  <2>2. edits' = edits \/ (edits < MaxEdits /\ edits' = edits + 1)
    BY Zenon DEF TransformSimpleToClusterConfig, ProcessClusterConfig, ValidateClusterConfig, CreateCluster,
           ClusterEditChangesetSimple, NodeEdit, Fatal, Edits, vars
  <2> QED BY <2>1, <2>2
<1>4. drift' \in BOOLEAN
  <2>1. drift \in BOOLEAN
    BY DEF Configured
  <2>2. CASE ClusterEditChangesetSimple
    <3>1. PICK options \in Changes : drift' = (drift \/ \E p \in Range(options) : p.removal) \/ drift' = drift
      BY <2>2 DEF ClusterEditChangesetSimple
    <3> QED BY <2>1, <3>1
  <2>3. CASE NodeEdit
    BY <2>1, <2>3 DEF NodeEdit
  <2>4. CASE ~ClusterEditChangesetSimple /\ ~NodeEdit
    <3>1. drift' = drift
      BY <2>4, Zenon DEF TransformSimpleToClusterConfig, ProcessClusterConfig, ValidateClusterConfig, CreateCluster, Fatal, vars
    <3> QED BY <2>1, <3>1
  <2> QED BY <2>2, <2>3, <2>4
<1>5. Written' = Written /\ AskedInFile' = AskedInFile
  BY <1>1, InputStays
<1>6. phase' \in Phases
  BY <1>2 DEF Configured, Phases, Named
<1> QED BY <1>1, <1>2, <1>3, <1>4, <1>5, <1>6 DEF Configured, Named

\* The configuration is made of the file and the flags: at each stage every option in it was
\* asked for there, and every option that was asked for is in it.
THEOREM ConfigurationHolds == Spec => []Configured
<1>1. Configured /\ [Next]_vars => Configured'
  BY ConfiguredByReadConfig, ConfiguredByApplyCLIOverrides, ConfiguredByProcessSimpleConfig, ConfiguredByLater DEF Next
<1> QED BY ConfiguredAtFirst, <1>1, PTL DEF Spec

\* After a migration no filter of the old version is in its syntax.
LEMMA ReadFiltersAreWritten ==
  ASSUME NEW k \in Kinds, NEW s, Stem(file.version, s, AskedInFile[k], "what"), NEW o \in Range(s),
         NEW f \in Range(o.filters), f.bracketed
  PROVE  f \in Written
<1> DEFINE t == AskedInFile[k]
           v == file.version
<1>1. /\ IsList(s) /\ IsList(t) /\ Len(s) = Len(t)
      /\ \A i \in 1 .. Len(s) : Alike(v, s[i].filters, t[i].filters)
  BY DEF Stem
<1>2. v # "v1alpha2" => t = file.options[k]
  BY DEF AskedInFile, FileOptions
<1>3. v # "v1alpha2" => \A p \in Range(file.options[k]) : Range(p.filters) \subseteq Written
  BY DEF Written, FiltersOf
<1> HIDE DEF t, v
<1>4. PICK i \in 1 .. Len(s) : o = s[i]
  BY <1>1, Listed
<1> DEFINE fs == o.filters
           gs == t[i].filters
<1>5. Alike(v, fs, gs)
  BY <1>1, <1>4
<1>6. t[i] \in Range(t)
  BY <1>1, Listed
<1> HIDE DEF fs, gs
<1>7. fs \in Seq(Filters) /\ gs \in Seq(Filters) /\ Len(fs) = Len(gs) /\ \A j \in 1 .. Len(fs) : SameFilter(v, fs[j], gs[j])
  BY <1>5 DEF Alike
<1>8. PICK j \in 1 .. Len(fs) : f = fs[j]
  BY <1>7 DEF fs, Range
<1>9. v # "v1alpha2" /\ f = gs[j]
  BY <1>7, <1>8 DEF SameFilter
<1>10. gs[j] \in Range(gs)
  BY <1>7 DEF Range
<1> QED BY <1>2, <1>3, <1>6, <1>9, <1>10 DEF gs

LEMMA GivenFiltersAreWritten ==
  ASSUME NEW k \in Kinds, NEW s, IsGiven(s, flags.options[k]), NEW o \in Range(s), NEW f \in Range(o.filters)
  PROVE  f \in Written
<1>1. Range(o.filters) = UNION {Range(p.filters) : p \in {p \in Range(flags.options[k]) : p.what = o.what}}
  BY DEF IsGiven
<1>2. \A p \in Range(flags.options[k]) : Range(p.filters) \subseteq Written
  BY DEF Written, FiltersOf
<1> QED BY <1>1, <1>2

LEMMA ConfiguredFiltersParse == Configured => MigratedFiltersParse
<1> SUFFICES ASSUME Configured, phase \notin {"start", "failed"}
             PROVE  cfg.version = "v1alpha5" /\ \A f \in FiltersOf(cfg) : f.bracketed => f \in Written
  BY DEF MigratedFiltersParse
<1>1. phase \in {"read", "merged"} \cup Named
  BY DEF Configured, Phases, Named
<1>2. ArePortsOf(cfg, Written)
  BY <1>1 DEF Configured
<1>3. (phase = "read" /\ IsRead(cfg, file.version, AskedInFile)) \/ IsMerged(cfg, file.version, AskedInFile, flags.options)
  BY <1>1 DEF Configured
<1>4. cfg.version = "v1alpha5"
  BY <1>3 DEF IsRead, IsMerged, IsSimple
<1>5. ASSUME NEW k \in Kinds, NEW o \in Range(cfg.options[k]), NEW f \in Range(o.filters), f.bracketed
      PROVE  f \in Written
  <2>1. CASE IsRead(cfg, file.version, AskedInFile)
    <3>1. Stem(file.version, cfg.options[k], AskedInFile[k], "what")
      BY <2>1 DEF IsRead
    <3> QED BY <1>5, <3>1, ReadFiltersAreWritten
  <2>2. CASE IsMerged(cfg, file.version, AskedInFile, flags.options)
    <3>1. PICK own, given : /\ cfg.options[k] = own \o given
                            /\ Stem(file.version, own, AskedInFile[k], "what") /\ IsGiven(given, flags.options[k])
      BY <2>2 DEF IsMerged, AreMerged
    <3>2. o \in Range(own) \/ o \in Range(given)
      <4>1. IsList(own) /\ IsList(given)
        BY <3>1 DEF Stem, IsGiven
      <4>2. Range(cfg.options[k]) = Range(own) \cup Range(given)
        BY <3>1, <4>1, ListsJoined
      <4> QED BY <4>2
    <3>3. CASE o \in Range(own)
      BY <1>5, <3>1, <3>3, ReadFiltersAreWritten
    <3>4. CASE o \in Range(given)
      BY <1>5, <3>1, <3>4, GivenFiltersAreWritten
    <3> QED BY <3>2, <3>3, <3>4
  <2> QED BY <1>3, <2>1, <2>2
<1>6. ASSUME NEW f \in FiltersOf(cfg), f.bracketed PROVE f \in Written
  <2>1. \/ \E p \in Range(cfg.ports) : f \in Range(p.filters)
        \/ \E k \in Kinds : \E o \in Range(cfg.options[k]) : f \in Range(o.filters)
    BY DEF FiltersOf
  <2> QED BY <1>2, <1>5, <1>6, <2>1 DEF ArePortsOf
<1> QED BY <1>4, <1>6

\* MigratedFiltersParse: whatever the version of the file, a filter in the syntax of the old one
\* is there only when it was written for the new one.
THEOREM FiltersAreMigrated == Spec => []MigratedFiltersParse
BY ConfigurationHolds, ConfiguredFiltersParse, PTL

-----------------------------------------------------------------------------
(* The cluster that is made of the configuration *)

MadePhases == {"cluster", "processed", "valid", "created"}
GivenBy(options, nodes, n) ==
  LET given(o) == IF \E l \in FilterNodes(nodes, o.filters) : n \in Range(l) THEN <<o.what>> ELSE <<>>
  IN  FlattenSeq([i \in DOMAIN options |-> given(options[i])])
AreMounted(mounts, given) ==
  DOMAIN mounts = DOMAIN given /\ \A i \in DOMAIN given : mounts[i] = given[i] \/ mounts[i] = Expanded(given[i])
HeldBy(options, nodes) ==
  [n \in Range(nodes) |-> [k \in Kinds \ {"volume"} |-> Held(k, GivenBy(options[k], nodes, n))]]
IsBuilt(c, conf) ==
  /\ {"nodes", "lb", "network", "apiPort", "held", "mounts", "aliases"} \subseteq DOMAIN c
  /\ c.nodes = NodesOf(conf) /\ (c.lb <=> ~conf.noLb) /\ c.lb \in BOOLEAN /\ c.network = conf.network
  /\ c.apiPort \in Nat \ {Unset}
  /\ c.held = HeldBy(conf.options, NodesOf(conf))
  /\ DOMAIN c.mounts = Range(NodesOf(conf))
  /\ \A n \in Range(NodesOf(conf)) : AreMounted(c.mounts[n], GivenBy(conf.options["volume"], NodesOf(conf), n))
  /\ \A k \in Kinds : \A o \in Range(conf.options[k]) : ~OptionFails(NodesOf(conf), k, o)

Built ==
  /\ phase \in MadePhases => IsBuilt(cluster, cfg)
  /\ phase = "cluster" => \A n \in Range(NodesOf(cfg)) : cluster.mounts[n] = GivenBy(cfg.options["volume"], NodesOf(cfg), n)
  /\ phase \in MadePhases \ {"cluster"} /\ cluster.network = "host" => cluster.apiPort = ApiPort
  /\ phase \in {"valid", "created"} => ~HostNetworkRefused

LEMMA GivenIs == ASSUME NEW nodes, NEW k, NEW n PROVE Given(nodes, k, n) = GivenBy(cfg.options[k], nodes, n)
BY DEF Given, GivenBy

\* The name does not count.
LEMMA SameNodes ==
  ASSUME NEW c, NEW d, c.servers = d.servers, c.agents = d.agents, c.noLb = d.noLb
  PROVE  NodesOf(c) = NodesOf(d)
BY Zenon DEF NodesOf

LEMMA NamedIs ==
  ASSUME Configured, phase = "simple"
  PROVE  LET c == IF cfg.name = "" THEN [cfg EXCEPT !.name = DefaultName] ELSE cfg
         IN  /\ \A f \in Fields \ {"name"} : c[f] = cfg[f]
             /\ NodesOf(c) = NodesOf(cfg) /\ c.options = cfg.options /\ c.network = cfg.network /\ c.noLb = cfg.noLb
             /\ c.ports = cfg.ports /\ c.apiPort = cfg.apiPort
<1> DEFINE c == IF cfg.name = "" THEN [cfg EXCEPT !.name = DefaultName] ELSE cfg
<1>1. DOMAIN cfg = Fields
  BY DEF Configured, Named, IsMerged, IsSimple
<1>2. {"name", "servers", "agents", "noLb", "options", "network", "ports", "apiPort"} \subseteq Fields
  BY DEF Fields
<1>3. \A f \in Fields \ {"name"} : c[f] = cfg[f]
  BY <1>1, <1>2
<1> HIDE DEF c
<1>4. /\ c.servers = cfg.servers /\ c.agents = cfg.agents /\ c.noLb = cfg.noLb /\ c.options = cfg.options
      /\ c.network = cfg.network /\ c.ports = cfg.ports /\ c.apiPort = cfg.apiPort
  BY <1>2, <1>3
<1>5. NodesOf(c) = NodesOf(cfg)
  BY <1>4, SameNodes
<1> QED BY <1>3, <1>4, <1>5 DEF c

LEMMA BuiltByTransform == Configured /\ Built /\ TransformSimpleToClusterConfig => Built'
<1> SUFFICES ASSUME Configured, Built, TransformSimpleToClusterConfig PROVE Built'
  OBVIOUS
<1>1. phase = "simple" /\ cfg' = cfg
  BY DEF TransformSimpleToClusterConfig, Goto, Fatal
<1>2. CASE phase' = "failed"
  BY <1>2 DEF Built, MadePhases
<1>3. CASE phase' # "failed"
  <2> DEFINE c == IF cfg.name = "" THEN [cfg EXCEPT !.name = DefaultName] ELSE cfg
             nodes == NodesOf(c)
  <2>1. /\ phase' = "cluster"
        /\ ~\E k \in Kinds : \E o \in Range(c.options[k]) : OptionFails(nodes, k, o)
        /\ cluster' = [nodes |-> nodes, name |-> c.name, network |-> c.network, apiPort |-> c.apiPort,
                       lb |-> ~c.noLb, aliases |-> c.aliases, pid |-> c.pid,
                       mounts |-> [n \in Range(nodes) |-> Given(nodes, "volume", n)],
                       held |-> [n \in Range(nodes) |-> [k \in Kinds \ {"volume"} |-> Held(k, Given(nodes, k, n))]]]
    BY <1>3 DEF TransformSimpleToClusterConfig, Goto, Fatal
  <2>2. /\ NodesOf(c) = NodesOf(cfg) /\ c.options = cfg.options /\ c.network = cfg.network /\ c.noLb = cfg.noLb
        /\ c.apiPort = cfg.apiPort
    BY <1>1, NamedIs
  <2> DEFINE mounts == [n \in Range(nodes) |-> Given(nodes, "volume", n)]
             held == [n \in Range(nodes) |-> [k \in Kinds \ {"volume"} |-> Held(k, Given(nodes, k, n))]]
             d == cluster'
             lb == ~c.noLb
             opts == cfg.options
             volumesOf(n) == GivenBy(opts["volume"], nodes, n)
  <2>3. \A k, n : Given(nodes, k, n) = GivenBy(opts[k], nodes, n)
    BY GivenIs
  <2> HIDE DEF c, nodes, opts
  <2>4. held = HeldBy(opts, nodes)
    BY <2>3, Zenon DEF HeldBy
  <2>5. DOMAIN mounts = Range(nodes) /\ \A n \in Range(nodes) : mounts[n] = volumesOf(n)
    BY <2>3
  <2>6. d = [nodes |-> nodes, name |-> c.name, network |-> c.network, apiPort |-> c.apiPort,
             lb |-> lb, aliases |-> c.aliases, pid |-> c.pid, mounts |-> mounts, held |-> held]
    BY <2>1
  <2> HIDE DEF mounts, held, lb, d
  <2>7. /\ {"nodes", "lb", "network", "apiPort", "held", "mounts", "aliases"} \subseteq DOMAIN d
        /\ d.nodes = nodes /\ d.network = c.network /\ d.apiPort = c.apiPort /\ d.lb = lb
        /\ d.mounts = mounts /\ d.held = held
    BY <2>6
  <2>8. cfg.apiPort \in Nat \ {Unset}
    BY <1>1 DEF Configured, Named, IsMerged, IsSimple
  <2>9. (d.lb <=> ~cfg.noLb) /\ d.lb \in BOOLEAN
    <3>1. lb \in BOOLEAN /\ (lb <=> ~cfg.noLb)
      BY <2>2, Zenon DEF lb
    <3>2. d.lb = lb
      BY <2>7
    <3> QED BY <3>1, <3>2, Zenon
  <2>10. nodes = NodesOf(cfg)
    BY <2>2 DEF nodes
  <2>11. \A k \in Kinds : \A o \in Range(cfg.options[k]) : ~OptionFails(nodes, k, o)
    BY <2>1, <2>2
  <2>12. \A n \in Range(nodes) : AreMounted(d.mounts[n], volumesOf(n))
    <3> HIDE DEF volumesOf
    <3> QED BY <2>5, <2>7 DEF AreMounted
  <2>13. IsBuilt(d, cfg)
    <3>1. {"nodes", "lb", "network", "apiPort", "held", "mounts", "aliases"} \subseteq DOMAIN d
      BY <2>7
    <3>2. d.nodes = NodesOf(cfg) /\ d.network = cfg.network /\ d.apiPort \in Nat \ {Unset}
      BY <2>2, <2>7, <2>8, <2>10
    <3>3. d.held = HeldBy(cfg.options, NodesOf(cfg))
      BY <2>4, <2>7, <2>10 DEF opts
    <3>4. DOMAIN d.mounts = Range(NodesOf(cfg))
      BY <2>5, <2>7, <2>10
    <3>5. \A n \in Range(NodesOf(cfg)) : AreMounted(d.mounts[n], GivenBy(cfg.options["volume"], NodesOf(cfg), n))
      BY <2>10, <2>12 DEF opts
    <3>6. \A k \in Kinds : \A o \in Range(cfg.options[k]) : ~OptionFails(NodesOf(cfg), k, o)
      BY <2>10, <2>11
    <3> QED BY <2>9, <3>1, <3>2, <3>3, <3>4, <3>5, <3>6, Zenon DEF IsBuilt
  <2>14. \A n \in Range(NodesOf(cfg)) : d.mounts[n] = GivenBy(cfg.options["volume"], NodesOf(cfg), n)
    BY <2>5, <2>7, <2>10 DEF opts
  <2> QED BY <1>1, <2>1, <2>13, <2>14 DEF Built, MadePhases, d
<1> QED BY <1>2, <1>3

LEMMA BuiltByProcess == Configured /\ Built /\ ProcessClusterConfig => Built'
<1> SUFFICES ASSUME Configured, Built, ProcessClusterConfig PROVE Built'
  OBVIOUS
<1>1. phase = "cluster" /\ phase' = "processed" /\ cfg' = cfg
  BY DEF ProcessClusterConfig, Goto
<1>2. /\ IsBuilt(cluster, cfg)
      /\ \A n \in Range(NodesOf(cfg)) : cluster.mounts[n] = GivenBy(cfg.options["volume"], NodesOf(cfg), n)
  BY <1>1 DEF Built, MadePhases
<1> DEFINE mounts == [n \in DOMAIN cluster.mounts |->
                        [i \in DOMAIN cluster.mounts[n] |-> Expanded(cluster.mounts[n][i])]]
           port == IF cluster.network = "host" THEN ApiPort ELSE cluster.apiPort
           d == cluster'
<1>3. d = [cluster EXCEPT !.mounts = mounts, !.apiPort = port]
  BY DEF ProcessClusterConfig
<1>4. {"nodes", "lb", "network", "apiPort", "held", "mounts", "aliases"} \subseteq DOMAIN cluster
      /\ DOMAIN cluster.mounts = Range(NodesOf(cfg))
  BY <1>2 DEF IsBuilt
<1>5. DOMAIN mounts = Range(NodesOf(cfg)) /\ \A n \in Range(NodesOf(cfg)) :
        mounts[n] = [i \in DOMAIN cluster.mounts[n] |-> Expanded(cluster.mounts[n][i])]
  BY <1>4
<1> HIDE DEF mounts, port, d
<1>6. /\ DOMAIN d = DOMAIN cluster /\ d.mounts = mounts /\ d.apiPort = port
      /\ \A f \in DOMAIN cluster \ {"mounts", "apiPort"} : d[f] = cluster[f]
  BY <1>3, <1>4
<1>7. d.nodes = cluster.nodes /\ d.lb = cluster.lb /\ d.network = cluster.network /\ d.held = cluster.held
  BY <1>4, <1>6
<1>8. port \in Nat \ {Unset}
  <2>1. cluster.apiPort \in Nat \ {Unset}
    BY <1>2 DEF IsBuilt
  <2>2. ApiPort \in Nat \ {Unset}
    BY DEF ApiPort, Unset
  <2> QED BY <2>1, <2>2 DEF port
<1>9. ASSUME NEW n \in Range(NodesOf(cfg))
      PROVE  AreMounted(d.mounts[n], GivenBy(cfg.options["volume"], NodesOf(cfg), n))
  <2> DEFINE g == GivenBy(cfg.options["volume"], NodesOf(cfg), n)
  <2>1. d.mounts[n] = [i \in DOMAIN g |-> Expanded(g[i])]
    BY <1>2, <1>5, <1>6
  <2> HIDE DEF g
  <2>2. AreMounted(d.mounts[n], g)
    BY <2>1 DEF AreMounted
  <2> QED BY <2>2 DEF g
<1>10. IsBuilt(d, cfg)
  <2>1. /\ {"nodes", "lb", "network", "apiPort", "held", "mounts", "aliases"} \subseteq DOMAIN d
        /\ d.nodes = NodesOf(cfg) /\ d.network = cfg.network /\ d.apiPort \in Nat \ {Unset}
        /\ d.held = HeldBy(cfg.options, NodesOf(cfg)) /\ DOMAIN d.mounts = Range(NodesOf(cfg))
    BY <1>2, <1>4, <1>5, <1>6, <1>7, <1>8 DEF IsBuilt
  <2>2. (d.lb <=> ~cfg.noLb) /\ d.lb \in BOOLEAN
    BY <1>2, <1>7, Zenon DEF IsBuilt
  <2>3. \A k \in Kinds : \A o \in Range(cfg.options[k]) : ~OptionFails(NodesOf(cfg), k, o)
    BY <1>2 DEF IsBuilt
  <2> QED BY <1>9, <2>1, <2>2, <2>3, Zenon DEF IsBuilt
<1>11. d.network = "host" => d.apiPort = ApiPort
  BY <1>6, <1>7 DEF port
<1> QED BY <1>1, <1>10, <1>11 DEF Built, MadePhases, d

LEMMA BuiltByValidate == Configured /\ Built /\ ValidateClusterConfig => Built'
<1> SUFFICES ASSUME Configured, Built, ValidateClusterConfig PROVE Built'
  OBVIOUS
<1>1. phase = "processed" /\ cfg' = cfg /\ cluster' = cluster /\ phase' \in {"valid", "failed"}
  BY Zenon DEF ValidateClusterConfig
<1>2. phase' = "valid" => ~HostNetworkRefused
  BY DEF ValidateClusterConfig, Refused
<1>3. HostNetworkRefused' = HostNetworkRefused
  BY <1>1 DEF HostNetworkRefused
<1> QED BY <1>1, <1>2, <1>3 DEF Built, MadePhases

LEMMA BuiltByOthers ==
  /\ Built
  /\ ReadConfig \/ ApplyCLIOverrides \/ ProcessSimpleConfig \/ CreateCluster
       \/ ClusterEditChangesetSimple \/ NodeEdit \/ UNCHANGED vars
  => Built'
<1> SUFFICES ASSUME Built,
                    ReadConfig \/ ApplyCLIOverrides \/ ProcessSimpleConfig \/ CreateCluster
                      \/ ClusterEditChangesetSimple \/ NodeEdit \/ UNCHANGED vars
             PROVE  Built'
  OBVIOUS
<1>1. CASE ReadConfig \/ ApplyCLIOverrides \/ ProcessSimpleConfig
  <2>1. phase' \notin MadePhases
    BY <1>1 DEF ReadConfig, ApplyCLIOverrides, ProcessSimpleConfig, Goto, Fatal, MadePhases
  <2> QED BY <2>1 DEF Built, MadePhases
<1>2. CASE CreateCluster
  <2>1. phase = "valid" /\ phase' \in {"created", "failed"} /\ cluster' = cluster /\ cfg' = cfg
    BY <1>2 DEF CreateCluster
  <2>2. HostNetworkRefused' = HostNetworkRefused
    BY <2>1 DEF HostNetworkRefused
  <2> QED BY <2>1, <2>2 DEF Built, MadePhases
<1>3. CASE ClusterEditChangesetSimple \/ NodeEdit \/ UNCHANGED vars
  <2>1. phase' = phase /\ cluster' = cluster /\ cfg' = cfg
    BY <1>3 DEF ClusterEditChangesetSimple, NodeEdit, Keeps, vars
  <2>2. HostNetworkRefused' = HostNetworkRefused
    BY <2>1 DEF HostNetworkRefused
  <2> QED BY <2>1, <2>2 DEF Built, MadePhases
<1> QED BY <1>1, <1>2, <1>3

\* The cluster that is created is what the configuration says, node by node, and what was
\* validated is true of it.
THEOREM BuiltHolds == Spec => []Built
<1>1. Init => Built
  BY DEF Init, Built, MadePhases
<1>2. Configured /\ Built /\ [Next]_vars => Built'
  BY BuiltByTransform, BuiltByProcess, BuiltByValidate, BuiltByOthers DEF Next
<1> QED BY <1>1, <1>2, ConfigurationHolds, PTL DEF Spec

\* HostNetworkAlone: in the host's network there is one node at most, no load balancer, and the
\* API is at the port of k3s, whatever the file and the flags say.
THEOREM AloneInHostNetwork == Spec => []HostNetworkAlone
<1>1. Configured /\ Built => HostNetworkAlone
  <2> SUFFICES ASSUME Configured, Built, phase \in {"valid", "created"}, cluster.network = "host"
               PROVE  Len(cluster.nodes) <= 1 /\ ~cluster.lb /\ cluster.apiPort = ApiPort /\ cluster.aliases = <<>>
    BY DEF HostNetworkAlone
  <2>1. IsBuilt(cluster, cfg) /\ ~HostNetworkRefused /\ cluster.apiPort = ApiPort
    BY DEF Built, MadePhases
  <2>2. cfg.network = "host" /\ Counted(cfg) /\ cfg.noLb = TRUE
    BY <2>1 DEF Configured, Named, IsMerged, IsSimple, IsBuilt
  <2>3. ~cluster.lb
    BY <2>1, <2>2, Zenon DEF IsBuilt
  <2>4. Len(cluster.nodes) \in Nat
    <3>1. NodesOf(cfg) \in Seq(AllNodes)
      BY <2>2, NodesAre
    <3> QED BY <2>1, <3>1 DEF IsBuilt
  <2> QED BY <2>1, <2>3, <2>4 DEF HostNetworkRefused
<1> QED BY <1>1, ConfigurationHolds, BuiltHolds, PTL

-----------------------------------------------------------------------------
(* The ports of the cluster, from its first configuration through the edits *)

\* The nodes behind the load balancer: its role is not theirs.
LEMMA ServersOf ==
  ASSUME NEW M, NEW nodes \in Seq(M)
  PROVE  LET servers == Group(nodes, "server")
         IN  /\ servers \in Seq(Range(nodes)) /\ servers \in Seq(Range(nodes) \ {Lb})
             /\ (\E n \in Range(nodes) : n.role = "server") => servers # <<>>
<1> DEFINE servers == Group(nodes, "server")
           N == Range(nodes)
<1>1. servers \in Seq(N) /\ Range(servers) = {n \in N : n.role = "server"}
  BY GroupRange
<1> HIDE DEF servers, N
<1>2. \A i \in 1 .. Len(servers) : servers[i] \in N /\ servers[i].role = "server"
  <2>1. \A i \in 1 .. Len(servers) : servers[i] \in Range(servers)
    BY <1>1, RangeIs
  <2> QED BY <1>1, <2>1
<1>3. \A i \in 1 .. Len(servers) : servers[i] # Lb
  BY <1>2 DEF Lb
<1>4. servers \in Seq(N \ {Lb})
  <2> DEFINE K == N \ {Lb}
             m == Len(servers)
  <2>1. \A i \in 1 .. m : servers[i] \in K
    BY <1>2, <1>3
  <2>2. m \in Nat /\ servers = [i \in 1 .. m |-> servers[i]]
    BY <1>1
  <2> HIDE DEF K, m
  <2>3. servers \in Seq(K)
    BY <2>1, <2>2, IsSeq
  <2> QED BY <2>3 DEF K
<1>5. ASSUME NEW n \in N, n.role = "server" PROVE servers # <<>>
  <2>1. n \in Range(servers)
    BY <1>1, <1>5
  <2>2. Range(<<>>) = {}
    BY DEF Range
  <2> QED BY <2>1, <2>2
<1> QED BY <1>1, <1>4, <1>5 DEF servers, N

LEMMA NothingBound ==
  /\ NoBindings \in Bindings /\ \A p \in Ports : NoBindings[p] = <<>>
  /\ NoPorts.published = NoBindings /\ NoPorts.config = NoBindings
  /\ DOMAIN NoPorts = {"published", "config", "direct"}
<1>1. NoBindings \in Bindings /\ \A p \in Ports : NoBindings[p] = <<>>
  BY DEF NoBindings, Bindings
<1>2. /\ NoPorts.published = NoBindings /\ NoPorts.config = NoBindings
      /\ DOMAIN NoPorts = {"published", "config", "direct"}
  BY DEF NoPorts
<1> QED BY <1>1, <1>2

LEMMA FirstPortsIs ==
  ASSUME NEW M, NEW nodes \in Seq(M), NEW c, c.apiPort \in Nat
  PROVE  LET st == FirstPorts(c, nodes)
         IN  /\ st \in PortStates(Range(nodes))
             /\ (\E n \in Range(nodes) : n.role = "server") => InSync(st)
<1> DEFINE N == Range(nodes)
           direct == [n \in N |-> NoBindings]
           none == [NoPorts EXCEPT !.direct = direct]
           servers == Group(nodes, "server")
           empty == NoBindings
           K == Configs(N)
<1>1. servers \in Seq(N \ {Lb}) /\ ((\E n \in N : n.role = "server") => servers # <<>>)
  BY ServersOf
<1>2. empty \in Bindings /\ (\A p \in Ports : empty[p] = <<>>) /\ direct \in [N -> Bindings] /\ empty \in K
  <2>1. empty \in Bindings /\ \A p \in Ports : empty[p] = <<>>
    BY NothingBound
  <2>2. empty \in [Ports -> Seq(N \ {Lb})]
    BY DEF NoBindings
  <2> QED BY <2>1, <2>2 DEF Configs
<1>3. none = [published |-> empty, config |-> empty, direct |-> direct]
  BY DEF NoPorts
<1>4. ApiPort \in Ports
  BY ConfigAssumption
<1> HIDE DEF N, direct, servers, none, empty
<1>5. CASE c.noLb
  <2>1. FirstPorts(c, nodes) = none
    BY <1>5 DEF FirstPorts, none, direct, N
  <2>2. none \in PortStates(N)
    <3> HIDE DEF K
    <3> QED BY <1>2, <1>3 DEF PortStates, K
  <2>3. InSync(none)
    BY <1>2, <1>3 DEF InSync
  <2> QED BY <2>1, <2>2, <2>3 DEF N
<1>6. CASE ~c.noLb
  <2> DEFINE st == [none EXCEPT !.published[ApiPort] = <<c.apiPort>>, !.config[ApiPort] = servers]
             pub == [empty EXCEPT ![ApiPort] = <<c.apiPort>>]
             conf == [empty EXCEPT ![ApiPort] = servers]
  <2>1. FirstPorts(c, nodes) = st
    BY <1>6 DEF FirstPorts, none, direct, N, servers
  <2>2. pub \in Bindings /\ pub[ApiPort] # <<>> /\ \A p \in Ports \ {ApiPort} : pub[p] = <<>>
    <3> DEFINE one == <<c.apiPort>>
    <3>1. one \in Seq(Nat) /\ one # <<>>
      OBVIOUS
    <3> HIDE DEF one
    <3> QED BY <1>2, <1>4, <3>1 DEF Bindings
  <2>3. conf \in K /\ conf[ApiPort] = servers /\ \A p \in Ports \ {ApiPort} : conf[p] = <<>>
    BY <1>1, <1>2, <1>4 DEF Configs
  <2>4. /\ DOMAIN none = {"published", "config", "direct"} /\ none.published = empty /\ none.config = empty
        /\ none.direct = direct /\ none \in PortStates(N)
    <3> HIDE DEF K, pub, conf, st
    <3>1. none \in PortStates(N)
      BY <1>2, <1>3 DEF PortStates, K
    <3> QED BY <1>3, <3>1
  <2>5. st = [none EXCEPT !.published = pub, !.config = conf]
    BY <2>4
  <2> HIDE DEF st, pub, conf, K
  <2>6. st \in PortStates(N) /\ st.published = pub /\ st.config = conf
    BY <2>2, <2>3, <2>4, <2>5 DEF PortStates, K
  <2>7. (\E n \in N : n.role = "server") => InSync(st)
    BY <1>1, <2>2, <2>3, <2>6 DEF InSync
  <2> QED BY <2>1, <2>6, <2>7 DEF N
<1> QED BY <1>5, <1>6

\* The runtime lists the same nodes.
LEMMA ReversedIs ==
  ASSUME NEW M, NEW s \in Seq(M)
  PROVE  Reverse(s) \in Seq(M) /\ Range(Reverse(s)) = Range(s)
<1> DEFINE n == Len(s)
           r == Reverse(s)
<1>1. n \in Nat /\ DOMAIN s = 1 .. n /\ \A i \in 1 .. n : s[i] \in M
  OBVIOUS
<1>2. r = [i \in 1 .. n |-> r[i]] /\ \A i \in 1 .. n : r[i] = s[(n - i) + 1]
  BY DEF Reverse
<1> HIDE DEF n, r
<1>3. \A i \in 1 .. n : (n - i) + 1 \in 1 .. n /\ (n - ((n - i) + 1)) + 1 = i
  BY <1>1
<1>4. \A i \in 1 .. n : r[i] \in M
  BY <1>1, <1>2, <1>3
<1>5. r \in Seq(M) /\ DOMAIN r = 1 .. n
  BY <1>1, <1>2, <1>4, IsSeq
<1>6. \A x : x \in Range(r) <=> \E i \in 1 .. n : x = r[i]
  BY <1>5 DEF Range
<1>7. \A x : x \in Range(s) <=> \E i \in 1 .. n : x = s[i]
  BY <1>1 DEF Range
<1>8. ASSUME NEW i \in 1 .. n PROVE r[i] \in Range(s) /\ s[i] \in Range(r)
  <2> DEFINE j == (n - i) + 1
  <2>1. j \in 1 .. n /\ (n - j) + 1 = i
    BY <1>3
  <2> HIDE DEF j
  <2>2. r[i] = s[j] /\ r[j] = s[i]
    BY <1>2, <2>1 DEF j
  <2> QED BY <1>6, <1>7, <2>1, <2>2
<1> QED BY <1>5, <1>6, <1>7, <1>8 DEF r

LEMMA MappingsEdited ==
  ASSUME NEW f \in Bindings, NEW maps \in Seq(Mappings), NEW removal \in BOOLEAN
  PROVE  EditBindings(f, maps, removal) \in Bindings
<1> DEFINE n == Len(maps)
           g == EditBindings(f, maps, removal)
<1>1. n \in Nat /\ DOMAIN maps = 1 .. n /\ \A i \in 1 .. n : maps[i] \in Mappings
  OBVIOUS
<1>2. \A v \in Bindings, i \in 1 .. n : EditBinding(v, maps[i], removal) \in Bindings
  BY <1>1, BindIs
<1> PICK tr \in [0 .. n -> Bindings] :
           /\ tr[0] = f /\ \A i \in 1 .. n : tr[i] = EditBinding(tr[i - 1], maps[i], removal)
           /\ tr[n] = g
  <2>1. TraceEditBindings(removal, maps, Bindings, f)
    BY <1>1, <1>2, EditBindingsTrace
  <2> QED BY <2>1, Zenon DEF TraceEditBindings
<1> HIDE DEF n, g
<1>3. g \in Bindings
  BY <1>1
<1> QED BY <1>3 DEF g

LEMMA NothingEdited ==
  ASSUME NEW f \in Bindings, NEW maps \in Seq(Mappings), Len(maps) = 0, NEW removal
  PROVE  EditBindings(f, maps, removal) = f
<1> DEFINE n == Len(maps)
           V == {f}
           g == EditBindings(f, maps, removal)
<1>1. n = 0 /\ n \in Nat /\ DOMAIN maps = 1 .. n /\ f \in V
  OBVIOUS
<1>2. \A v \in V, i \in 1 .. n : EditBinding(v, maps[i], removal) \in V
  BY <1>1
<1> HIDE DEF V
<1> PICK tr \in [0 .. n -> V] :
           /\ tr[0] = f /\ \A i \in 1 .. n : tr[i] = EditBinding(tr[i - 1], maps[i], removal)
           /\ tr[n] = g
  <2>1. TraceEditBindings(removal, maps, V, f)
    BY <1>1, <1>2, EditBindingsTrace
  <2> QED BY <2>1, Zenon DEF TraceEditBindings
<1> QED BY <1>1

\* An edit of a node leaves lists of host ports.
LEMMA EditBindingsIs ==
  ASSUME NEW f \in Bindings, NEW options \in Changes
  PROVE  LET maps == FlattenSeq([i \in DOMAIN options |-> options[i].maps])
         IN  EditBindings(f, maps, options[1].removal) \in Bindings
<1> DEFINE n == Len(options)
           parts == [i \in DOMAIN options |-> options[i].maps]
           maps == FlattenSeq(parts)
           removal == options[1].removal
<1>1. ArePorts(options) /\ \A p \in Range(options) : p.removal \in BOOLEAN
  BY ConfigAssumption
<1>2. n \in Nat /\ DOMAIN options = 1 .. n /\ \A i \in 1 .. n : options[i] \in Range(options)
  BY <1>1, Listed DEF ArePorts
<1>3. \A i \in 1 .. n : options[i].maps \in Seq(Mappings)
  BY <1>1, <1>2 DEF ArePorts, Mappings
<1>4. parts = [i \in 1 .. n |-> parts[i]] /\ \A i \in 1 .. n : parts[i] = options[i].maps
  BY <1>2
<1>5. n # 0 => removal \in BOOLEAN
  <2>1. n # 0 => 1 \in 1 .. n
    BY <1>2
  <2> QED BY <1>1, <1>2, <2>1
<1> HIDE DEF n, parts, removal
<1>6. parts \in Seq(Seq(Mappings)) /\ Len(parts) = n /\ DOMAIN parts = 1 .. n
  <2>1. \A i \in 1 .. n : parts[i] \in Seq(Mappings)
    BY <1>3, <1>4
  <2> QED BY <1>2, <1>4, <2>1, IsSeq
<1>7. maps \in Seq(Mappings) /\ Range(maps) = UNION {Range(parts[i]) : i \in DOMAIN parts}
  BY <1>6, FlattenRange
<1> HIDE DEF maps
<1>8. DOMAIN maps = 1 .. Len(maps) /\ Len(maps) \in Nat /\ \A i \in 1 .. Len(maps) : maps[i] \in Range(maps) /\ maps[i] \in Mappings
  BY <1>7, RangeIs
<1>9. ASSUME NEW i \in 1 .. Len(maps) PROVE removal \in BOOLEAN
  <2>1. maps[i] \in UNION {Range(parts[j]) : j \in 1 .. n}
    BY <1>6, <1>7, <1>8
  <2>2. n # 0
    BY <2>1
  <2> QED BY <1>5, <2>2
<1>10. CASE Len(maps) = 0
  <2>1. EditBindings(f, maps, removal) = f
    BY <1>7, <1>10, NothingEdited
  <2> QED BY <2>1 DEF maps, parts, removal
<1>11. CASE Len(maps) # 0
  <2>1. 1 \in 1 .. Len(maps)
    BY <1>8, <1>11
  <2>2. removal \in BOOLEAN
    BY <1>9, <2>1
  <2>3. EditBindings(f, maps, removal) \in Bindings
    BY <1>7, <2>2, MappingsEdited
  <2> QED BY <2>3 DEF maps, parts, removal
<1> QED BY <1>10, <1>11

-----------------------------------------------------------------------------
(* What a filter means in a cluster *)

\* The nodes of a role are a segment of the list.
InSegment(nodes, role, lo, len) ==
  \A i \in 1 .. Len(nodes) : nodes[i].role = role <=> (i > lo /\ i <= lo + len)

LEMMA GroupSegment ==
  ASSUME NEW N, NEW nodes \in Seq(N), NEW role, NEW lo \in Nat, NEW len \in Nat, lo + len <= Len(nodes),
         InSegment(nodes, role, lo, len)
  PROVE  /\ Group(nodes, role) \in Seq(N) /\ Len(Group(nodes, role)) = len
         /\ \A j \in 1 .. len : Group(nodes, role)[j] = nodes[lo + j]
<1> DEFINE n == Len(nodes)
           parts == [i \in DOMAIN nodes |-> IF nodes[i].role = role THEN <<nodes[i]>> ELSE <<>>]
           count(k) == IF k <= lo THEN 0 ELSE IF k <= lo + len THEN k - lo ELSE len
<1>1. n \in Nat /\ DOMAIN nodes = 1 .. n /\ \A i \in 1 .. n : nodes[i] \in N
  OBVIOUS
<1>2. parts = [i \in 1 .. n |-> parts[i]] /\ \A i \in 1 .. n : parts[i] = IF nodes[i].role = role THEN <<nodes[i]>> ELSE <<>>
  BY <1>1
<1>3. Group(nodes, role) = FlattenSeq(parts)
  BY DEF Group
<1>4. lo + len <= n /\ \A i \in 1 .. n : nodes[i].role = role <=> (i > lo /\ i <= lo + len)
  BY DEF InSegment
<1> HIDE DEF n, parts
<1>5. ASSUME NEW i \in 1 .. n PROVE parts[i] \in Seq(N)
  <2> DEFINE x == nodes[i]
             y == parts[i]
  <2>1. x \in N /\ (y = <<x>> \/ y = <<>>)
    BY <1>1, <1>2
  <2> HIDE DEF x, y
  <2>2. y \in Seq(N)
    <3>1. CASE y = <<x>>
      BY <2>1, <3>1
    <3>2. CASE y = <<>>
      BY <3>2
    <3> QED BY <2>1, <3>1, <3>2
  <2> QED BY <2>2 DEF y
<1>6. parts \in Seq(Seq(N)) /\ Len(parts) = n
  BY <1>1, <1>2, <1>5, IsSeq
<1> PICK tr \in [0 .. n -> Seq(N)] :
      tr[0] = <<>> /\ (\A i \in 1 .. n : tr[i] = tr[i - 1] \o parts[i]) /\ tr[n] = FlattenSeq(parts)
  BY <1>6, FlattenTrace
<1> DEFINE Upto(k) == Len(tr[k]) = count(k) /\ \A j \in 1 .. count(k) : tr[k][j] = nodes[lo + j]
           Is == {k \in Nat : k <= n => Upto(k)}
<1>c. \A k \in Nat : count(k) \in Nat
  OBVIOUS
<1>7. 0 \in Is
  <2>1. count(0) = 0
    OBVIOUS
  <2>2. tr[0] = <<>> /\ Len(<<>>) = 0
    OBVIOUS
  <2> HIDE DEF count
  <2>3. Upto(0)
    BY <2>1, <2>2
  <2> QED BY <2>3
<1>8. ASSUME NEW k \in Nat, k \in Is PROVE k + 1 \in Is
  <2> SUFFICES ASSUME k + 1 <= n PROVE Upto(k + 1)
    OBVIOUS
  <2>1. k + 1 \in 1 .. n /\ k \in 0 .. n /\ (k + 1) - 1 = k /\ k <= n
    BY <1>1
  <2> DEFINE a == tr[k]
             b == parts[k + 1]
             c == tr[k + 1]
             x == nodes[k + 1]
             m == count(k)
             q == count(k + 1)
  <2>2. c = a \o b /\ a \in Seq(N) /\ x \in N
    BY <1>1, <2>1
  <2>3. Len(a) = m /\ \A j \in 1 .. m : a[j] = nodes[lo + j]
    BY <1>8, <2>1
  <2>4. b = IF x.role = role THEN <<x>> ELSE <<>>
    BY <1>2, <2>1
  <2>5. x.role = role <=> (k + 1 > lo /\ k + 1 <= lo + len)
    BY <1>4, <2>1
  <2>6. m \in Nat
    BY <1>c
  <2>7. IF k + 1 > lo /\ k + 1 <= lo + len THEN q = m + 1 /\ lo + q = k + 1 ELSE q = m
    <3> HIDE DEF a, b, c, x
    <3> QED BY <2>1
  <2> HIDE DEF a, b, c, x, m, q, count
  <2>8. CASE x.role = role
    <3>1. q = m + 1 /\ lo + q = k + 1
      BY <2>5, <2>7, <2>8
    <3>2. c = a \o <<x>>
      BY <2>2, <2>4, <2>8
    <3>3. Len(c) = m + 1 /\ c[m + 1] = x /\ \A j \in 1 .. m : c[j] = a[j]
      <4>1. a \in Seq(N) /\ x \in N /\ Len(a) = m
        BY <2>2, <2>3
      <4>2. c = Append(a, x)
        BY <3>2, <4>1
      <4> QED BY <2>6, <4>1, <4>2
    <3>4. ASSUME NEW j \in 1 .. q PROVE c[j] = nodes[lo + j]
      <4>1. CASE j = q
        <5>1. lo + j = k + 1 /\ j = m + 1
          BY <3>1, <4>1
        <5>2. c[j] = x
          BY <3>3, <5>1
        <5> QED BY <5>1, <5>2 DEF x
      <4>2. CASE j # q
        <5>1. j \in 1 .. m
          BY <2>6, <3>1, <4>2
        <5> QED BY <2>3, <3>3, <5>1
      <4> QED BY <4>1, <4>2
    <3>5. Len(c) = q
      BY <3>1, <3>3
    <3> QED BY <3>4, <3>5 DEF c, q
  <2>9. CASE x.role # role
    <3>1. q = m
      BY <2>5, <2>7, <2>9
    <3>2. c = a
      BY <2>2, <2>4, <2>9
    <3>3. Len(c) = q /\ \A j \in 1 .. q : c[j] = nodes[lo + j]
      BY <2>3, <3>1, <3>2
    <3> QED BY <3>3 DEF c, q
  <2> QED BY <2>8, <2>9
<1>9. Is = Nat
  <2> HIDE DEF Is
  <2>1. Is \in SUBSET Nat
    BY DEF Is
  <2> QED BY <1>7, <1>8, <2>1, SetInduction
<1>10. Upto(n)
  <2>1. n \in Is
    BY <1>1, <1>9
  <2> HIDE DEF Upto
  <2> QED BY <1>1, <2>1
<1>11. count(n) = len
  BY <1>1, <1>4
<1>12. tr[n] \in Seq(N)
  BY <1>1
<1> HIDE DEF count
<1> QED BY <1>3, <1>10, <1>11, <1>12

\* The servers and the agents of a configuration, in order.
LEMMA GroupsAre ==
  ASSUME NEW c, Counted(c)
  PROVE  LET nodes == NodesOf(c)
             servers == Group(nodes, "server")
             agents == Group(nodes, "agent")
         IN  /\ servers \in Seq(AllNodes) /\ Len(servers) = c.servers
             /\ \A j \in 1 .. c.servers : servers[j] = Server(j - 1)
             /\ agents \in Seq(AllNodes) /\ Len(agents) = c.agents
             /\ \A j \in 1 .. c.agents : agents[j] = Agent(j - 1)
<1> DEFINE nodes == NodesOf(c)
           b == Lbs(c)
           s == c.servers
           a == c.agents
           N == AllNodes
<1>1. /\ nodes \in Seq(N) /\ Len(nodes) = b + s + a /\ b \in {0, 1}
      /\ \A i \in 1 .. Len(nodes) : /\ i <= b => nodes[i] = Lb
                                    /\ i > b /\ i <= b + s => nodes[i] = Server(i - b - 1)
                                    /\ i > b + s => nodes[i] = Agent(i - b - s - 1)
  BY NodesAre
<1>2. s \in Nat /\ a \in Nat
  BY DEF Counted
<1> HIDE DEF nodes, b, s, a, N
<1>3. ASSUME NEW i \in 1 .. Len(nodes)
      PROVE  \/ i <= b /\ nodes[i].role = "loadbalancer"
             \/ i > b /\ i <= b + s /\ nodes[i].role = "server"
             \/ i > b + s /\ nodes[i].role = "agent"
  <2>1. CASE i <= b
    BY <1>1, <2>1 DEF Lb
  <2>2. CASE i > b /\ i <= b + s
    BY <1>1, <2>2 DEF Server
  <2>3. CASE i > b + s
    BY <1>1, <2>3 DEF Agent
  <2> QED BY <1>1, <1>2, <2>1, <2>2, <2>3
<1>4. \A i \in 1 .. Len(nodes) : nodes[i].role = "server" <=> (i > b /\ i <= b + s)
  BY <1>1, <1>2, <1>3
<1>5. \A i \in 1 .. Len(nodes) : nodes[i].role = "agent" <=> (i > b + s /\ i <= (b + s) + a)
  BY <1>1, <1>2, <1>3
<1> DEFINE servers == Group(nodes, "server")
           agents == Group(nodes, "agent")
<1>6. servers \in Seq(N) /\ Len(servers) = s /\ \A j \in 1 .. s : servers[j] = nodes[b + j]
  <2>1. b \in Nat /\ b + s <= Len(nodes)
    BY <1>1, <1>2
  <2> DEFINE r == "server"
  <2>2. InSegment(nodes, r, b, s)
    BY <1>4 DEF InSegment
  <2>3. servers = Group(nodes, r)
    OBVIOUS
  <2> HIDE DEF r, servers
  <2>4. /\ Group(nodes, r) \in Seq(N) /\ Len(Group(nodes, r)) = s
        /\ \A j \in 1 .. s : Group(nodes, r)[j] = nodes[b + j]
    BY <1>1, <1>2, <2>1, <2>2, GroupSegment
  <2> QED BY <2>3, <2>4
<1>7. agents \in Seq(N) /\ Len(agents) = a /\ \A j \in 1 .. a : agents[j] = nodes[(b + s) + j]
  <2> DEFINE lo == b + s
  <2>1. lo \in Nat /\ lo + a <= Len(nodes)
    BY <1>1, <1>2
  <2> DEFINE r == "agent"
  <2>2. InSegment(nodes, r, lo, a)
    BY <1>5 DEF InSegment
  <2>3. agents = Group(nodes, r)
    OBVIOUS
  <2> HIDE DEF lo, r, agents
  <2>4. /\ Group(nodes, r) \in Seq(N) /\ Len(Group(nodes, r)) = a
        /\ \A j \in 1 .. a : Group(nodes, r)[j] = nodes[lo + j]
    BY <1>1, <1>2, <2>1, <2>2, GroupSegment
  <2> QED BY <2>3, <2>4 DEF lo
<1> HIDE DEF servers, agents
<1>8. \A j \in 1 .. s : servers[j] = Server(j - 1)
  <2> SUFFICES ASSUME NEW j \in 1 .. s PROVE servers[j] = Server(j - 1)
    OBVIOUS
  <2>1. b + j \in 1 .. Len(nodes) /\ b + j > b /\ b + j <= b + s /\ (b + j) - b - 1 = j - 1
    BY <1>1, <1>2
  <2> QED BY <1>1, <1>6, <2>1
<1>9. \A j \in 1 .. a : agents[j] = Agent(j - 1)
  <2> SUFFICES ASSUME NEW j \in 1 .. a PROVE agents[j] = Agent(j - 1)
    OBVIOUS
  <2>1. (b + s) + j \in 1 .. Len(nodes) /\ (b + s) + j > b + s /\ ((b + s) + j) - b - s - 1 = j - 1
    BY <1>1, <1>2
  <2> QED BY <1>1, <1>7, <2>1
<1> QED BY <1>6, <1>7, <1>8, <1>9 DEF nodes, servers, agents, s, a, N

LEMMA NodeIs ==
  ASSUME NEW c, Counted(c), NEW n \in Range(NodesOf(c))
  PROVE  \/ n = Lb /\ n.role = "loadbalancer"
         \/ n.role = "server" /\ n.idx \in 0 .. c.servers - 1 /\ n = Server(n.idx)
         \/ n.role = "agent" /\ n.idx \in 0 .. c.agents - 1 /\ n = Agent(n.idx)
<1> DEFINE nodes == NodesOf(c)
           b == Lbs(c)
           s == c.servers
           a == c.agents
<1>1. /\ nodes \in Seq(AllNodes) /\ Len(nodes) = b + s + a /\ b \in {0, 1}
      /\ \A i \in 1 .. Len(nodes) : /\ i <= b => nodes[i] = Lb
                                    /\ i > b /\ i <= b + s => nodes[i] = Server(i - b - 1)
                                    /\ i > b + s => nodes[i] = Agent(i - b - s - 1)
  BY NodesAre
<1>2. s \in Nat /\ a \in Nat
  BY DEF Counted
<1> HIDE DEF nodes, b, s, a
<1>3. PICK i \in 1 .. Len(nodes) : n = nodes[i]
  BY <1>1, RangeIs DEF nodes
<1>4. CASE i <= b
  BY <1>1, <1>3, <1>4 DEF Lb
<1>5. CASE i > b /\ i <= b + s
  <2>1. n = Server(i - b - 1) /\ i - b - 1 \in 0 .. s - 1
    BY <1>1, <1>2, <1>3, <1>5
  <2>2. n.role = "server" /\ n.idx = i - b - 1
    BY <2>1 DEF Server
  <2> QED BY <2>1, <2>2 DEF s
<1>6. CASE i > b + s
  <2>1. n = Agent(i - b - s - 1) /\ i - b - s - 1 \in 0 .. a - 1
    BY <1>1, <1>2, <1>3, <1>6
  <2>2. n.role = "agent" /\ n.idx = i - b - s - 1
    BY <2>1 DEF Agent
  <2> QED BY <2>1, <2>2 DEF a
<1> QED BY <1>1, <1>2, <1>4, <1>5, <1>6

\* The indices of a subset that fits, by what the subset says.
LEMMA IndicesAre ==
  ASSUME NEW f \in Filters, NEW len \in Nat, Parses(f), SubsetFits(f.subset, len), NEW i \in 0 .. len - 1
  PROVE  LET at == Indices(f.subset, len)
         IN  (\E j \in DOMAIN at : at[j] = i) <=>
               \/ f.subset = Every
               \/ f.subset.kind = "list" /\ i \in Range(f.subset.of)
               \/ /\ f.subset.kind = "range"
                  /\ f.subset.from <= i /\ f.subset.to \in {Open} \cup {k \in Nat : i <= k}
<1> DEFINE s == f.subset
           at == Indices(s, len)
<1>1. s \in Subsets
  <2> DEFINE A == Texts(Groups)
             B == Texts({NoSuffix, "proxy", "direct"})
  <2> HIDE DEF A, B
  <2>1. f \in [group : A, subset : Subsets, suffix : B, bracketed : BOOLEAN]
    BY DEF Filters, A, B
  <2> QED BY <2>1
<1>2. SubsetFits(s, len) /\ s.kind \in {"list", "range", "wildcard"}
  BY DEF SubsetFits
<1> HIDE DEF s, at
<1>3. CASE s.kind = "list"
  <2>1. at = s.of
    BY <1>3 DEF Indices, at
  <2>2. s # Every
    BY <1>3 DEF Every
  <2>3. (\E j \in DOMAIN at : at[j] = i) <=> i \in Range(s.of)
    BY <2>1 DEF Range
  <2>4. (\E j \in DOMAIN at : at[j] = i) <=>
           \/ s = Every
           \/ s.kind = "list" /\ i \in Range(s.of)
           \/ s.kind = "range" /\ s.from <= i /\ s.to \in {Open} \cup {k \in Nat : i <= k}
    BY <1>3, <2>2, <2>3
  <2> QED BY <2>4 DEF at, s
<1>4. CASE s.kind = "range"
  <2> DEFINE lo == RangeStart(s)
             hi == RangeEnd(s, len)
             m == hi - lo + 1
  <2>1. s.from \in Nat \cup {Open} /\ s.to \in Nat \cup {Open}
    BY <1>1, <1>4 DEF Subsets, None, Every
  <2>2. lo \in Nat /\ hi \in Int /\ lo = (IF s.from = Open THEN 0 ELSE s.from) /\ hi = (IF s.to = Open THEN len - 1 ELSE s.to)
    BY <2>1 DEF RangeStart, RangeEnd, Open
  <2>3. at = [j \in 1 .. m |-> lo + j - 1]
    BY <1>4 DEF Indices, at
  <2> HIDE DEF lo, hi
  <2>4. (\E j \in DOMAIN at : at[j] = i) <=> i \in lo .. hi
    <3>1. ASSUME NEW j \in 1 .. m, at[j] = i PROVE i \in lo .. hi
      BY <2>2, <2>3, <3>1
    <3>2. ASSUME i \in lo .. hi PROVE \E j \in 1 .. m : at[j] = i
      <4>1. (i - lo) + 1 \in 1 .. m
        BY <2>2, <3>2
      <4>2. at[(i - lo) + 1] = i
        BY <2>2, <2>3, <4>1
      <4> QED BY <4>1, <4>2
    <3>3. DOMAIN at = 1 .. m
      BY <2>3
    <3> QED BY <3>1, <3>2, <3>3
  <2>5. i \in lo .. hi <=> (s.from <= i /\ s.to \in {Open} \cup {k \in Nat : i <= k})
    BY <2>1, <2>2 DEF Open
  <2>6. s # Every
    BY <1>4 DEF Every
  <2>7. (\E j \in DOMAIN at : at[j] = i) <=>
           \/ s = Every
           \/ s.kind = "list" /\ i \in Range(s.of)
           \/ s.kind = "range" /\ s.from <= i /\ s.to \in {Open} \cup {k \in Nat : i <= k}
    BY <1>4, <2>4, <2>5, <2>6
  <2> QED BY <2>7 DEF at, s
<1>5. CASE s.kind = "wildcard"
  <2>1. s = Every
    BY <1>1, <1>5 DEF Subsets, None, Every
  <2>2. at = [j \in 1 .. len |-> j - 1]
    BY <1>5 DEF Indices, at
  <2>3. i + 1 \in 1 .. len /\ (i + 1) - 1 = i
    OBVIOUS
  <2>4. \E j \in DOMAIN at : at[j] = i
    BY <2>2, <2>3
  <2> QED BY <2>1, <2>4 DEF at, s
<1> QED BY <1>2, <1>3, <1>4, <1>5

\* A filter that is no error selects the nodes it names, and these only.
LEMMA SelectedIsNamed ==
  ASSUME NEW c, Counted(c), NEW f \in Filters, ~IsError(NodesOf(c), f), NEW n \in Range(NodesOf(c))
  PROVE  n \in Selected(NodesOf(c), f) <=> Names(f, n)
<1> DEFINE nodes == NodesOf(c)
<1>1. nodes \in Seq(AllNodes)
  BY NodesAre
<1>2. Parses(f) /\ f.group \in Groups
  BY DEF IsError, Parses
<1>3. \/ n = Lb /\ n.role = "loadbalancer"
      \/ n.role = "server" /\ n.idx \in 0 .. c.servers - 1 /\ n = Server(n.idx)
      \/ n.role = "agent" /\ n.idx \in 0 .. c.agents - 1 /\ n = Agent(n.idx)
  BY NodeIs
<1>4. CASE f.group = "all"
  BY <1>4 DEF Selected, Names
<1>5. CASE f.group = "loadbalancer"
  <2>1. Range(Group(nodes, "loadbalancer")) = {x \in Range(nodes) : x.role = "loadbalancer"}
    BY <1>1, GroupRange
  <2>2. n \in Selected(nodes, f) <=> n.role = "loadbalancer"
    BY <1>5, <2>1 DEF Selected
  <2>3. n.role = "loadbalancer" <=> n = Lb
    <3>1. Lb.role = "loadbalancer"
      BY DEF Lb
    <3>2. CASE n = Lb
      BY <3>1, <3>2
    <3>3. CASE n.role # "loadbalancer"
      BY <3>1, <3>3
    <3> QED BY <1>3, <3>2, <3>3
  <2> QED BY <1>5, <2>2, <2>3 DEF Names
<1>6. CASE f.group \in {"server", "agent"}
  <2> DEFINE group == Group(nodes, f.group)
             len == Len(group)
             at == Indices(f.subset, len)
             picked == Picked(nodes, f)
             Node(k) == IF f.group = "server" THEN Server(k) ELSE Agent(k)
  <2>1. /\ at \in Seq(Nat) /\ \A i \in 1 .. Len(at) : at[i] + 1 \in 1 .. len
        /\ picked \in Seq(Range(nodes)) /\ Len(picked) = Len(at)
        /\ \A i \in 1 .. Len(at) : picked[i] = group[at[i] + 1]
    BY <1>1, <1>6, PickedIs
  <2>2. SubsetFits(f.subset, len)
    BY <1>6 DEF IsError
  <2>3. /\ Len(Group(nodes, "server")) = c.servers /\ Len(Group(nodes, "agent")) = c.agents
        /\ \A j \in 1 .. c.servers : Group(nodes, "server")[j] = Server(j - 1)
        /\ \A j \in 1 .. c.agents : Group(nodes, "agent")[j] = Agent(j - 1)
    BY GroupsAre
  <2>4. len = (IF f.group = "server" THEN c.servers ELSE c.agents) /\ len \in Nat
    BY <1>6, <2>3 DEF Counted
  <2>5. \A j \in 1 .. len : group[j] = Node(j - 1)
    <3>1. CASE f.group = "server"
      BY <2>3, <3>1
    <3>2. CASE f.group = "agent"
      BY <2>3, <3>2
    <3> QED BY <1>6, <3>1, <3>2
  <2>6. \A k \in Nat : Node(k).idx = k /\ Node(k).role = f.group
    BY <1>6 DEF Server, Agent
  <2>7. n \in Selected(nodes, f) <=> \E i \in 1 .. Len(at) : n = picked[i]
    <3>1. Selected(nodes, f) = Range(picked)
      BY <1>6 DEF Selected
    <3> QED BY <2>1, <3>1, RangeIs
  <2> HIDE DEF group, len, at, picked, Node
  <2>8. \A i \in 1 .. Len(at) : at[i] \in Nat /\ picked[i] = Node(at[i])
    <3> SUFFICES ASSUME NEW i \in 1 .. Len(at) PROVE at[i] \in Nat /\ picked[i] = Node(at[i])
      OBVIOUS
    <3>0. at \in Seq(Nat) /\ \A j \in 1 .. Len(at) : at[j] + 1 \in 1 .. len
      BY <2>1
    <3>a. at[i] \in Nat
      BY <3>0
    <3>b. at[i] + 1 \in 1 .. len
      BY <3>0, Zenon
    <3>1. at[i] \in Nat /\ at[i] + 1 \in 1 .. len /\ (at[i] + 1) - 1 = at[i]
      BY <3>a, <3>b
    <3>2. picked[i] = group[at[i] + 1]
      BY <2>1
    <3>3. group[at[i] + 1] = Node((at[i] + 1) - 1)
      BY <2>5, <3>1
    <3> QED BY <3>1, <3>2, <3>3
  <2>9. CASE n.role = f.group
    <3>1. n.idx \in 0 .. len - 1 /\ n = Node(n.idx) /\ n # Lb
      <4>1. n # Lb
        BY <1>6, <2>9 DEF Lb
      <4>2. CASE f.group = "server"
        <5>1. n.idx \in 0 .. c.servers - 1 /\ n = Server(n.idx)
          BY <1>3, <2>9, <4>1, <4>2
        <5>2. len = c.servers /\ Node(n.idx) = Server(n.idx)
          BY <2>4, <4>2 DEF Node
        <5> QED BY <4>1, <5>1, <5>2
      <4>3. CASE f.group = "agent"
        <5>1. n.idx \in 0 .. c.agents - 1 /\ n = Agent(n.idx)
          BY <1>3, <2>9, <4>1, <4>3
        <5>2. len = c.agents /\ Node(n.idx) = Agent(n.idx)
          BY <2>4, <4>3 DEF Node
        <5> QED BY <4>1, <5>1, <5>2
      <4> QED BY <1>6, <4>1, <4>2, <4>3
    <3>2. n \in Selected(nodes, f) <=> \E i \in DOMAIN at : at[i] = n.idx
      <4>1. DOMAIN at = 1 .. Len(at)
        BY <2>1
      <4>2. \A i \in 1 .. Len(at) : n = picked[i] <=> at[i] = n.idx
        BY <2>6, <2>8, <3>1
      <4> QED BY <2>7, <4>1, <4>2
    <3> DEFINE k == n.idx
    <3> HIDE DEF k
    <3>3. (\E j \in DOMAIN at : at[j] = k) <=>
               \/ f.subset = Every
               \/ f.subset.kind = "list" /\ k \in Range(f.subset.of)
               \/ /\ f.subset.kind = "range"
                  /\ f.subset.from <= k /\ f.subset.to \in {Open} \cup {x \in Nat : k <= x}
      <4>1. k \in 0 .. len - 1
        BY <3>1 DEF k
      <4> QED BY <1>2, <2>2, <2>4, <4>1, IndicesAre DEF at
    <3>4. Names(f, n) <=> \/ f.subset = Every
                          \/ f.subset.kind = "list" /\ k \in Range(f.subset.of)
                          \/ /\ f.subset.kind = "range"
                             /\ f.subset.from <= k /\ f.subset.to \in {Open} \cup {x \in Nat : k <= x}
      <4>1. f.group # "all" /\ f.group = n.role /\ n # Lb
        BY <1>6, <2>9, <3>1
      <4> QED BY <4>1 DEF Names, k
    <3> QED BY <3>2, <3>3, <3>4 DEF k
  <2>10. CASE n.role # f.group
    <3>1. ~Names(f, n)
      BY <1>6, <2>10 DEF Names
    <3>2. \A i \in 1 .. Len(at) : n # picked[i]
      BY <2>6, <2>8, <2>10
    <3> QED BY <2>7, <3>1, <3>2
  <2> QED BY <2>9, <2>10
<1> QED BY <1>2, <1>4, <1>5, <1>6 DEF Groups

-----------------------------------------------------------------------------
(* What is published and what is forwarded, through all the edits *)

\* The ports of a cluster with these nodes: in step unless a removal has left traces, and each
\* option of the configuration served, by the nodes it chooses, until the first edit.
ArePortsFor(st, nodes, drifted, edited, options) ==
  /\ st \in PortStates(Range(nodes))
  /\ ~drifted /\ (\E n \in Range(nodes) : n.role = "server") => InSync(st)
  /\ edited = 0 => \A o \in Range(options) : IsServed(nodes, st, o)

PortsHold ==
  /\ ports.published \in Bindings /\ \A p \in Ports : ports.config[p] \in Seq(Nodes)
  /\ phase \in MadePhases => ArePortsFor(ports, cluster.nodes, drift, edits, cfg.ports)

LEMMA PortStateTyped ==
  ASSUME NEW N, NEW st \in PortStates(N)
  PROVE  st.published \in Bindings /\ \A p \in Ports : st.config[p] \in Seq(N)
<1> DEFINE K == Configs(N)
<1>1. st.published \in Bindings /\ st.config \in K
  <2> HIDE DEF K
  <2> QED BY DEF PortStates, K
<1>2. \A p \in Ports : st.config[p] \in Seq(N \ {Lb})
  BY <1>1 DEF Configs
<1>3. ASSUME NEW s \in Seq(N \ {Lb}) PROVE s \in Seq(N)
  OBVIOUS
<1> QED BY <1>1, <1>2, <1>3

LEMMA PortsAtFirst == Init => PortsHold
<1> SUFFICES ASSUME Init PROVE PortsHold
  OBVIOUS
<1>1. phase = "start" /\ ports = NoPorts /\ cluster = NoCluster
  BY DEF Init
<1>2. ports.published \in Bindings /\ \A p \in Ports : ports.config[p] = <<>>
  BY <1>1, NothingBound
<1>3. \A p \in Ports : ports.config[p] \in Seq(Nodes)
  <2> DEFINE N == Nodes
             empty == <<>>
  <2>1. empty \in Seq(N)
    OBVIOUS
  <2>2. \A p \in Ports : ports.config[p] = empty
    BY <1>2
  <2> HIDE DEF N, empty
  <2> QED BY <2>1, <2>2, Zenon DEF N
<1> QED BY <1>1, <1>2, <1>3 DEF PortsHold, MadePhases

\* Once the ports are those of a cluster with the nodes there are.
LEMMA HeldPorts ==
  ASSUME NEW st, NEW nodes, NEW drifted, NEW edited, NEW options, ArePortsFor(st, nodes, drifted, edited, options)
  PROVE  st.published \in Bindings /\ \A p \in Ports : st.config[p] \in Seq(Range(nodes))
<1> DEFINE N == Range(nodes)
<1>1. st \in PortStates(N)
  BY DEF ArePortsFor
<1> HIDE DEF N
<1>2. st.published \in Bindings /\ \A p \in Ports : st.config[p] \in Seq(N)
  BY <1>1, PortStateTyped
<1> QED BY <1>2 DEF N

LEMMA BuiltNodes ==
  ASSUME Configured, Built, phase \in MadePhases
  PROVE  /\ cluster.nodes = NodesOf(cfg) /\ Counted(cfg) /\ cluster.nodes \in Seq(AllNodes)
         /\ phase \in Named
<1>1. phase \in Named
  BY DEF MadePhases, Named
<1>2. cluster.nodes = NodesOf(cfg)
  BY DEF Built, IsBuilt
<1>3. Counted(cfg)
  BY <1>1 DEF Configured, IsMerged, IsSimple
<1>4. NodesOf(cfg) \in Seq(AllNodes)
  BY <1>3, NodesAre
<1> QED BY <1>1, <1>2, <1>3, <1>4

LEMMA PortsByTransform == Configured /\ Built' /\ PortsHold /\ TransformSimpleToClusterConfig => PortsHold'
<1> SUFFICES ASSUME Configured, Built', PortsHold, TransformSimpleToClusterConfig PROVE PortsHold'
  OBVIOUS
<1>1. phase = "simple" /\ cfg' = cfg
  BY DEF TransformSimpleToClusterConfig, Goto, Fatal
<1>2. CASE phase' = "failed"
  <2>1. cluster' = cluster /\ ports' = ports
    BY <1>2 DEF TransformSimpleToClusterConfig, Goto, Fatal
  <2> QED BY <1>2, <2>1 DEF PortsHold, MadePhases, Nodes
<1>3. CASE phase' # "failed"
  <2> DEFINE c == IF cfg.name = "" THEN [cfg EXCEPT !.name = DefaultName] ELSE cfg
             nodes == NodesOf(c)
             st == FirstPorts(c, nodes)
             hasLb == ~c.noLb
             options == c.ports
             t == ports'
  <2>1. t \in TransformPorts(nodes, hasLb, st, options)
    BY <1>3 DEF TransformSimpleToClusterConfig, Goto, Fatal
  <2>0. phase' \in MadePhases
    BY <1>3 DEF TransformSimpleToClusterConfig, Goto, Fatal, MadePhases
  <2>3. nodes = NodesOf(cfg) /\ options = cfg.ports /\ c.apiPort = cfg.apiPort
    BY <1>1, NamedIs
  <2>2. cluster'.nodes = nodes
    <3>1. cluster'.nodes = NodesOf(cfg')
      BY <2>0 DEF Built, IsBuilt
    <3>2. NodesOf(cfg') = NodesOf(cfg)
      BY <1>1
    <3> QED BY <2>3, <3>1, <3>2
  <2>4. Counted(cfg) /\ cfg.apiPort \in Nat /\ ArePortsOf(cfg, Written)
    BY <1>1 DEF Configured, Named, IsMerged, IsSimple
  <2>5. nodes \in Seq(AllNodes)
    BY <2>3, <2>4, NodesAre
  <2>6. c.apiPort \in Nat
    BY <2>3, <2>4
  <2> HIDE DEF c, hasLb, options, t
  <2>7. st \in PortStates(Range(nodes)) /\ ((\E n \in Range(nodes) : n.role = "server") => InSync(st))
    <3> HIDE DEF nodes
    <3> QED BY <2>5, <2>6, FirstPortsIs
  <2> HIDE DEF st, nodes
  <2>8. /\ Len(options) \in Nat /\ DOMAIN options = 1 .. Len(options)
        /\ \A o \in Range(options) : \E i \in 1 .. Len(options) : o = options[i]
        /\ \A i \in 1 .. Len(options) : IsPort(options[i]) /\ options[i].removal = FALSE
    BY <2>3, <2>4, Listed DEF ArePortsOf
  <2>9. /\ t \in PortStates(Range(nodes))
        /\ (\A i \in 1 .. Len(options) : ~options[i].removal) =>
             /\ Grows(Range(nodes), st, t)
             /\ \A i \in 1 .. Len(options) : IsServed(nodes, t, options[i])
    BY <2>1, <2>5, <2>7, <2>8, TransformPortsIs
  <2>10. /\ Grows(Range(nodes), st, t)
         /\ \A i \in 1 .. Len(options) : IsServed(nodes, t, options[i])
    BY <2>8, <2>9
  <2>11. (\E n \in Range(nodes) : n.role = "server") => InSync(t)
    BY <2>7, <2>10 DEF Grows
  <2>12. \A o \in Range(options) : IsServed(nodes, t, o)
    BY <2>8, <2>10
  <2>13. \A d, e : ArePortsFor(t, nodes, d, e, options)
    BY <2>9, <2>11, <2>12 DEF ArePortsFor
  <2>14. t.published \in Bindings /\ \A p \in Ports : t.config[p] \in Seq(Range(nodes))
    BY <2>13, HeldPorts
  <2>15. Nodes' = Range(nodes)
    BY <2>2 DEF Nodes
  <2>16. ArePortsFor(ports', cluster'.nodes, drift', edits', cfg'.ports)
    BY <1>1, <2>2, <2>3, <2>13 DEF t
  <2> QED BY <2>14, <2>15, <2>16 DEF PortsHold, t
<1> QED BY <1>2, <1>3

LEMMA PortsByClusterEdit == Configured /\ Built /\ PortsHold /\ ClusterEditChangesetSimple => PortsHold'
<1> SUFFICES ASSUME Configured, Built, PortsHold, ClusterEditChangesetSimple PROVE PortsHold'
  OBVIOUS
<1>1. /\ phase = "created" /\ phase' = phase /\ cfg' = cfg /\ cluster' = cluster /\ edits' = edits + 1
      /\ edits \in 0 .. MaxEdits
  BY DEF ClusterEditChangesetSimple, Edits, Keeps, Configured
<1>2. MaxEdits \in Nat
  BY ConfigAssumption
<1>3. edits' # 0
  BY <1>1, <1>2
<1>4. phase \in MadePhases
  BY <1>1 DEF MadePhases
<1> DEFINE nodes == cluster.nodes
           listing == Listing
           st == ports
           t == ports'
<1>5. nodes \in Seq(AllNodes) /\ ArePortsFor(st, nodes, drift, edits, cfg.ports)
  BY <1>4, BuiltNodes DEF PortsHold
<1>6. listing \in Seq(AllNodes) /\ Range(listing) = Range(nodes)
  BY <1>5, ReversedIs DEF Listing
<1>7. st \in PortStates(Range(nodes)) /\ (~drift /\ (\E n \in Range(nodes) : n.role = "server") => InSync(st))
  BY <1>5 DEF ArePortsFor
<1> HIDE DEF nodes, listing, st, t
<1>8. t \in PortStates(Range(nodes)) /\ (~drift' /\ (\E n \in Range(nodes) : n.role = "server") => InSync(t))
  <2>1. PICK options \in Changes :
          \/ t \in TransformPorts(listing, TRUE, st, options) /\ drift' = (drift \/ \E p \in Range(options) : p.removal)
          \/ t = st /\ drift' = drift
    BY Zenon DEF ClusterEditChangesetSimple, listing, st, t
  <2>2. CASE t = st /\ drift' = drift
    BY <1>7, <2>2
  <2>3. CASE t \in TransformPorts(listing, TRUE, st, options) /\ drift' = (drift \/ \E p \in Range(options) : p.removal)
    <3>1. ArePorts(options) /\ \A p \in Range(options) : p.removal \in BOOLEAN
      BY ConfigAssumption
    <3>2. /\ Len(options) \in Nat /\ DOMAIN options = 1 .. Len(options)
          /\ \A i \in 1 .. Len(options) : options[i] \in Range(options)
      BY <3>1, Listed DEF ArePorts
    <3>3. \A i \in 1 .. Len(options) : IsPort(options[i])
      BY <3>1, <3>2 DEF ArePorts, IsPort, Mappings
    <3> DEFINE hasLb == TRUE
    <3> HIDE DEF hasLb
    <3>4. t \in TransformPorts(listing, hasLb, st, options)
      BY <2>3 DEF hasLb
    <3>5. st \in PortStates(Range(listing))
      BY <1>6, <1>7
    <3>6. /\ t \in PortStates(Range(listing))
          /\ (\A i \in 1 .. Len(options) : ~options[i].removal) => Grows(Range(listing), st, t)
      BY <1>6, <3>2, <3>3, <3>4, <3>5, TransformPortsIs
    <3>7. ASSUME ~drift' PROVE ~drift /\ Grows(Range(nodes), st, t)
      <4>1. ~drift /\ \A p \in Range(options) : ~p.removal
        BY <2>3, <3>7, Zenon
      <4>2. \A i \in 1 .. Len(options) : ~options[i].removal
        BY <3>2, <4>1, Zenon
      <4> QED BY <1>6, <3>6, <4>1, <4>2
    <3>8. ASSUME ~drift', \E n \in Range(nodes) : n.role = "server" PROVE InSync(t)
      BY <1>7, <3>7, <3>8 DEF Grows
    <3> QED BY <1>6, <3>6, <3>8
  <2> QED BY <2>1, <2>2, <2>3
<1>9. ArePortsFor(t, nodes, drift', edits', cfg.ports)
  BY <1>3, <1>8 DEF ArePortsFor
<1>10. t.published \in Bindings /\ \A p \in Ports : t.config[p] \in Seq(Range(nodes))
  BY <1>9, HeldPorts
<1> QED BY <1>1, <1>9, <1>10 DEF PortsHold, Nodes, t, nodes

LEMMA PortsByNodeEdit == Configured /\ Built /\ PortsHold /\ NodeEdit => PortsHold'
<1> SUFFICES ASSUME Configured, Built, PortsHold, NodeEdit PROVE PortsHold'
  OBVIOUS
<1>1. /\ phase = "created" /\ phase' = phase /\ cfg' = cfg /\ cluster' = cluster /\ edits' = edits + 1
      /\ edits \in 0 .. MaxEdits
  BY DEF NodeEdit, Edits, Keeps, Configured
<1>2. MaxEdits \in Nat
  BY ConfigAssumption
<1>3. edits' # 0
  BY <1>1, <1>2
<1>4. phase \in MadePhases
  BY <1>1 DEF MadePhases
<1> DEFINE nodes == cluster.nodes
           N == Range(nodes)
           st == ports
           t == ports'
<1>5. nodes \in Seq(AllNodes) /\ ArePortsFor(st, nodes, drift, edits, cfg.ports)
  BY <1>4, BuiltNodes DEF PortsHold
<1>6. st \in PortStates(N) /\ (~drift /\ (\E n \in N : n.role = "server") => InSync(st))
  BY <1>5 DEF ArePortsFor
<1>7. t \in PortStates(N) /\ (~drift' /\ (\E n \in N : n.role = "server") => InSync(t))
  <2>1. CASE t = st
    <3>1. drift' = drift
      BY <2>1 DEF NodeEdit
    <3> QED BY <1>6, <2>1, <3>1
  <2>2. CASE t # st
    <3>1. PICK options \in Changes :
            LET maps == FlattenSeq([i \in DOMAIN options |-> options[i].maps])
                published == EditBindings(ports.published, maps, options[1].removal)
            IN  t = [ports EXCEPT !.published = published, !.config = GeneratedConfig(published)]
      BY <2>2, Zenon DEF NodeEdit
    <3> DEFINE maps == FlattenSeq([i \in DOMAIN options |-> options[i].maps])
               f == st.published
               pub == EditBindings(f, maps, options[1].removal)
               conf == GeneratedConfig(pub)
               servers == Group(Listing, "server")
               K == Configs(N)
    <3>2. t = [st EXCEPT !.published = pub, !.config = conf]
      BY <3>1, Zenon
    <3>3. f \in Bindings
      BY DEF PortsHold
    <3>4. pub \in Bindings
      <4> HIDE DEF f
      <4> QED BY <3>3, EditBindingsIs
    <3>5. servers \in Seq(N \ {Lb}) /\ ((\E n \in N : n.role = "server") => servers # <<>>)
      <4> DEFINE l == Listing
      <4>1. l \in Seq(AllNodes) /\ Range(l) = N
        BY <1>5, ReversedIs DEF Listing
      <4> HIDE DEF l
      <4>2. LET s == Group(l, "server")
            IN  s \in Seq(Range(l) \ {Lb}) /\ ((\E n \in Range(l) : n.role = "server") => s # <<>>)
        BY <4>1, ServersOf
      <4> QED BY <4>1, <4>2 DEF l
    <3>6. conf = [p \in Ports |-> IF pub[p] = <<>> THEN <<>> ELSE servers]
      BY DEF GeneratedConfig
    <3> HIDE DEF f, pub, conf, servers, N, st, t
    <3>7. conf \in K
      <4>1. <<>> \in Seq(N \ {Lb})
        OBVIOUS
      <4> QED BY <3>5, <3>6, <4>1 DEF Configs
    <3> HIDE DEF K
    <3>8. t \in PortStates(N) /\ t.published = pub /\ t.config = conf
      <4>1. st \in [published : Bindings, config : K, direct : [N -> Bindings]]
        BY <1>6 DEF PortStates, K
      <4> DEFINE D == [N -> Bindings]
      <4> HIDE DEF D
      <4>2. st \in [published : Bindings, config : K, direct : D]
        BY <4>1 DEF D
      <4>3. t \in [published : Bindings, config : K, direct : D] /\ t.published = pub /\ t.config = conf
        BY <3>2, <3>4, <3>7, <4>2
      <4> QED BY <4>3 DEF PortStates, K, D
    <3>9. ASSUME \E n \in N : n.role = "server" PROVE InSync(t)
      <4>1. servers # <<>>
        BY <3>5, <3>9
      <4>2. \A p \in Ports : pub[p] = <<>> <=> conf[p] = <<>>
        BY <3>6, <4>1
      <4> QED BY <3>8, <4>2 DEF InSync
    <3> QED BY <3>8, <3>9
  <2> QED BY <2>1, <2>2
<1>9. ArePortsFor(t, nodes, drift', edits', cfg.ports)
  BY <1>3, <1>7 DEF ArePortsFor
<1>10. t.published \in Bindings /\ \A p \in Ports : t.config[p] \in Seq(Range(nodes))
  <2> HIDE DEF t, nodes
  <2> QED BY <1>9, HeldPorts
<1> QED BY <1>1, <1>9, <1>10 DEF PortsHold, Nodes

LEMMA PortsByOthers ==
  /\ PortsHold /\ Configured /\ Built /\ Built'
  /\ ReadConfig \/ ApplyCLIOverrides \/ ProcessSimpleConfig \/ ProcessClusterConfig \/ ValidateClusterConfig
       \/ CreateCluster \/ UNCHANGED vars
  => PortsHold'
<1> SUFFICES ASSUME PortsHold, Configured, Built, Built',
                    ReadConfig \/ ApplyCLIOverrides \/ ProcessSimpleConfig \/ ProcessClusterConfig \/ ValidateClusterConfig
                      \/ CreateCluster \/ UNCHANGED vars
             PROVE  PortsHold'
  OBVIOUS
<1>1. ports' = ports /\ drift' = drift /\ edits' = edits
  BY Zenon DEF ReadConfig, ApplyCLIOverrides, ProcessSimpleConfig, ProcessClusterConfig, ValidateClusterConfig, CreateCluster, Fatal, vars
<1>2. CASE ReadConfig \/ ApplyCLIOverrides \/ ProcessSimpleConfig
  <2>1. phase' \notin MadePhases /\ cluster' = cluster
    BY <1>2 DEF ReadConfig, ApplyCLIOverrides, ProcessSimpleConfig, Goto, Fatal, MadePhases
  <2> QED BY <1>1, <2>1 DEF PortsHold, Nodes
<1>3. CASE ProcessClusterConfig
  <2>1. phase = "cluster" /\ phase' = "processed" /\ cfg' = cfg
    BY <1>3 DEF ProcessClusterConfig, Goto
  <2>2. cluster.nodes = NodesOf(cfg) /\ cluster'.nodes = NodesOf(cfg')
    BY <2>1 DEF Built, MadePhases, IsBuilt
  <2>3. cluster'.nodes = cluster.nodes
    BY <2>1, <2>2
  <2> QED BY <1>1, <2>1, <2>3 DEF PortsHold, Nodes, MadePhases
<1>4. CASE ValidateClusterConfig \/ CreateCluster \/ UNCHANGED vars
  <2>1. cluster' = cluster /\ cfg' = cfg /\ (phase' \in MadePhases => phase \in MadePhases)
    BY <1>4, Zenon DEF ValidateClusterConfig, CreateCluster, vars, MadePhases
  <2> QED BY <1>1, <2>1 DEF PortsHold, Nodes
<1> QED BY <1>2, <1>3, <1>4

\* The ports are in sync unless a removal has left traces, and until the first edit every
\* port option is served by the nodes it is for.
THEOREM PortsAlwaysHold == Spec => []PortsHold
<1>1. Configured /\ Built /\ Built' /\ PortsHold /\ [Next]_vars => PortsHold'
  BY PortsByTransform, PortsByClusterEdit, PortsByNodeEdit, PortsByOthers DEF Next
<1> QED BY PortsAtFirst, <1>1, ConfigurationHolds, BuiltHolds, PTL DEF Spec

-----------------------------------------------------------------------------
(* What the invariants say of the cluster that is made *)

LEMMA MadeIs == Made <=> phase \in MadePhases
BY DEF Made, MadePhases

\* TypeOK: among others, the nodes are all different and what they hold is known of each.
THEOREM ConfigTypes == Spec => []TypeOK
<1>1. Configured /\ Built /\ PortsHold => TypeOK
  <2> SUFFICES ASSUME Configured, Built, PortsHold PROVE TypeOK
    OBVIOUS
  <2>1. /\ phase \in {"start", "read", "merged", "simple", "cluster", "processed", "valid", "created", "failed"}
        /\ edits \in 0 .. MaxEdits /\ drift \in BOOLEAN
    BY DEF Configured, Phases
  <2>2. ASSUME NEW p \in Ports PROVE ports.published[p] \in Seq(Nat) /\ ports.config[p] \in Seq(Nodes)
    BY DEF PortsHold, Bindings
  <2>3. ASSUME Made
        PROVE  /\ Cardinality(Nodes) = Len(cluster.nodes) /\ cluster.lb = (Lb \in Nodes)
               /\ DOMAIN cluster.held = Nodes /\ DOMAIN cluster.mounts = Nodes /\ DOMAIN ports.direct = Nodes
               /\ cluster.apiPort \in Nat \ {Unset}
    <3>1. phase \in MadePhases
      BY <2>3, MadeIs
    <3>2. cluster.nodes = NodesOf(cfg) /\ Counted(cfg)
      BY <3>1, BuiltNodes
    <3>3. Nodes = Range(NodesOf(cfg))
      BY <3>2 DEF Nodes
    <3>4. Cardinality(Nodes) = Len(cluster.nodes) /\ (Lb \in Nodes <=> ~cfg.noLb)
      BY <3>2, <3>3, NodesDiffer
    <3>5. IsBuilt(cluster, cfg)
      BY <3>1 DEF Built
    <3>6. cluster.lb = (Lb \in Nodes)
      <4>1. (cluster.lb <=> ~cfg.noLb) /\ cluster.lb \in BOOLEAN
        BY <3>5, Zenon DEF IsBuilt
      <4>2. CASE Lb \in Nodes
        <5>1. cluster.lb = TRUE /\ (Lb \in Nodes) = TRUE
          BY <3>4, <4>1, <4>2, Zenon
        <5> QED BY <5>1, Zenon
      <4>3. CASE Lb \notin Nodes
        <5>1. ~cluster.lb
          BY <3>4, <4>1, <4>3, Zenon
        <5>2. cluster.lb = FALSE
          BY <4>1, <5>1, Zenon
        <5>3. (Lb \in Nodes) = FALSE
          BY <4>3
        <5> QED BY <5>2, <5>3, Zenon
      <4> QED BY <4>2, <4>3
    <3>7. DOMAIN cluster.mounts = Nodes /\ cluster.apiPort \in Nat \ {Unset}
      BY <3>3, <3>5 DEF IsBuilt
    <3>8. DOMAIN cluster.held = Nodes
      <4>1. cluster.held = HeldBy(cfg.options, NodesOf(cfg))
        BY <3>5 DEF IsBuilt
      <4>2. DOMAIN HeldBy(cfg.options, NodesOf(cfg)) = Range(NodesOf(cfg))
        BY Zenon DEF HeldBy
      <4> QED BY <3>3, <4>1, <4>2
    <3>9. DOMAIN ports.direct = Nodes
      <4> DEFINE N == Nodes
                 K == Configs(N)
      <4>1. ports \in [published : Bindings, config : K, direct : [N -> Bindings]]
        BY <3>1 DEF PortsHold, ArePortsFor, PortStates, Nodes
      <4> HIDE DEF N, K
      <4>2. ports.direct \in [N -> Bindings]
        BY <4>1
      <4> QED BY <4>2 DEF N
    <3> QED BY <3>4, <3>6, <3>7, <3>8, <3>9
  <2> QED BY <2>1, <2>2, <2>3 DEF TypeOK
<1> QED BY <1>1, ConfigurationHolds, BuiltHolds, PortsAlwaysHold, PTL

\* PortsInSync: the load balancer forwards what is published and publishes what it forwards,
\* whatever the options and however many edits, unless a removal has left traces.
THEOREM PortsStayInSync == Spec => []PortsInSync
<1>1. PortsHold => PortsInSync
  <2> SUFFICES ASSUME PortsHold, Made, ~drift, \E n \in Nodes : n.role = "server" PROVE InSync(ports)
    BY DEF PortsInSync, InSync
  <2>1. ArePortsFor(ports, cluster.nodes, drift, edits, cfg.ports)
    BY MadeIs DEF PortsHold
  <2> QED BY <2>1 DEF ArePortsFor, Nodes
<1> QED BY <1>1, PortsAlwaysHold, PTL

\* A node of the cluster that a filter names is among those it chooses.
LEMMA NamedIsChosen ==
  ASSUME NEW c, Counted(c), NEW p, IsPort(p), NEW f \in Range(TargetFilters(NodesOf(c), p)), FilterNodes(NodesOf(c), <<Bare(f)>>) # {},
         NEW n \in Range(NodesOf(c)), Names(f, n)
  PROVE  n \in Range(Chosen(NodesOf(c), f))
<1> DEFINE nodes == NodesOf(c)
           b == Bare(f)
           one == <<b>>
           l == Chosen(nodes, f)
<1>1. nodes \in Seq(AllNodes)
  BY NodesAre
<1>2. f \in Filters
  <2> DEFINE s == TargetFilters(nodes, p)
  <2>1. s \in Seq(Filters)
    BY TargetsTyped
  <2> HIDE DEF s
  <2>2. Range(s) \subseteq Filters
    BY <2>1, RangeIs
  <2> QED BY <2>2 DEF s
<1>3. b \in Filters /\ one \in Seq(Filters) /\ b.group = f.group /\ b.subset = f.subset
  BY <1>2, BareIs
<1>4. Names(b, n)
  BY <1>3 DEF Names
<1>5. b # Blank
  <2>1. f.group = "all" \/ f.group = n.role
    BY DEF Names
  <2>2. n.role \in {"loadbalancer", "server", "agent"}
    BY NodeIs
  <2>3. Blank.group = ""
    BY DEF Blank, Filter
  <2> QED BY <1>3, <2>1, <2>2, <2>3
<1>6. DOMAIN one = {1} /\ one[1] = b /\ one # <<>> /\ Range(one) = {b}
  BY DEF Range
<1> HIDE DEF b, one
<1>7. ~Unfiltered(one) /\ OneByOne(one)
  BY <1>5, <1>6 DEF Unfiltered, OneByOne
<1>8. l \in FilterNodes(nodes, one)
  BY DEF Chosen, one, b
<1> HIDE DEF l, nodes
<1>9. ~IsError(nodes, b) /\ Selected(nodes, b) \subseteq Range(l)
  BY <1>1, <1>3, <1>6, <1>7, <1>8, FilterNodesIs
<1>10. n \in Selected(nodes, b)
  BY <1>3, <1>4, <1>9, SelectedIsNamed DEF nodes
<1> QED BY <1>9, <1>10 DEF l, nodes

\* PortsReachNodes: the load balancer forwards to nodes of its own cluster and never to itself,
\* and in a new cluster each node that a filter of a port option names serves the option's
\* mappings: it publishes them itself, or the load balancer does and forwards them to it.
THEOREM PublishedPortsReachNodes == Spec => []PortsReachNodes
<1>1. Configured /\ Built /\ PortsHold => PortsReachNodes
  <2> SUFFICES ASSUME Configured, Built, PortsHold, Made
               PROVE  /\ \A p \in Ports : Range(ports.config[p]) \subseteq K3sNodes
                      /\ edits = 0 =>
                           \A o \in Range(cfg.ports) : \A f \in Range(TargetFilters(cluster.nodes, o)) :
                             f.suffix # "all" =>
                               \A n \in Nodes, m \in Range(o.maps) : Names(f, n) => Serves(ports, n, m, f.suffix)
    BY Zenon DEF PortsReachNodes, BackendsAreNodes, PortsServed
  <2>1. phase \in MadePhases /\ ArePortsFor(ports, cluster.nodes, drift, edits, cfg.ports)
    BY MadeIs DEF PortsHold
  <2>2. cluster.nodes = NodesOf(cfg) /\ Counted(cfg) /\ phase \in Named
    BY <2>1, BuiltNodes
  <2>3. ASSUME NEW p \in Ports PROVE Range(ports.config[p]) \subseteq K3sNodes
    <3> DEFINE K == Configs(Nodes)
               D == [Nodes -> Bindings]
    <3>1. ports \in [published : Bindings, config : K, direct : D]
      BY <2>1 DEF ArePortsFor, PortStates, Nodes
    <3> HIDE DEF K, D
    <3>2. ports.config \in K
      BY <3>1
    <3>3. ports.config[p] \in Seq(Nodes \ {Lb})
      BY <3>2 DEF K, Configs
    <3> DEFINE s == ports.config[p]
               B == Nodes \ {Lb}
    <3>4. s \in Seq(B)
      BY <3>3
    <3>5. B = K3sNodes
      BY DEF K3sNodes
    <3> HIDE DEF s, B
    <3>6. Range(s) \subseteq B
      BY <3>4, RangeIs
    <3> QED BY <3>5, <3>6 DEF s
  <2>4. ASSUME edits = 0, NEW o \in Range(cfg.ports), NEW f \in Range(TargetFilters(cluster.nodes, o)),
               f.suffix # "all", NEW n \in Nodes, NEW m \in Range(o.maps), Names(f, n)
        PROVE  Serves(ports, n, m, f.suffix)
    <3>1. IsPort(o)
      BY <2>2 DEF Configured, ArePortsOf
    <3>2. /\ FilterNodes(cluster.nodes, <<Bare(f)>>) # {}
          /\ Carries(ports, o, f.suffix, Range(Chosen(cluster.nodes, f)))
      <4>1. IsServed(cluster.nodes, ports, o)
        BY <2>1, <2>4 DEF ArePortsFor
      <4> QED BY <2>4, <4>1, Zenon DEF IsServed
    <3>3. n \in Range(Chosen(cluster.nodes, f))
      <4>1. n \in Range(NodesOf(cfg))
        BY <2>2, Zenon DEF Nodes
      <4> QED BY <2>2, <2>4, <3>1, <3>2, <4>1, NamedIsChosen
    <3>4. \E i \in 1 .. Len(o.maps) : m = o.maps[i]
      <4>1. o.maps \in Seq(Mappings)
        BY <3>1 DEF IsPort
      <4> QED BY <4>1, RangeIs
    <3> QED BY <3>2, <3>3, <3>4 DEF Carries
  <2> QED BY <2>3, <2>4
<1> QED BY <1>1, ConfigurationHolds, BuiltHolds, PortsAlwaysHold, PTL

-----------------------------------------------------------------------------
(* The options that a node is given *)

Reached(nodes, o, n) == \E l \in FilterNodes(nodes, o.filters) : n \in Range(l)
From(options, nodes, n, s) ==
  \A x : x \in Range(s) <=> \E o \in Range(options) : x = o.what /\ Reached(nodes, o, n)

\* Of two lists of options that are joined a node is given those of the first, then those of the second.
InTwo(own, given, nodes, n) ==
  \E X : \E a, b \in Seq(X) :
    GivenBy(own \o given, nodes, n) = a \o b /\ From(own, nodes, n, a) /\ From(given, nodes, n, b)

LEMMA GivenInTwo ==
  ASSUME NEW own, NEW given, IsList(own), IsList(given), NEW nodes, NEW n
  PROVE  InTwo(own, given, nodes, n)
<1> DEFINE options == own \o given
           N == Len(options)
           m == Len(own)
           X == {o.what : o \in Range(options)}
           part(o) == IF Reached(nodes, o, n) THEN <<o.what>> ELSE <<>>
           parts == [i \in DOMAIN options |-> part(options[i])]
<1>1. /\ IsList(options) /\ N = m + Len(given) /\ m \in Nat /\ Len(given) \in Nat /\ N \in Nat
      /\ \A i \in 1 .. m : options[i] = own[i]
      /\ \A i \in 1 .. Len(given) : options[m + i] = given[i]
  BY Listed, ListsJoined
<1>2. GivenBy(options, nodes, n) = FlattenSeq(parts)
  BY Zenon DEF GivenBy, Reached
<1>3. /\ \A x \in Range(own) : \E i \in 1 .. m : x = own[i]
      /\ \A i \in 1 .. m : own[i] \in Range(own)
      /\ \A x \in Range(given) : \E i \in 1 .. Len(given) : x = given[i]
      /\ \A i \in 1 .. Len(given) : given[i] \in Range(given)
  BY Listed
<1> HIDE DEF options
<1>4. DOMAIN options = 1 .. N /\ \A i \in 1 .. N : options[i] \in Range(options)
  BY <1>1, Listed
<1>5. \A i \in 1 .. N : options[i].what \in X
  BY <1>4
<1> HIDE DEF X
<1>6. parts = [i \in 1 .. N |-> parts[i]] /\ \A i \in 1 .. N : parts[i] = part(options[i])
  BY <1>4
<1> HIDE DEF parts
<1>7. ASSUME NEW i \in 1 .. N
      PROVE  parts[i] \in Seq(X) /\ Range(parts[i]) = IF Reached(nodes, options[i], n) THEN {options[i].what} ELSE {}
  <2> DEFINE x == options[i].what
             s == parts[i]
  <2>1. x \in X /\ s = IF Reached(nodes, options[i], n) THEN <<x>> ELSE <<>>
    BY <1>5, <1>6
  <2> HIDE DEF x, s
  <2>2. CASE Reached(nodes, options[i], n)
    <3>1. s = <<x>>
      BY <2>1, <2>2
    <3>2. s \in Seq(X) /\ Range(s) = {x}
      BY <2>1, <3>1 DEF Range
    <3> QED BY <2>2, <3>2 DEF s, x
  <2>3. CASE ~Reached(nodes, options[i], n)
    <3>1. s = <<>>
      BY <2>1, <2>3
    <3>2. s \in Seq(X) /\ Range(s) = {}
      BY <3>1 DEF Range
    <3> QED BY <2>3, <3>2 DEF s
  <2> QED BY <2>2, <2>3
<1> HIDE DEF N, m, part
<1>8. parts \in Seq(Seq(X)) /\ Len(parts) = N
  BY <1>1, <1>6, <1>7, IsSeq
<1>9. m \in 0 .. Len(parts)
  BY <1>1, <1>8
<1>10. Splits(X, parts, m)
  BY <1>8, <1>9, FlattenSplit
<1>11. PICK a \in Seq(X), b \in Seq(X) :
         /\ FlattenSeq(parts) = a \o b
         /\ Range(a) = UNION {Range(parts[i]) : i \in 1 .. m}
         /\ Range(b) = UNION {Range(parts[i]) : i \in m + 1 .. Len(parts)}
  BY <1>10, Zenon DEF Splits
<1>12. From(own, nodes, n, a)
  <2>1. ASSUME NEW x \in Range(a) PROVE \E o \in Range(own) : x = o.what /\ Reached(nodes, o, n)
    <3>1. PICK i \in 1 .. m : x \in Range(parts[i])
      BY <1>11
    <3>2. i \in 1 .. N
      BY <1>1
    <3>3. x = own[i].what /\ Reached(nodes, own[i], n)
      BY <1>1, <1>7, <3>1, <3>2
    <3> QED BY <1>3, <3>3
  <2>2. ASSUME NEW o \in Range(own), Reached(nodes, o, n) PROVE o.what \in Range(a)
    <3>1. PICK i \in 1 .. m : o = own[i]
      BY <1>3
    <3>2. i \in 1 .. N
      BY <1>1
    <3>3. o.what \in Range(parts[i])
      BY <1>1, <1>7, <2>2, <3>1, <3>2
    <3> QED BY <1>11, <3>3
  <2> QED BY <2>1, <2>2 DEF From
<1>13. From(given, nodes, n, b)
  <2>1. ASSUME NEW x \in Range(b) PROVE \E o \in Range(given) : x = o.what /\ Reached(nodes, o, n)
    <3>1. PICK i \in m + 1 .. Len(parts) : x \in Range(parts[i])
      BY <1>11
    <3> DEFINE j == i - m
    <3>2. i \in 1 .. N /\ j \in 1 .. Len(given) /\ m + j = i
      BY <1>1, <1>8
    <3>3. options[i] = given[j]
      BY <1>1, <3>2
    <3> HIDE DEF j
    <3>4. x = given[j].what /\ Reached(nodes, given[j], n)
      BY <1>7, <3>1, <3>2, <3>3
    <3> QED BY <1>3, <3>2, <3>4
  <2>2. ASSUME NEW o \in Range(given), Reached(nodes, o, n) PROVE o.what \in Range(b)
    <3>1. PICK j \in 1 .. Len(given) : o = given[j]
      BY <1>3
    <3>2. m + j \in 1 .. N /\ m + j \in m + 1 .. Len(parts) /\ options[m + j] = given[j]
      BY <1>1, <1>8
    <3>3. o.what \in Range(parts[m + j])
      BY <1>7, <2>2, <3>1, <3>2
    <3> QED BY <1>11, <3>2, <3>3
  <2> QED BY <2>1, <2>2 DEF From
<1>14. GivenBy(own \o given, nodes, n) = a \o b
  BY <1>2, <1>11 DEF options
<1> QED BY <1>12, <1>13, <1>14, Zenon DEF InTwo

\* What a node holds of them: each is one of those it is given, the path of a volume perhaps
\* replaced; and each that it is given it holds, of a map at least one with the same key.
LastOfEach(g) == {g[i] : i \in {i \in DOMAIN g : \A j \in DOMAIN g : j > i => g[j].key # g[i].key}}

LEMMA HeldIsGiven ==
  ASSUME Made, Configured, Built, NEW k \in Kinds, NEW n \in Nodes,
         NEW X, NEW g \in Seq(X), g = GivenBy(cfg.options[k], NodesOf(cfg), n)
  PROVE  /\ \A x \in Holds(n, k) : \E y \in Range(g) : Same(k, y, x)
         /\ k \notin Maps => \A y \in Range(g) : \E x \in Holds(n, k) : Same(k, y, x)
         /\ k \in Maps => Holds(n, k) = LastOfEach(g)
<1> DEFINE nodes == NodesOf(cfg)
<1>1. IsBuilt(cluster, cfg) /\ Nodes = Range(nodes)
  BY MadeIs, BuiltNodes DEF Built, Nodes
<1>2. \A y : y \in Range(g) <=> \E i \in DOMAIN g : y = g[i]
  BY DEF Range
<1>3. CASE k = "volume"
  <2> DEFINE mounts == cluster.mounts[n]
  <2>1. AreMounted(mounts, g)
    BY <1>1, <1>3 DEF IsBuilt
  <2>2. Holds(n, k) = Range(mounts)
    BY <1>3 DEF Holds
  <2> HIDE DEF mounts
  <2>3. /\ DOMAIN mounts = DOMAIN g
        /\ \A i \in DOMAIN g : Same(k, g[i], mounts[i])
    BY <1>3, <2>1 DEF AreMounted, Same
  <2>4. \A x : x \in Range(mounts) <=> \E i \in DOMAIN mounts : x = mounts[i]
    BY DEF Range
  <2>5. k \notin Maps
    BY <1>3 DEF Maps
  <2> QED BY <1>2, <2>2, <2>3, <2>4, <2>5
<1>4. CASE k # "volume"
  <2>1. Holds(n, k) = cluster.held[n][k]
    BY <1>4 DEF Holds
  <2>2. cluster.held[n][k] = Held(k, g)
    <3>1. cluster.held = HeldBy(cfg.options, nodes)
      BY <1>1 DEF IsBuilt
    <3>2. n \in Range(nodes) /\ k \in Kinds \ {"volume"}
      BY <1>1, <1>4
    <3> HIDE DEF nodes
    <3>3. HeldBy(cfg.options, nodes)[n][k] = Held(k, GivenBy(cfg.options[k], nodes, n))
      BY <3>2, Zenon DEF HeldBy
    <3> QED BY <3>1, <3>3 DEF nodes
  <2>3. CASE k \in Maps
    <3>1. Holds(n, k) = LastOfEach(g)
      BY <2>1, <2>2, <2>3, Zenon DEF Held, LastOfEach
    <3>2. \A x \in Holds(n, k) : \E i \in DOMAIN g : x = g[i]
      BY <3>1 DEF LastOfEach
    <3>3. \A x \in Holds(n, k) : \E y \in Range(g) : Same(k, y, x)
      BY <1>2, <3>2 DEF Same
    <3> QED BY <2>3, <3>1, <3>3
  <2>4. CASE k \notin Maps
    <3>1. Holds(n, k) = Range(g)
      BY <2>1, <2>2, <2>4 DEF Held
    <3> QED BY <2>4, <3>1 DEF Same
  <2> QED BY <2>3, <2>4
<1> QED BY <1>3, <1>4

\* A node that an option reaches is one that its filters mean.
LEMMA ReachedIsMeant ==
  ASSUME NEW c, Counted(c), NEW o, o.filters \in Seq(Filters), NEW n, Reached(NodesOf(c), o, n)
  PROVE  n \in Meant(NodesOf(c), o.filters)
<1> DEFINE nodes == NodesOf(c)
           fs == o.filters
<1>1. nodes \in Seq(AllNodes)
  BY NodesAre
<1>2. PICK l \in FilterNodes(nodes, fs) : n \in Range(l)
  BY Zenon DEF Reached
<1> HIDE DEF fs
<1>3. fs \in Seq(Filters)
  BY DEF fs
<1>4. n \in Range(nodes)
  <2> HIDE DEF nodes
  <2>1. l \in Seq(Range(nodes))
    BY <1>1, <1>2, <1>3, FilterNodesTyped
  <2> DEFINE N == Range(nodes)
  <2> HIDE DEF N
  <2>2. l \in Seq(N)
    BY <2>1 DEF N
  <2>3. Range(l) \subseteq N
    BY <2>2, RangeIs
  <2> QED BY <1>2, <2>3 DEF N
<1>5. CASE Unfiltered(fs)
  BY <1>4, <1>5 DEF Meant, fs
<1>6. CASE ~Unfiltered(fs)
  <2>1. PICK f \in Range(fs) : ~IsError(nodes, f) /\ n \in Selected(nodes, f)
    <3> HIDE DEF nodes
    <3>1. \A x \in Range(l) : \E f \in Range(fs) : ~IsError(nodes, f) /\ x \in Selected(nodes, f)
      BY <1>1, <1>2, <1>3, <1>6, FilterNodesIs
    <3> QED BY <1>2, <3>1
  <2>2. f \in Filters
    BY <1>3, <2>1, RangeIs
  <2>3. Names(f, n)
    BY <1>4, <2>1, <2>2, SelectedIsNamed
  <2> QED BY <1>4, <1>6, <2>3 DEF Meant, fs
<1> QED BY <1>5, <1>6

\* Without a filter that cuts the others short a node that one of them names is reached.
LEMMA NamedIsReached ==
  ASSUME NEW c, Counted(c), NEW o, o.filters \in Seq(Filters), ~Unfiltered(o.filters), OneByOne(o.filters),
         FilterNodes(NodesOf(c), o.filters) # {}, NEW f \in Range(o.filters), NEW n \in Range(NodesOf(c)), Names(f, n)
  PROVE  Reached(NodesOf(c), o, n)
<1> DEFINE nodes == NodesOf(c)
           fs == o.filters
<1>1. nodes \in Seq(AllNodes)
  BY NodesAre
<1>2. PICK l : l \in FilterNodes(nodes, fs)
  OBVIOUS
<1> HIDE DEF fs
<1>3. fs \in Seq(Filters) /\ ~Unfiltered(fs) /\ OneByOne(fs) /\ f \in Range(fs)
  BY DEF fs
<1>4. ~IsError(nodes, f) /\ Selected(nodes, f) \subseteq Range(l)
  <2> HIDE DEF nodes
  <2> QED BY <1>1, <1>2, <1>3, FilterNodesIs
<1>5. f \in Filters
  BY <1>3, RangeIs
<1>6. n \in Selected(nodes, f)
  BY <1>4, <1>5, SelectedIsNamed
<1> QED BY <1>2, <1>4, <1>6 DEF Reached, fs

\* What the migration has made of filters means the same.
LEMMA SameIsBlank ==
  ASSUME NEW v, NEW f, NEW g, SameFilter(v, f, g)
  PROVE  (f = Blank <=> g = Blank) /\ \A n : Names(f, n) <=> Names(g, n)
<1>1. /\ f \in Filters /\ g \in Filters /\ f.group = g.group /\ f.subset = g.subset /\ f.suffix = g.suffix
      /\ IF v = "v1alpha2" THEN f.bracketed = FALSE ELSE f = g
  BY DEF SameFilter
<1> DEFINE A == Texts(Groups)
           B == Subsets
           C == Texts({NoSuffix, "proxy", "direct"})
<1> HIDE DEF A, B, C
<1>2. \A h \in Filters : /\ h = [group |-> h.group, subset |-> h.subset, suffix |-> h.suffix, bracketed |-> h.bracketed]
                         /\ h.subset = None => ~h.bracketed
                         /\ h.bracketed \in BOOLEAN
  <2>1. \A h \in Filters : h \in [group : A, subset : B, suffix : C, bracketed : BOOLEAN] /\ (h.bracketed => h.subset # None)
    BY DEF Filters, A, B, C
  <2> QED BY <2>1
<1>3. Blank = [group |-> "", subset |-> None, suffix |-> NoSuffix, bracketed |-> FALSE]
  BY DEF Blank, Filter
<1>4. f = Blank <=> g = Blank
  <2>1. CASE v = "v1alpha2"
    <3>1. f.bracketed = FALSE
      BY <1>1, <2>1
    <3>2. ASSUME g = Blank PROVE f = Blank
      <4>1. f.group = "" /\ f.subset = None /\ f.suffix = NoSuffix
        BY <1>1, <1>3, <3>2
      <4> QED BY <1>1, <1>2, <1>3, <3>1, <4>1
    <3>3. ASSUME f = Blank PROVE g = Blank
      <4>1. g.group = "" /\ g.subset = None /\ g.suffix = NoSuffix
        BY <1>1, <1>3, <3>3
      <4>2. g.bracketed = FALSE
        <5>1. ~g.bracketed /\ g.bracketed \in BOOLEAN
          BY <1>1, <1>2, <4>1
        <5> QED BY <5>1, Zenon
      <4> QED BY <1>1, <1>2, <1>3, <4>1, <4>2
    <3> QED BY <3>2, <3>3
  <2>2. CASE v # "v1alpha2"
    BY <1>1, <2>2
  <2> QED BY <2>1, <2>2
<1>5. \A n : Names(f, n) <=> Names(g, n)
  BY <1>1 DEF Names
<1> QED BY <1>4, <1>5

LEMMA AlikeMean ==
  ASSUME NEW v, NEW fs, NEW gs, Alike(v, fs, gs)
  PROVE  /\ Unfiltered(fs) <=> Unfiltered(gs)
         /\ \A n : (\E f \in Range(fs) : Names(f, n)) <=> (\E g \in Range(gs) : Names(g, n))
         /\ OneByOne(gs) => OneByOne(fs)
<1>1. /\ fs \in Seq(Filters) /\ gs \in Seq(Filters) /\ Len(fs) = Len(gs)
      /\ \A i \in 1 .. Len(fs) : SameFilter(v, fs[i], gs[i])
  BY DEF Alike
<1>2. \A i \in 1 .. Len(fs) : (fs[i] = Blank <=> gs[i] = Blank) /\ \A n : Names(fs[i], n) <=> Names(gs[i], n)
  BY <1>1, SameIsBlank
<1>3. DOMAIN fs = 1 .. Len(fs) /\ DOMAIN gs = 1 .. Len(fs) /\ Len(fs) \in Nat
  BY <1>1
<1>4. Unfiltered(fs) <=> Unfiltered(gs)
  <2>1. CASE Len(fs) = 0
    <3>1. \A s \in Seq(Filters) : Len(s) = 0 => s = <<>>
      OBVIOUS
    <3>2. Len(gs) = 0
      BY <1>1, <2>1
    <3>3. fs = <<>> /\ gs = <<>>
      BY <1>1, <2>1, <3>1, <3>2
    <3> QED BY <3>3 DEF Unfiltered
  <2>2. CASE Len(fs) # 0
    <3>1. fs # <<>> /\ gs # <<>> /\ 1 \in 1 .. Len(fs)
      BY <1>1, <1>3, <2>2
    <3> QED BY <1>2, <3>1 DEF Unfiltered
  <2> QED BY <2>1, <2>2
<1>5. \A n : (\E f \in Range(fs) : Names(f, n)) <=> (\E g \in Range(gs) : Names(g, n))
  <2>1. (\A f : f \in Range(fs) <=> \E i \in 1 .. Len(fs) : f = fs[i]) /\ (\A g : g \in Range(gs) <=> \E i \in 1 .. Len(fs) : g = gs[i])
    BY <1>3 DEF Range
  <2> QED BY <1>2, <2>1
<1>6. ASSUME OneByOne(gs) PROVE OneByOne(fs)
  <2>1. \A i \in 1 .. Len(fs) : fs[i].group = gs[i].group
    BY <1>1 DEF SameFilter
  <2>2. CASE \A i \in 1 .. Len(fs) : gs[i].group \in {"server", "agent"}
    BY <1>3, <2>1, <2>2 DEF OneByOne
  <2>3. CASE \A i, j \in 1 .. Len(fs) : gs[i] = gs[j]
    <3>1. ASSUME NEW i \in 1 .. Len(fs), NEW j \in 1 .. Len(fs) PROVE fs[i] = fs[j]
      <4> DEFINE f == fs[i]
                 h == fs[j]
                 g == gs[i]
      <4>1. SameFilter(v, f, g) /\ SameFilter(v, h, g)
        BY <1>1, <2>3
      <4> HIDE DEF f, h, g
      <4>2. f \in Filters /\ h \in Filters /\ f.group = h.group /\ f.subset = h.subset /\ f.suffix = h.suffix
        BY <4>1 DEF SameFilter
      <4>3. f.bracketed = h.bracketed
        BY <4>1 DEF SameFilter
      <4> DEFINE A == Texts(Groups)
                 B == Subsets
                 C == Texts({NoSuffix, "proxy", "direct"})
      <4> HIDE DEF A, B, C
      <4>4. \A x \in Filters : x \in [group : A, subset : B, suffix : C, bracketed : BOOLEAN]
        BY DEF Filters, A, B, C
      <4>5. f = h
        BY <4>2, <4>3, <4>4
      <4> QED BY <4>5 DEF f, h
    <3> QED BY <1>3, <3>1 DEF OneByOne
  <2> QED BY <1>3, <1>6, <2>2, <2>3 DEF OneByOne
<1> QED BY <1>4, <1>5, <1>6

-----------------------------------------------------------------------------
(* FiltersHold and FlagLabelWins *)

\* What of a flag's option, or of the file's, is behind an option of the configuration.
LEMMA AskedByFlag ==
  ASSUME NEW nodes, NEW n \in Range(nodes), NEW given, NEW asked, AreOptions(asked), IsGiven(given, asked),
         NEW o \in Range(given), n \in Meant(nodes, o.filters)
  PROVE  \E p \in Range(asked) : p.what = o.what /\ n \in Meant(nodes, p.filters)
<1>1. /\ o.filters \in Seq(Filters)
      /\ \E p \in Range(asked) : p.what = o.what
      /\ Range(o.filters) = UNION {Range(p.filters) : p \in {p \in Range(asked) : p.what = o.what}}
      /\ o.filters # <<>> => \E p \in Range(asked) : p.what = o.what /\ p.filters # <<>> /\ p.filters[1] = o.filters[1]
  BY DEF IsGiven
<1>2. \A p \in Range(asked) : p.filters \in Seq(Filters)
  BY DEF AreOptions
<1>3. \A p : Unfiltered(p.filters) => n \in Meant(nodes, p.filters)
  BY DEF Meant
<1>4. CASE o.filters = <<>>
  <2>1. PICK p \in Range(asked) : p.what = o.what
    BY <1>1
  <2> DEFINE fs == p.filters
  <2>2. Range(fs) \subseteq Range(o.filters)
    BY <1>1, <2>1
  <2>3. Range(o.filters) = {}
    BY <1>4 DEF Range
  <2>4. fs \in Seq(Filters)
    BY <1>2
  <2> HIDE DEF fs
  <2>5. fs = <<>>
    BY <2>2, <2>3, <2>4, NotEmpty
  <2> QED BY <1>3, <2>1, <2>5 DEF Unfiltered, fs
<1>5. CASE o.filters # <<>> /\ o.filters[1] = Blank
  <2>1. PICK p \in Range(asked) : p.what = o.what /\ p.filters[1] = Blank
    BY <1>1, <1>5
  <2> QED BY <1>3, <2>1 DEF Unfiltered
<1>6. CASE ~Unfiltered(o.filters)
  <2>1. PICK f \in Range(o.filters) : Names(f, n)
    BY <1>6 DEF Meant
  <2>2. PICK p \in Range(asked) : p.what = o.what /\ f \in Range(p.filters)
    BY <1>1, <2>1
  <2>3. n \in Meant(nodes, p.filters)
    BY <2>1, <2>2 DEF Meant
  <2> QED BY <2>2, <2>3
<1> QED BY <1>4, <1>5, <1>6 DEF Unfiltered

LEMMA AskedInTheFile ==
  ASSUME NEW nodes, NEW n \in Range(nodes), NEW v, NEW own, NEW asked, Stem(v, own, asked, "what"),
         NEW o \in Range(own), n \in Meant(nodes, o.filters)
  PROVE  \E p \in Range(asked) : p.what = o.what /\ n \in Meant(nodes, p.filters)
<1>1. /\ IsList(own) /\ IsList(asked) /\ Len(own) = Len(asked)
      /\ \A i \in 1 .. Len(own) : own[i]["what"] = asked[i]["what"] /\ Alike(v, own[i].filters, asked[i].filters)
  BY DEF Stem
<1>2. PICK i \in 1 .. Len(own) : o = own[i]
  BY <1>1, Listed
<1> DEFINE p == asked[i]
<1>3. p \in Range(asked) /\ p.what = o.what /\ Alike(v, o.filters, p.filters)
  BY <1>1, <1>2, Listed
<1> HIDE DEF p
<1>4. n \in Meant(nodes, p.filters)
  BY <1>3, AlikeMean DEF Meant
<1> QED BY <1>3, <1>4

\* And what of the configuration an option that is asked for becomes.
SeveralFilters(k, o) == UNION {Range(p.filters) : p \in {p \in Asked(k) : p.what = o.what}}

LEMMA FilteredFlagReaches ==
  ASSUME NEW c, Counted(c), NEW k, NEW given, AreOptions(flags.options[k]), IsGiven(given, flags.options[k]),
         \A p \in Range(given) : FilterNodes(NodesOf(c), p.filters) # {},
         NEW o \in Range(flags.options[k]), ~Unfiltered(o.filters), Unambiguous(k, o),
         NEW n \in Meant(NodesOf(c), o.filters)
  PROVE  \E p \in Range(given) : p.what = o.what /\ Reached(NodesOf(c), p, n)
<1> DEFINE S == SeveralFilters(k, o)
           asked == flags.options[k]
<1>1. PICK p \in Range(given) : p.what = o.what
  BY DEF IsGiven
<1>2. /\ p.filters \in Seq(Filters)
      /\ Range(p.filters) = UNION {Range(q.filters) : q \in {q \in Range(asked) : q.what = o.what}}
  <2> HIDE DEF S, asked
  <2>1. IsGiven(given, asked)
    BY DEF asked
  <2>2. /\ p.filters \in Seq(Filters)
        /\ Range(p.filters) = UNION {Range(q.filters) : q \in {q \in Range(asked) : q.what = p.what}}
    BY <2>1 DEF IsGiven
  <2> DEFINE w == p.what
  <2> HIDE DEF w
  <2>3. w = o.what
    BY <1>1 DEF w
  <2>4. Range(p.filters) = UNION {Range(q.filters) : q \in {q \in Range(asked) : q.what = w}}
    BY <2>2 DEF w
  <2> QED BY <2>2, <2>3, <2>4, Zenon
<1>3. PICK f \in Range(o.filters) : Names(f, n)
  BY DEF Meant
<1>4. n \in Range(NodesOf(c)) /\ o.filters \in Seq(Filters)
  BY DEF Meant, AreOptions
<1>5. (\A x \in S : x.group \in {"server", "agent"}) \/ \A x, y \in S : x = y
  BY DEF Unambiguous, SeveralFilters
<1> DEFINE fs == p.filters
           gs == o.filters
<1>6. Range(gs) \subseteq Range(fs) /\ Range(fs) \subseteq S
  BY <1>2 DEF SeveralFilters, Asked
<1> HIDE DEF S, asked, fs, gs
<1>7. /\ fs \in Seq(Filters) /\ gs \in Seq(Filters) /\ f \in Range(gs) /\ ~Unfiltered(gs)
  BY <1>2, <1>3, <1>4 DEF fs, gs
<1>8. DOMAIN fs = 1 .. Len(fs) /\ Len(fs) \in Nat /\ \A i \in 1 .. Len(fs) : fs[i] \in Range(fs)
  BY <1>7, RangeIs
<1>9. DOMAIN gs = 1 .. Len(gs) /\ Len(gs) \in Nat /\ \A i \in 1 .. Len(gs) : gs[i] \in Range(gs)
  BY <1>7, RangeIs
<1>10. OneByOne(fs)
  BY <1>5, <1>6, <1>8 DEF OneByOne
<1>11. ~Unfiltered(fs)
  <2>1. fs # <<>> /\ gs # <<>>
    <3>1. Range(fs) # {} /\ Range(gs) # {}
      BY <1>6, <1>7
    <3> QED BY <1>7, <3>1, NotEmpty
  <2>2. 1 \in 1 .. Len(fs) /\ 1 \in 1 .. Len(gs)
    <3>1. \A s \in Seq(Filters) : s # <<>> => 1 \in 1 .. Len(s)
      OBVIOUS
    <3> QED BY <1>7, <2>1, <3>1
  <2>3. fs[1] \in S /\ gs[1] \in S /\ gs[1] # Blank
    BY <1>6, <1>7, <1>8, <1>9, <2>1, <2>2 DEF Unfiltered
  <2>4. Blank.group \notin {"server", "agent"}
    BY DEF Blank, Filter
  <2>5. fs[1] # Blank
    BY <1>5, <2>3, <2>4
  <2> QED BY <2>1, <2>5 DEF Unfiltered
<1>12. f \in Range(p.filters) /\ FilterNodes(NodesOf(c), p.filters) # {}
  BY <1>1, <1>6, <1>7 DEF fs
<1>13. Reached(NodesOf(c), p, n)
  BY <1>2, <1>3, <1>4, <1>10, <1>11, <1>12, NamedIsReached DEF fs
<1> QED BY <1>1, <1>13

LEMMA FilteredFileReaches ==
  ASSUME NEW c, Counted(c), NEW k \in Kinds, NEW own, Stem(file.version, own, AskedInFile[k], "what"),
         \A p \in Range(own) : FilterNodes(NodesOf(c), p.filters) # {},
         NEW o \in Range(FileOptions(k)), ~Unfiltered(o.filters), Unambiguous(k, o),
         NEW n \in Meant(NodesOf(c), o.filters)
  PROVE  \E p \in Range(own) : p.what = o.what /\ Reached(NodesOf(c), p, n)
<1> DEFINE S == SeveralFilters(k, o)
           asked == AskedInFile[k]
<1>1. asked = FileOptions(k)
  BY DEF AskedInFile
<1>2. (\A x \in S : x.group \in {"server", "agent"}) \/ \A x, y \in S : x = y
  BY DEF Unambiguous, SeveralFilters
<1>3. Range(o.filters) \subseteq S
  BY DEF SeveralFilters, Asked
<1> HIDE DEF S, asked
<1>4. /\ IsList(own) /\ IsList(asked) /\ Len(own) = Len(asked)
      /\ \A i \in 1 .. Len(own) : own[i]["what"] = asked[i]["what"] /\ Alike(file.version, own[i].filters, asked[i].filters)
  BY DEF Stem, asked
<1>5. PICK i \in 1 .. Len(own) : o = asked[i]
  BY <1>1, <1>4, Listed
<1> DEFINE p == own[i]
<1>6. p \in Range(own) /\ p.what = o.what /\ Alike(file.version, p.filters, o.filters)
  BY <1>4, <1>5, Listed
<1> HIDE DEF p
<1>7. p.filters \in Seq(Filters) /\ o.filters \in Seq(Filters)
  BY <1>6 DEF Alike
<1>8. OneByOne(o.filters)
  <2> DEFINE gs == o.filters
  <2>1. gs \in Seq(Filters) /\ Range(gs) \subseteq S
    BY <1>3, <1>7
  <2> HIDE DEF gs
  <2>2. DOMAIN gs = 1 .. Len(gs) /\ Len(gs) \in Nat /\ \A j \in 1 .. Len(gs) : gs[j] \in Range(gs)
    BY <2>1, RangeIs
  <2>3. OneByOne(gs)
    BY <1>2, <2>1, <2>2 DEF OneByOne
  <2> QED BY <2>3 DEF gs
<1>9. n \in Range(NodesOf(c)) /\ \E f \in Range(o.filters) : Names(f, n)
  BY DEF Meant
<1>10. /\ ~Unfiltered(p.filters) /\ OneByOne(p.filters)
       /\ \E f \in Range(p.filters) : Names(f, n)
  BY <1>6, <1>8, <1>9, AlikeMean
<1>11. PICK f \in Range(p.filters) : Names(f, n)
  BY <1>10
<1>12. Reached(NodesOf(c), p, n)
  BY <1>6, <1>7, <1>9, <1>10, <1>11, NamedIsReached
<1> QED BY <1>6, <1>12

\* An option without a filter is for every node.
LEMMA UnfilteredReaches ==
  ASSUME NEW nodes, NEW o, Unfiltered(o.filters), NEW n \in Range(nodes)
  PROVE  Reached(nodes, o, n)
<1>1. FilterNodes(nodes, o.filters) = {nodes}
  BY DEF FilterNodes
<1> QED BY <1>1 DEF Reached

LEMMA FlagReaches ==
  ASSUME NEW c, Counted(c), NEW k, NEW given, AreOptions(flags.options[k]), IsGiven(given, flags.options[k]),
         \A p \in Range(given) : FilterNodes(NodesOf(c), p.filters) # {},
         NEW o \in Range(flags.options[k]), Unambiguous(k, o), NEW n \in Meant(NodesOf(c), o.filters)
  PROVE  \E p \in Range(given) : p.what = o.what /\ Reached(NodesOf(c), p, n)
<1>1. CASE ~Unfiltered(o.filters)
  BY <1>1, FilteredFlagReaches
<1>2. CASE Unfiltered(o.filters)
  <2> DEFINE asked == flags.options[k]
  <2>1. \A q \in Range(asked) : q.what = o.what => Unfiltered(q.filters)
    BY <1>2 DEF Unambiguous, Asked
  <2>2. IsGiven(given, asked) /\ o \in Range(asked)
    OBVIOUS
  <2> HIDE DEF asked
  <2>3. PICK p \in Range(given) : p.what = o.what
    BY <2>2 DEF IsGiven
  <2>4. p.filters # <<>> =>
          \E q \in Range(asked) : q.what = p.what /\ q.filters # <<>> /\ q.filters[1] = p.filters[1]
    BY <2>2, <2>3 DEF IsGiven
  <2>5. Unfiltered(p.filters)
    BY <2>1, <2>3, <2>4 DEF Unfiltered
  <2>6. n \in Range(NodesOf(c))
    BY DEF Meant
  <2> QED BY <2>3, <2>5, <2>6, UnfilteredReaches
<1> QED BY <1>1, <1>2

LEMMA FileReaches ==
  ASSUME NEW c, Counted(c), NEW k \in Kinds, NEW own, Stem(file.version, own, AskedInFile[k], "what"),
         \A p \in Range(own) : FilterNodes(NodesOf(c), p.filters) # {},
         NEW o \in Range(FileOptions(k)), Unambiguous(k, o), NEW n \in Meant(NodesOf(c), o.filters)
  PROVE  \E p \in Range(own) : p.what = o.what /\ Reached(NodesOf(c), p, n)
<1>1. CASE ~Unfiltered(o.filters)
  BY <1>1, FilteredFileReaches
<1>2. CASE Unfiltered(o.filters)
  <2> DEFINE asked == AskedInFile[k]
  <2>1. asked = FileOptions(k)
    BY DEF AskedInFile
  <2> HIDE DEF asked
  <2>2. /\ IsList(own) /\ IsList(asked) /\ Len(own) = Len(asked)
        /\ \A i \in 1 .. Len(own) : own[i]["what"] = asked[i]["what"] /\ Alike(file.version, own[i].filters, asked[i].filters)
    BY DEF Stem, asked
  <2>3. PICK i \in 1 .. Len(own) : o = asked[i]
    BY <2>1, <2>2, Listed
  <2> DEFINE p == own[i]
  <2>4. p \in Range(own) /\ p.what = o.what /\ Alike(file.version, p.filters, o.filters)
    BY <2>2, <2>3, Listed
  <2> HIDE DEF p
  <2>5. Unfiltered(p.filters)
    BY <1>2, <2>4, AlikeMean
  <2>6. n \in Range(NodesOf(c))
    BY DEF Meant
  <2> QED BY <2>4, <2>5, <2>6, UnfilteredReaches
<1> QED BY <1>1, <1>2

\* The parts of an option's list in the configuration, and what follows from the cluster being made.
LEMMA MadeOptions ==
  ASSUME Made, Configured, Built, NEW k \in Kinds
  PROVE  /\ cluster.nodes = NodesOf(cfg) /\ Counted(cfg) /\ AreOptions(flags.options[k])
         /\ \E own, given :
              /\ cfg.options[k] = own \o given /\ IsList(own) /\ IsList(given)
              /\ Stem(file.version, own, AskedInFile[k], "what") /\ IsGiven(given, flags.options[k])
              /\ \A p \in Range(own) \cup Range(given) : FilterNodes(NodesOf(cfg), p.filters) # {}
<1>1. phase \in MadePhases
  BY MadeIs
<1>2. phase \in Named /\ cluster.nodes = NodesOf(cfg) /\ Counted(cfg)
  BY <1>1, BuiltNodes
<1>3. AreOptions(flags.options[k])
  BY ConfigAssumption DEF Configured, Typed
<1>4. PICK own, given : /\ cfg.options[k] = own \o given
                        /\ Stem(file.version, own, AskedInFile[k], "what") /\ IsGiven(given, flags.options[k])
  BY <1>2 DEF Configured, IsMerged, AreMerged
<1>5. IsList(own) /\ IsList(given)
  BY <1>4 DEF Stem, IsGiven
<1>6. \A p \in Range(own) \cup Range(given) : FilterNodes(NodesOf(cfg), p.filters) # {}
  <2>1. Range(cfg.options[k]) = Range(own) \cup Range(given)
    BY <1>4, <1>5, ListsJoined
  <2>2. \A p \in Range(cfg.options[k]) : ~OptionFails(NodesOf(cfg), k, p)
    BY <1>1 DEF Built, IsBuilt
  <2> QED BY <2>1, <2>2 DEF OptionFails
<1> QED BY <1>2, <1>3, <1>4, <1>5, <1>6

LEMMA OnlyNamedGetIt == Configured /\ Built => OnlyNamedNodes
<1> SUFFICES ASSUME Configured, Built, Made, NEW n \in Nodes, NEW k \in Kinds, NEW x \in Holds(n, k)
             PROVE  \E o \in Asked(k) : Same(k, o.what, x) /\ n \in Meant(cluster.nodes, o.filters)
  BY DEF OnlyNamedNodes
<1> DEFINE nodes == NodesOf(cfg)
           v == file.version
<1>1. cluster.nodes = nodes /\ Counted(cfg) /\ AreOptions(flags.options[k])
  BY MadeOptions
<1>2. PICK own, given : /\ cfg.options[k] = own \o given /\ IsList(own) /\ IsList(given)
                        /\ Stem(v, own, AskedInFile[k], "what") /\ IsGiven(given, flags.options[k])
  BY MadeOptions
<1> DEFINE g == GivenBy(own \o given, nodes, n)
<1>3. PICK X : \E a, b \in Seq(X) : g = a \o b /\ From(own, nodes, n, a) /\ From(given, nodes, n, b)
  BY <1>2, GivenInTwo, Zenon DEF InTwo
<1>4. PICK a \in Seq(X), b \in Seq(X) : g = a \o b /\ From(own, nodes, n, a) /\ From(given, nodes, n, b)
  BY <1>3
<1>5. g = GivenBy(cfg.options[k], nodes, n)
  BY <1>2
<1> HIDE DEF g
<1>6. g \in Seq(X) /\ Range(g) = Range(a) \cup Range(b)
  BY <1>4, Joining, JoinedRange
<1>7. PICK y \in Range(g) : Same(k, y, x)
  BY <1>5, <1>6, HeldIsGiven
<1>8. n \in Range(nodes)
  BY <1>1 DEF Nodes
<1>9. PICK o \in Range(own) \cup Range(given) : y = o.what /\ Reached(nodes, o, n)
  BY <1>4, <1>6 DEF From
<1>10. o.filters \in Seq(Filters)
  <2>1. CASE o \in Range(own)
    <3>1. \A i \in 1 .. Len(own) : own[i].filters \in Seq(Filters)
      BY <1>2 DEF Stem, Alike
    <3> QED BY <1>2, <2>1, <3>1, Listed
  <2>2. CASE o \in Range(given)
    BY <1>2, <2>2 DEF IsGiven
  <2> QED BY <2>1, <2>2
<1> HIDE DEF v
<1>11. n \in Meant(nodes, o.filters)
  BY <1>1, <1>9, <1>10, ReachedIsMeant
<1> HIDE DEF nodes
<1>12. \E p \in Asked(k) : p.what = o.what /\ n \in Meant(nodes, p.filters)
  <2>1. CASE o \in Range(own)
    <3>1. \E p \in Range(AskedInFile[k]) : p.what = o.what /\ n \in Meant(nodes, p.filters)
      BY <1>2, <1>8, <1>11, <2>1, AskedInTheFile
    <3> QED BY <3>1 DEF AskedInFile, Asked
  <2>2. CASE o \in Range(given)
    <3> DEFINE asked == flags.options[k]
    <3>1. AreOptions(asked) /\ IsGiven(given, asked)
      BY <1>1, <1>2
    <3> HIDE DEF asked
    <3>2. \E p \in Range(asked) : p.what = o.what /\ n \in Meant(nodes, p.filters)
      BY <1>8, <1>11, <2>2, <3>1, AskedByFlag
    <3> QED BY <3>2 DEF Asked, asked
  <2> QED BY <2>1, <2>2
<1> QED BY <1>1, <1>7, <1>9, <1>12

\* Of what a node is given in a map, the last of each key stays.
LEMMA LastOfKey ==
  ASSUME NEW X, NEW g \in Seq(X), NEW i \in DOMAIN g
  PROVE  \E m \in DOMAIN g : /\ m >= i /\ g[m].key = g[i].key
                             /\ \A j \in DOMAIN g : j > m => g[j].key # g[m].key
<1> DEFINE n == Len(g)
           S == {j \in 1 .. n : g[j].key = g[i].key}
<1>1. n \in Nat /\ DOMAIN g = 1 .. n /\ i \in 1 .. n
  OBVIOUS
<1>2. S \in SUBSET (1 .. n) /\ S # {}
  BY <1>1
<1>3. PICK m \in S : \A j \in S : m >= j
  <2> HIDE DEF S, n
  <2> QED BY <1>1, <1>2, LastOf
<1>4. m \in DOMAIN g /\ g[m].key = g[i].key /\ i \in S
  BY <1>1, <1>3
<1>5. ASSUME NEW j \in DOMAIN g, j > m PROVE g[j].key # g[m].key
  <2>1. j \in 1 .. n /\ ~(m >= j) /\ m \in 1 .. n
    BY <1>1, <1>4, <1>5
  <2>2. j \notin S
    BY <1>3, <2>1
  <2> QED BY <1>4, <2>1, <2>2
<1> QED BY <1>3, <1>4, <1>5

\* The part of a node's options that the flags are the source of comes last.
InParts(k, o, n) ==
  \E X : \E a, b \in Seq(X) :
    /\ GivenBy(cfg.options[k], NodesOf(cfg), n) = a \o b
    /\ o.what \in Range(a) \cup Range(b)
    /\ o \in Range(flags.options[k]) => o.what \in Range(b)
    /\ \A x \in Range(b) : \E p \in Range(flags.options[k]) : x = p.what

LEMMA AskedIsGiven ==
  ASSUME Made, Configured, Built, NEW k \in Kinds, NEW o \in Asked(k), Unambiguous(k, o),
         NEW n \in Meant(cluster.nodes, o.filters)
  PROVE  InParts(k, o, n)
<1> DEFINE nodes == NodesOf(cfg)
<1>1. cluster.nodes = nodes /\ Counted(cfg) /\ AreOptions(flags.options[k])
  BY MadeOptions
<1>2. PICK own, given : /\ cfg.options[k] = own \o given /\ IsList(own) /\ IsList(given)
                        /\ Stem(file.version, own, AskedInFile[k], "what") /\ IsGiven(given, flags.options[k])
                        /\ \A p \in Range(own) \cup Range(given) : FilterNodes(nodes, p.filters) # {}
  BY MadeOptions
<1>3. PICK X : \E a, b \in Seq(X) :
        GivenBy(own \o given, nodes, n) = a \o b /\ From(own, nodes, n, a) /\ From(given, nodes, n, b)
  BY <1>2, GivenInTwo, Zenon DEF InTwo
<1>4. PICK a \in Seq(X), b \in Seq(X) :
        GivenBy(own \o given, nodes, n) = a \o b /\ From(own, nodes, n, a) /\ From(given, nodes, n, b)
  BY <1>3
<1>5. n \in Meant(nodes, o.filters)
  BY <1>1
<1>6. ASSUME o \in Range(flags.options[k]) PROVE o.what \in Range(b)
  <2>1. \E p \in Range(given) : p.what = o.what /\ Reached(nodes, p, n)
    BY <1>1, <1>2, <1>5, <1>6, FlagReaches
  <2> QED BY <1>4, <2>1 DEF From
<1>7. ASSUME o \in Range(FileOptions(k)) PROVE o.what \in Range(a)
  <2>1. \E p \in Range(own) : p.what = o.what /\ Reached(nodes, p, n)
    BY <1>1, <1>2, <1>5, <1>7, FileReaches
  <2> QED BY <1>4, <2>1 DEF From
<1>8. \A x \in Range(b) : \E p \in Range(flags.options[k]) : x = p.what
  <2>1. \A x \in Range(b) : \E p \in Range(given) : x = p.what
    BY <1>4 DEF From
  <2>2. \A p \in Range(given) : \E q \in Range(flags.options[k]) : q.what = p.what
    BY <1>2 DEF IsGiven
  <2> QED BY <2>1, <2>2
<1>9. GivenBy(cfg.options[k], nodes, n) = a \o b
  BY <1>2, <1>4
<1>10. o.what \in Range(a) \cup Range(b)
  BY <1>6, <1>7 DEF Asked
<1> QED BY <1>6, <1>8, <1>9, <1>10, Zenon DEF InParts

LEMMA NamedGetIt == Configured /\ Built => NamedNodesGetIt
<1> SUFFICES ASSUME Configured, Built, Made, NEW k \in Kinds, NEW o \in Asked(k), Unambiguous(k, o),
                    NEW n \in Meant(cluster.nodes, o.filters)
             PROVE  \E x \in Holds(n, k) : IF k \in Maps THEN x.key = o.what.key ELSE Same(k, o.what, x)
  BY DEF NamedNodesGetIt
<1>1. InParts(k, o, n)
  BY AskedIsGiven
<1>2. PICK X : \E a, b \in Seq(X) : GivenBy(cfg.options[k], NodesOf(cfg), n) = a \o b /\ o.what \in Range(a) \cup Range(b)
  BY <1>1, Zenon DEF InParts
<1>a. PICK a \in Seq(X), b \in Seq(X) :
         GivenBy(cfg.options[k], NodesOf(cfg), n) = a \o b /\ o.what \in Range(a) \cup Range(b)
  BY <1>2
<1> DEFINE g == GivenBy(cfg.options[k], NodesOf(cfg), n)
<1> HIDE DEF g
<1>3. g \in Seq(X) /\ o.what \in Range(g)
  <2>1. g = a \o b
    BY <1>a DEF g
  <2> QED BY <1>a, <2>1, Joining, JoinedRange
<1>4. n \in Nodes
  BY DEF Meant, Nodes
<1>5. CASE k \notin Maps
  <2>1. \A y \in Range(g) : \E x \in Holds(n, k) : Same(k, y, x)
    BY <1>3, <1>4, <1>5, HeldIsGiven DEF g
  <2> QED BY <1>3, <1>5, <2>1
<1>6. CASE k \in Maps
  <2>1. Holds(n, k) = LastOfEach(g)
    BY <1>3, <1>4, <1>6, HeldIsGiven DEF g
  <2>2. PICK i \in DOMAIN g : g[i] = o.what
    BY <1>3 DEF Range
  <2>3. PICK m \in DOMAIN g : g[m].key = g[i].key /\ \A j \in DOMAIN g : j > m => g[j].key # g[m].key
    BY <1>3, LastOfKey
  <2>4. g[m] \in Holds(n, k) /\ g[m].key = o.what.key
    BY <2>1, <2>2, <2>3 DEF LastOfEach
  <2> QED BY <1>6, <2>4
<1> QED BY <1>5, <1>6

\* FiltersHold: for every file and all flags no node gets an option that none of them gives to
\* it, and each node that an option names without ambiguity, or every node if it has no filter,
\* gets it, or for a label another value of its key.
THEOREM OptionsReachNamedNodes == Spec => []FiltersHold
<1>1. Configured /\ Built => FiltersHold
  BY OnlyNamedGetIt, NamedGetIt DEF FiltersHold
<1> QED BY <1>1, ConfigurationHolds, BuiltHolds, PTL

\* FlagLabelWins: on the nodes that a flag's label names without ambiguity its key has the value
\* of a flag, not of the file.
THEOREM LabelsOfFlagsWin == Spec => []FlagLabelWins
<1>1. Configured /\ Built => FlagLabelWins
  <2> SUFFICES ASSUME Configured, Built, Made, NEW k \in Maps, NEW o \in Range(flags.options[k]),
                      Unambiguous(k, o), NEW n \in Meant(cluster.nodes, o.filters)
               PROVE  \E p \in Range(flags.options[k]) : p.what.key = o.what.key /\ p.what \in cluster.held[n][k]
    BY DEF FlagLabelWins
  <2>1. k \in Kinds /\ o \in Asked(k) /\ k # "volume" /\ n \in Nodes
    BY DEF Kinds, Maps, Asked, Meant, Nodes
  <2>a. InParts(k, o, n)
    BY <2>1, AskedIsGiven
  <2>2. PICK X : \E a, b \in Seq(X) :
          /\ GivenBy(cfg.options[k], NodesOf(cfg), n) = a \o b
          /\ o.what \in Range(b)
          /\ \A x \in Range(b) : \E p \in Range(flags.options[k]) : x = p.what
    BY <2>a, Zenon DEF InParts
  <2>3. PICK a \in Seq(X), b \in Seq(X) :
          /\ GivenBy(cfg.options[k], NodesOf(cfg), n) = a \o b
          /\ o.what \in Range(b)
          /\ \A x \in Range(b) : \E p \in Range(flags.options[k]) : x = p.what
    BY <2>2
  <2> DEFINE g == GivenBy(cfg.options[k], NodesOf(cfg), n)
  <2> HIDE DEF g
  <2>4. g = a \o b
    BY <2>3 DEF g
  <2>5. /\ g \in Seq(X) /\ Len(g) = Len(a) + Len(b) /\ \A i \in 1 .. Len(b) : g[Len(a) + i] = b[i]
        /\ Len(a) \in Nat /\ Len(b) \in Nat /\ DOMAIN g = 1 .. Len(g) /\ DOMAIN b = 1 .. Len(b)
    BY <2>3, <2>4, Joining, RangeIs
  <2>6. PICK i \in 1 .. Len(b) : b[i] = o.what
    BY <2>3, <2>5 DEF Range
  <2> DEFINE at == Len(a) + i
  <2>7. at \in DOMAIN g /\ at \in Int /\ at > Len(a)
    BY <2>5
  <2> HIDE DEF at
  <2>8. g[at] = o.what
    BY <2>5, <2>6 DEF at
  <2>9. PICK m \in DOMAIN g : m >= at /\ g[m].key = g[at].key /\ \A j \in DOMAIN g : j > m => g[j].key # g[m].key
    BY <2>5, <2>7, LastOfKey
  <2>10. g[m] \in cluster.held[n][k]
    <3>1. Holds(n, k) = LastOfEach(g)
      BY <2>1, <2>5, HeldIsGiven DEF g
    <3> QED BY <2>1, <2>9, <3>1 DEF Holds, LastOfEach
  <2>11. \E p \in Range(flags.options[k]) : g[m] = p.what
    <3> DEFINE j == m - Len(a)
    <3>1. j \in 1 .. Len(b) /\ Len(a) + j = m
      BY <2>5, <2>7, <2>9
    <3> HIDE DEF j
    <3>2. g[m] = b[j]
      BY <2>5, <3>1
    <3>3. b[j] \in Range(b)
      BY <2>5, <3>1 DEF Range
    <3> QED BY <2>3, <3>2, <3>3
  <2> QED BY <2>8, <2>9, <2>10, <2>11
<1> QED BY <1>1, ConfigurationHolds, BuiltHolds, PTL
=============================================================================
