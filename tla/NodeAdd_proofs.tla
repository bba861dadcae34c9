----------------------------- MODULE NodeAdd_proofs -----------------------------
(***************************************************************************)
(* For every cluster to begin with, every set of names and options of the   *)
(* command and every number of commands: what NodeAddToCluster makes of an  *)
(* existing node can run beside it and joins the cluster, and no copy is    *)
(* taken for the initializing server, however often copies are copied and   *)
(* nodes are deleted meanwhile.                                             *)
(* First what the loops over a slice that shrinks leave of it, then what a  *)
(* copy is, then the invariant and the steps that keep it.                  *)
(***************************************************************************)
EXTENDS NodeAdd, FiniteSetTheorems, NaturalsInduction, WellFoundedInduction, TLAPS

\* Induction on a set of naturals.
LEMMA SetInduction ==
  ASSUME NEW S \in SUBSET Nat, 0 \in S, \A k \in Nat : k \in S => k + 1 \in S
  PROVE  S = Nat
<1> DEFINE R == Nat \ S
<1> SUFFICES ASSUME R # {} PROVE FALSE
  OBVIOUS
<1>2. PICK x \in R : \A y \in R : <<y, x>> \notin OpToRel(<, Nat)
  BY R \subseteq Nat, WFMin, NatLessThanWellFounded, Zenon
<1>3. \A y \in R : ~(y < x)
  BY <1>2, Zenon DEF OpToRel
<1>4. x # 0 /\ x - 1 \in Nat /\ x - 1 \notin R
  BY <1>3
<1> QED
  BY <1>4

\* The least element of a non-empty set of naturals is one of its elements.
LEMMA MinElement == ASSUME NEW S \in SUBSET Nat, S # {} PROVE Min(S) \in S
<1>2. PICK x \in S : \A y \in S : <<y, x>> \notin OpToRel(<, Nat)
  BY S \subseteq Nat, WFMin, NatLessThanWellFounded, Zenon
<1>3. \A y \in S : ~(y < x)
  BY <1>2, Zenon DEF OpToRel
<1>4. \A y \in S : x =< y
  BY <1>3
<1> QED
  BY <1>4 DEF Min

\* The loop visits the positions one after the other.
LEMMA VisitsStep ==
  ASSUME NEW slice, NEW x, NEW how, Len(slice) \in Nat
  PROVE  /\ Visits(slice, x, how)[0] = [arr |-> slice, len |-> Len(slice), ok |-> TRUE]
         /\ \A i \in 1 .. Len(slice) :
              Visits(slice, x, how)[i] = Visit(Visits(slice, x, how)[i - 1], x, how, i)
<1> DEFINE start == [arr |-> slice, len |-> Len(slice), ok |-> TRUE]
           IsLoop(f, k) == f = [i \in 0 .. k |-> IF i = 0 THEN start ELSE Visit(f[i - 1], x, how, i)]
           S == {k \in Nat : \E f : IsLoop(f, k)}
<1>1. 0 \in S
  <2> DEFINE f == [i \in 0 .. 0 |-> start]
  <2>1. IsLoop(f, 0)
    OBVIOUS
  <2> QED
    BY <2>1
<1>2. ASSUME NEW k \in Nat, k \in S PROVE k + 1 \in S
  <2> PICK f : IsLoop(f, k)
    BY <1>2
  <2> DEFINE g == [i \in 0 .. k + 1 |-> IF i = k + 1 THEN Visit(f[k], x, how, k + 1) ELSE f[i]]
  <2>1. \A i \in 0 .. k + 1 : g[i] = IF i = 0 THEN start ELSE Visit(g[i - 1], x, how, i)
    <3> HIDE DEF start
    <3> TAKE i \in 0 .. k + 1
    <3>1. CASE i = k + 1
      BY <3>1
    <3>2. CASE i # k + 1
      <4>1. i \in 0 .. k /\ g[i] = f[i] /\ (i # 0 => g[i - 1] = f[i - 1])
        BY <3>2
      <4>2. f[i] = IF i = 0 THEN start ELSE Visit(f[i - 1], x, how, i)
        BY <4>1
      <4> QED
        BY <4>1, <4>2
    <3> QED
      BY <3>1, <3>2
  <2>2. IsLoop(g, k + 1)
    <3> HIDE DEF start
    <3> QED BY <2>1
  <2>3. \E h : IsLoop(h, k + 1)
    <3> HIDE DEF g, IsLoop
    <3> QED BY <2>2
  <2> HIDE DEF IsLoop
  <2> QED
    BY <2>3
<1>3. S = Nat
  <2> HIDE DEF S
  <2> QED BY <1>1, <1>2, SetInduction, S \subseteq Nat DEF S
<1>4. \E f : IsLoop(f, Len(slice))
  BY <1>3
<1>5. Visits(slice, x, how) = CHOOSE f : IsLoop(f, Len(slice))
  BY DEF Visits
<1>6. IsLoop(Visits(slice, x, how), Len(slice))
  <2> HIDE DEF IsLoop
  <2> QED BY <1>4, <1>5
<1> QED
  <2> HIDE DEF start
  <2>1. \A i \in 0 .. Len(slice) : Visits(slice, x, how)[i] =
          IF i = 0 THEN start ELSE Visit(Visits(slice, x, how)[i - 1], x, how, i)
    BY <1>6
  <2>2. Visits(slice, x, how)[0] = start
    BY <2>1
  <2> QED BY <2>1, <2>2 DEF start

\* The beginning of a sequence.
LEMMA Prefix ==
  ASSUME NEW S, NEW s \in Seq(S), NEW n \in 0 .. Len(s)
  PROVE  /\ SubSeq(s, 1, n) \in Seq(S) /\ Len(SubSeq(s, 1, n)) = n
         /\ \A i \in 1 .. n : SubSeq(s, 1, n)[i] = s[i]
OBVIOUS

\* What the loop leaves of a slice that does not begin with the element: it begins as before.
LEMMA DroppedKeepsFirst ==
  ASSUME NEW S, NEW slice \in Seq(S), NEW x, slice # <<>>, slice[1] # x,
         Dropped(slice, x, "shift") # Panics
  PROVE  /\ Dropped(slice, x, "shift") \in Seq(S)
         /\ Len(Dropped(slice, x, "shift")) >= 1
         /\ Dropped(slice, x, "shift")[1] = slice[1]
<1> DEFINE L == Len(slice)
           V == Visits(slice, x, "shift")
           Acc == [arr : [1 .. L -> S], len : 1 .. L, ok : BOOLEAN]
           Good(i) == V[i] \in Acc /\ V[i].arr[1] = slice[1]
           Is == {i \in Nat : i <= L => Good(i)}
<1>0. L \in Nat /\ L >= 1 /\ slice \in [1 .. L -> S]
  OBVIOUS
<1>v. V[0] = [arr |-> slice, len |-> L, ok |-> TRUE] /\ \A i \in 1 .. L : V[i] = Visit(V[i - 1], x, "shift", i)
  BY <1>0, VisitsStep
<1> HIDE DEF V, L
<1>1. 0 \in Is
  <2>1. V[0] \in Acc /\ V[0].arr = slice
    BY <1>0, <1>v
  <2> QED
    BY <2>1
<1>2. ASSUME NEW k \in Nat, k \in Is PROVE k + 1 \in Is
  <2> SUFFICES ASSUME k + 1 <= L PROVE Good(k + 1)
    OBVIOUS
  <2> DEFINE acc == V[k]
  <2>1. acc \in Acc /\ acc.arr[1] = slice[1] /\ k <= L
    BY <1>0, <1>2
  <2>2. V[k + 1] = Visit(acc, x, "shift", k + 1)
    BY <1>0, <1>v
  <2> HIDE DEF acc
  <2>3. CASE ~acc.ok \/ acc.arr[k + 1] # x
    BY <2>1, <2>2, <2>3 DEF Visit
  <2>4. CASE ~(~acc.ok \/ acc.arr[k + 1] # x) /\ k + 1 > acc.len
    BY <2>1, <2>2, <2>4 DEF Visit
  <2>5. CASE ~(~acc.ok \/ acc.arr[k + 1] # x) /\ ~(k + 1 > acc.len)
    <3>1. V[k + 1] = [arr |-> Closed("shift", acc.arr, acc.len, k + 1), len |-> acc.len - 1, ok |-> TRUE]
      BY <2>2, <2>5 DEF Visit
    <3>2. k + 1 >= 2 /\ acc.len - 1 \in 1 .. L
      BY <1>0, <2>1, <2>5
    <3>3. Closed("shift", acc.arr, acc.len, k + 1) \in [1 .. L -> S]
      BY <1>0, <2>1, <2>5 DEF Closed
    <3>4. Closed("shift", acc.arr, acc.len, k + 1)[1] = slice[1]
      BY <1>0, <2>1, <2>5, <3>2 DEF Closed
    <3> QED
      BY <2>1, <3>1, <3>2, <3>3, <3>4
  <2> QED
    BY <2>3, <2>4, <2>5
<1>3. Good(L)
  <2> HIDE DEF Is
  <2>1. Is = Nat
    BY <1>1, <1>2, SetInduction, Is \subseteq Nat DEF Is
  <2> QED
    BY <1>0, <2>1 DEF Is
<1>4. V[L].ok /\ Dropped(slice, x, "shift") = SubSeq(V[L].arr, 1, V[L].len)
  BY DEF Dropped, V, L
<1>5. V[L].arr \in Seq(S) /\ Len(V[L].arr) = L /\ V[L].len \in 1 .. L
  BY <1>0, <1>3
<1>6. Len(SubSeq(V[L].arr, 1, V[L].len)) = V[L].len /\ SubSeq(V[L].arr, 1, V[L].len)[1] = V[L].arr[1]
  BY <1>0, <1>5, Prefix
<1>7. SubSeq(V[L].arr, 1, V[L].len) \in Seq(S)
  BY <1>0, <1>5, Prefix
<1> DEFINE d == SubSeq(V[L].arr, 1, V[L].len)
<1>8. d \in Seq(S) /\ Len(d) >= 1 /\ d[1] = slice[1]
  BY <1>0, <1>3, <1>5, <1>6, <1>7
<1> QED
  BY <1>4, <1>8

\* Up to the first position of the element nothing happens.
LEMMA NotYet ==
  ASSUME NEW S, NEW slice \in Seq(S), NEW x, NEW how, NEW n \in 0 .. Len(slice),
         \A j \in 1 .. n : slice[j] # x
  PROVE  Visits(slice, x, how)[n] = [arr |-> slice, len |-> Len(slice), ok |-> TRUE]
<1> DEFINE V == Visits(slice, x, how)
           start == [arr |-> slice, len |-> Len(slice), ok |-> TRUE]
           Is == {i \in Nat : i <= n => V[i] = start}
<1>v. V[0] = start /\ \A i \in 1 .. Len(slice) : V[i] = Visit(V[i - 1], x, how, i)
  BY VisitsStep
<1> HIDE DEF V
<1>1. 0 \in Is
  BY <1>v
<1>2. ASSUME NEW k \in Nat, k \in Is PROVE k + 1 \in Is
  <2> SUFFICES ASSUME k + 1 <= n PROVE V[k + 1] = start
    OBVIOUS
  <2>1. V[k] = start /\ V[k + 1] = Visit(V[k], x, how, k + 1) /\ slice[k + 1] # x
    BY <1>2, <1>v
  <2> QED
    BY <2>1 DEF Visit
<1> HIDE DEF Is
<1>3. Is = Nat
  BY <1>1, <1>2, SetInduction, Is \subseteq Nat DEF Is
<1>4. n \in Nat
  OBVIOUS
<1>5. n \in {i \in Nat : i <= n => V[i] = start}
  BY <1>3, <1>4, Zenon DEF Is
<1>6. n <= n
  BY <1>4
<1>7. V[n] = start
  BY <1>5, <1>6, Zenon
<1> QED
  BY <1>7 DEF V

\* A slice without the element stays as it is.
LEMMA DroppedAbsent ==
  ASSUME NEW S, NEW slice \in Seq(S), NEW x, NEW how, \A j \in DOMAIN slice : slice[j] # x
  PROVE  Dropped(slice, x, how) = slice
<1>1. Visits(slice, x, how)[Len(slice)] = [arr |-> slice, len |-> Len(slice), ok |-> TRUE]
  BY NotYet
<1>2. SubSeq(slice, 1, Len(slice)) = slice
  OBVIOUS
<1> QED
  BY <1>1, <1>2 DEF Dropped

\* The last element is dropped.
LEMMA DroppedLast ==
  ASSUME NEW S, NEW slice \in Seq(S), slice # <<>>, NEW x, slice[Len(slice)] = x,
         \A j \in 1 .. Len(slice) - 1 : slice[j] # x
  PROVE  Dropped(slice, x, "swap") = SubSeq(slice, 1, Len(slice) - 1)
<1> DEFINE L == Len(slice)
           V == Visits(slice, x, "swap")
<1>1. L \in Nat /\ L >= 1
  OBVIOUS
<1>2. V[L - 1] = [arr |-> slice, len |-> L, ok |-> TRUE]
  BY <1>1, NotYet
<1>3. V[L] = Visit(V[L - 1], x, "swap", L)
  <2>1. Len(slice) \in Nat /\ L \in 1 .. Len(slice)
    OBVIOUS
  <2> QED
    BY <2>1, VisitsStep, ZenonT(40)
<1>4. Closed("swap", slice, L, L) = slice
  BY DEF Closed
<1>6. slice[L] = x
  OBVIOUS
<1> HIDE DEF V, L
<1>5. V[L] = [arr |-> slice, len |-> L - 1, ok |-> TRUE]
  <2>1. ~(L > L)
    BY <1>1
  <2>2. Visit([arr |-> slice, len |-> L, ok |-> TRUE], x, "swap", L) = [arr |-> slice, len |-> L - 1, ok |-> TRUE]
    BY <1>4, <1>6, <2>1 DEF Visit
  <2> QED
    BY <1>2, <1>3, <2>2
<1> QED
  BY <1>5 DEF Dropped, V, L

\* An element that is in the slice once is cut out of it.
LEMMA DroppedOnce ==
  ASSUME NEW S, NEW slice \in Seq(S), NEW x,
         \A i, j \in DOMAIN slice : slice[i] = x /\ slice[j] = x => i = j
  PROVE  \A i \in DOMAIN Dropped(slice, x, "shift") : Dropped(slice, x, "shift")[i] # x
<1>v. \A i \in 1 .. Len(slice) : Visits(slice, x, "shift")[i] = Visit(Visits(slice, x, "shift")[i - 1], x, "shift", i)
  <2>1. Len(slice) \in Nat
    OBVIOUS
  <2> QED
    BY <2>1, VisitsStep
<1> SUFFICES ASSUME \E p \in DOMAIN slice : slice[p] = x
             PROVE  \A i \in DOMAIN Dropped(slice, x, "shift") : Dropped(slice, x, "shift")[i] # x
  BY DroppedAbsent
<1> PICK p \in DOMAIN slice : slice[p] = x
  OBVIOUS
<1> DEFINE L == Len(slice)
           V == Visits(slice, x, "shift")
           arr == Closed("shift", slice, L, p)
           cut == [arr |-> arr, len |-> L - 1, ok |-> TRUE]
           Is == {i \in Nat : p <= i /\ i <= L => V[i] = cut}
<1>0. L \in Nat /\ p \in 1 .. L /\ slice \in [1 .. L -> S] /\ \A j \in 1 .. L : j # p => slice[j] # x
  OBVIOUS
<1>a. arr \in [1 .. L -> S] /\ \A j \in 1 .. L : arr[j] = IF p <= j /\ j < L THEN slice[j + 1] ELSE slice[j]
  BY <1>0 DEF Closed
<1>b. V[p - 1] = [arr |-> slice, len |-> L, ok |-> TRUE]
  BY <1>0, NotYet
<1>c. arr = Closed("shift", slice, L, p)
  OBVIOUS
<1> HIDE DEF V, L, arr
<1>1. 0 \in Is
  BY <1>0
<1>2. ASSUME NEW k \in Nat, k \in Is PROVE k + 1 \in Is
  <2> SUFFICES ASSUME p <= k + 1, k + 1 <= L PROVE V[k + 1] = cut
    OBVIOUS
  <2>1. V[k + 1] = Visit(V[k], x, "shift", k + 1)
    <3>1. k + 1 \in 1 .. Len(slice) /\ (k + 1) - 1 = k
      BY <1>0 DEF L
    <3> QED
      BY <1>v, <3>1 DEF V
  <2>2. CASE p = k + 1
    <3>1. V[k] = [arr |-> slice, len |-> L, ok |-> TRUE]
      BY <1>b, <2>2
    <3> QED
      <4>1. slice[k + 1] = x /\ ~(k + 1 > L)
        BY <1>0, <2>2
      <4>2. arr = Closed("shift", slice, L, k + 1)
        BY <1>c, <2>2
      <4> QED
        BY <2>1, <3>1, <4>1, <4>2 DEF Visit
  <2>3. CASE p # k + 1
    <3>1. V[k] = cut
      BY <1>0, <1>2, <2>3
    <3>2. arr[k + 1] # x
      <4>1. CASE k + 1 < L
        BY <1>0, <1>a, <2>3, <4>1
      <4>2. CASE k + 1 = L
        BY <1>0, <1>a, <2>3, <4>2
      <4> QED
        BY <1>0, <4>1, <4>2
    <3> QED
      BY <2>1, <3>1, <3>2 DEF Visit
  <2> QED
    BY <2>2, <2>3
<1>3. V[L] = cut
  <2> HIDE DEF Is, cut
  <2>1. Is = Nat
    BY <1>1, <1>2, SetInduction, Is \subseteq Nat DEF Is
  <2> QED
    BY <1>0, <2>1 DEF Is
<1>4. Dropped(slice, x, "shift") = SubSeq(arr, 1, L - 1)
  BY <1>3 DEF Dropped, V, L
<1>5. ASSUME NEW j \in 1 .. L - 1 PROVE arr[j] # x
  <2>1. CASE p <= j
    BY <1>0, <1>a, <2>1
  <2>2. CASE j < p
    BY <1>0, <1>a, <2>2
  <2> QED
    BY <1>0, <2>1, <2>2
<1>6. arr \in Seq(S) /\ Len(arr) = L /\ L - 1 \in 0 .. L
  BY <1>0, <1>a
<1>7. DOMAIN SubSeq(arr, 1, L - 1) = 1 .. L - 1 /\ \A j \in 1 .. L - 1 : SubSeq(arr, 1, L - 1)[j] = arr[j]
  BY <1>6, Prefix
<1> QED
  BY <1>4, <1>5, <1>7

\* Two sequences one after the other.
LEMMA Joined ==
  ASSUME NEW S, NEW s \in Seq(S), NEW t \in Seq(S)
  PROVE  /\ s \o t \in Seq(S) /\ Len(s \o t) = Len(s) + Len(t)
         /\ \A i \in 1 .. Len(s) : (s \o t)[i] = s[i]
         /\ \A i \in 1 .. Len(t) : (s \o t)[Len(s) + i] = t[i]
OBVIOUS

LEMMA OfThree ==
  ASSUME NEW S, NEW u \in Seq(S), Len(u) = 3 PROVE u = <<u[1], u[2], u[3]>>
OBVIOUS

LEMMA JoinedShort ==
  \A S : \A s \in Seq(S), t \in Seq(S) :
    /\ Len(s) = 1 /\ Len(t) = 2 => s \o t = <<s[1], t[1], t[2]>>
    /\ t = <<>> => s \o t = s
<1> TAKE S
<1> TAKE s \in Seq(S), t \in Seq(S)
<1>1. /\ s \o t \in Seq(S) /\ Len(s \o t) = Len(s) + Len(t)
      /\ \A i \in 1 .. Len(s) : (s \o t)[i] = s[i]
      /\ \A i \in 1 .. Len(t) : (s \o t)[Len(s) + i] = t[i]
  OBVIOUS
<1> PICK u : u = s \o t
  OBVIOUS
<1>2. /\ u \in Seq(S) /\ Len(u) = Len(s) + Len(t)
      /\ \A i \in 1 .. Len(s) : u[i] = s[i]
      /\ \A i \in 1 .. Len(t) : u[Len(s) + i] = t[i]
  BY <1>1
<1>3. Len(s) = 1 /\ Len(t) = 2 => u = <<s[1], t[1], t[2]>>
  <2> HAVE Len(s) = 1 /\ Len(t) = 2
  <2>1. Len(u) = 3 /\ u[1] = s[1] /\ u[2] = t[1] /\ u[3] = t[2]
    BY <1>2
  <2> QED
    BY <1>2, <2>1, OfThree
<1>4. t = <<>> => s \o t = s
  OBVIOUS
<1> QED
  BY <1>3, <1>4

\* The mounts of a container with and without a limit.
LEMMA MountsOf ==
  ASSUME NEW c
  PROVE  <<"images">> \o MemoryMounts(c) = IF c.mem = 0 THEN <<"images">> ELSE <<"images", "meminfo", "edac">>
<1> DEFINE S == {"images", "meminfo", "edac"}
           s == <<"images">>
           t == <<"meminfo", "edac">>
<1>1. s \in Seq(S) /\ Len(s) = 1 /\ s[1] = "images"
  OBVIOUS
<1>2. t \in Seq(S) /\ Len(t) = 2 /\ t[1] = "meminfo" /\ t[2] = "edac"
  OBVIOUS
<1>3. <<>> \in Seq(S)
  OBVIOUS
<1> HIDE DEF S, s, t
<1>4. s \o t = <<s[1], t[1], t[2]>> /\ s \o <<>> = s
  BY <1>1, <1>2, <1>3, JoinedShort
<1> QED
  BY <1>1, <1>2, <1>4 DEF MemoryMounts, s, t

\* The mounts of a limit are dropped and no others.
LEMMA MountsDropped ==
  ASSUME NEW c, c.mounts = <<"images">> \o MemoryMounts(c)
  PROVE  DropMounts(c) = <<"images">>
<1> DEFINE S == {"images", "meminfo", "edac"}
<1>1. CASE c.mounts = <<"images">>
  <2>1. ASSUME NEW x \in {"edac", "meminfo"} PROVE Dropped(<<"images">>, x, "swap") = <<"images">>
    <3>1. <<"images">> \in Seq(S) /\ DOMAIN <<"images">> = {1}
      OBVIOUS
    <3>2. \A j \in DOMAIN <<"images">> : <<"images">>[j] # x
      BY <2>1
    <3> QED
      BY <3>1, <3>2, DroppedAbsent, Zenon
  <2> QED
    BY <1>1, <2>1 DEF DropMounts
<1>2. ASSUME NEW s, s = <<"images", "meminfo", "edac">>, s = c.mounts PROVE DropMounts(c) = <<"images">>
  <2> DEFINE t == SubSeq(s, 1, 2)
  <2>1. s \in Seq(S) /\ Len(s) = 3
    BY <1>2
  <2>2. s[1] = "images" /\ s[2] = "meminfo" /\ s[3] = "edac"
    BY <1>2
  <2>3. Dropped(s, "edac", "swap") = t
    <3>1. s[Len(s)] = "edac"
      BY <2>1, <2>2
    <3>4. s # <<>>
      <4>1. Len(<<>>) = 0 /\ 3 # 0
        OBVIOUS
      <4> QED
        BY <2>1, <4>1, Zenon
    <3>3. \A j \in 1 .. Len(s) - 1 : s[j] # "edac"
      <4>1. \A j \in 1 .. 2 : j = 1 \/ j = 2
        OBVIOUS
      <4>2. \A j \in 1 .. 2 : s[j] # "edac"
        BY <2>2, <4>1
      <4> QED
        BY <2>1, <4>2
    <3>2. Len(s) - 1 = 2
      BY <2>1
    <3> QED
      BY <2>1, <3>1, <3>2, <3>3, <3>4, DroppedLast
  <2>4. t \in Seq(S) /\ Len(t) = 2 /\ t[1] = "images" /\ t[2] = "meminfo"
    BY <2>1, <2>2, Prefix
  <2> HIDE DEF t
  <2>5. Dropped(t, "meminfo", "swap") = SubSeq(t, 1, 1)
    <3>1. t[Len(t)] = "meminfo"
      BY <2>4
    <3>4. t # <<>>
      <4>1. Len(<<>>) = 0 /\ 2 # 0
        OBVIOUS
      <4> QED
        BY <2>4, <4>1, Zenon
    <3>3. \A j \in 1 .. Len(t) - 1 : t[j] # "meminfo"
      BY <2>4
    <3>2. Len(t) - 1 = 1
      BY <2>4
    <3> QED
      BY <2>4, <3>1, <3>2, <3>3, <3>4, DroppedLast
  <2>6. SubSeq(t, 1, 1) \in Seq(S) /\ Len(SubSeq(t, 1, 1)) = 1 /\ SubSeq(t, 1, 1)[1] = "images"
    BY <2>4, Prefix
  <2>7. \A u \in Seq(S) : Len(u) = 1 /\ u[1] = "images" => u = <<"images">>
    OBVIOUS
  <2> QED
    BY <1>2, <2>3, <2>5, <2>6, <2>7 DEF DropMounts
<1> QED
  BY <1>1, <1>2, MountsOf

Drafts ==
  [role : Roles, cmd : Seq(Flags), args : Seq(Flags), url : Names \cup {None},
   token : {ClusterToken} \cup {r.token : r \in Requests}, mounts : Seq({"images", "meminfo", "edac"}),
   ports : SUBSET {"api"}, init : {"true", "false", None}, mem : Nat, files : BOOLEAN]

IsDraft(d) ==
  /\ d.role \in Roles /\ d.cmd \in Seq(Flags) /\ d.args \in Seq(Flags) /\ d.url \in Names \cup {None}
  /\ d.token \in {ClusterToken} \cup {r.token : r \in Requests}
  /\ d.mounts \in Seq({"images", "meminfo", "edac"}) /\ d.ports \in SUBSET {"api"}
  /\ d.init \in {"true", "false", None} /\ d.mem \in Nat /\ d.files \in BOOLEAN
  /\ d = [role |-> d.role, cmd |-> d.cmd, args |-> d.args, url |-> d.url, token |-> d.token, mounts |-> d.mounts,
          ports |-> d.ports, init |-> d.init, mem |-> d.mem, files |-> d.files]
LEMMA DraftRecord == ASSUME NEW d, IsDraft(d) PROVE d \in Drafts
BY DEF Drafts, IsDraft

San(role) == IF role = "server" THEN <<"san">> ELSE <<>>

\* What the runtime makes of the node that it is given.
LEMMA NodeCreated ==
  ASSUME NEW d \in Drafts
  PROVE  /\ NodeCreate(d) \in Containers
         /\ NodeCreate(d).role = d.role /\ NodeCreate(d).url = d.url /\ NodeCreate(d).token = d.token
         /\ NodeCreate(d).ports = d.ports /\ NodeCreate(d).init = d.init /\ NodeCreate(d).mem = d.mem
         /\ NodeCreate(d).files = d.files /\ NodeCreate(d).cmd = d.cmd \o (d.args \o San(d.role))
         /\ NodeCreate(d).mounts = d.mounts \o MemoryMounts(d)
<1> USE DEF Drafts
<1>1. San(d.role) \in Seq(Flags) /\ d.args \o San(d.role) \in Seq(Flags)
  <2>1. San(d.role) \in Seq(Flags)
    <3>1. "san" \in Flags
      BY DEF Flags
    <3>2. <<"san">> \in Seq(Flags) /\ <<>> \in Seq(Flags)
      BY <3>1
    <3> QED
      BY <3>2, Zenon DEF San
  <2> QED
    BY <2>1, Joined
<1>2. MemoryMounts(d) \in Seq({"images", "meminfo", "edac"})
  <2>1. <<>> \in Seq({"images", "meminfo", "edac"}) /\ <<"meminfo", "edac">> \in Seq({"images", "meminfo", "edac"})
    OBVIOUS
  <2> QED
    BY <2>1, Zenon DEF MemoryMounts
<1> PICK args : args = d.args \o San(d.role)
  OBVIOUS
<1> PICK mounts : mounts = d.mounts \o MemoryMounts(d)
  OBVIOUS
<1> PICK e : e = [d EXCEPT !.args = args, !.mounts = mounts]
  OBVIOUS
<1>3. args \in Seq(Flags) /\ mounts \in Seq({"images", "meminfo", "edac"})
  BY <1>1, <1>2, Joined
<1>4. e \in Drafts /\ e.args = args /\ e.mounts = mounts /\ e.cmd = d.cmd
  BY <1>3
<1>5. /\ e.role = d.role /\ e.url = d.url /\ e.token = d.token /\ e.ports = d.ports
      /\ e.init = d.init /\ e.mem = d.mem /\ e.files = d.files
  OBVIOUS
<1>6. NodeCreate(d) = [e EXCEPT !.cmd = e.cmd \o e.args, !.args = <<>>]
  BY DEF NodeCreate, TranslateNodeToContainer, San
<1> PICK cmd : cmd = e.cmd \o e.args
  OBVIOUS
<1>7. cmd \in Seq(Flags)
  BY <1>3, <1>4, Joined
<1> PICK n : n = [e EXCEPT !.cmd = cmd, !.args = <<>>]
  OBVIOUS
<1>8. n \in Containers
  BY <1>4, <1>7 DEF Containers
<1>9. /\ n.role = e.role /\ n.url = e.url /\ n.token = e.token /\ n.ports = e.ports
      /\ n.init = e.init /\ n.mem = e.mem /\ n.files = e.files /\ n.cmd = cmd /\ n.mounts = e.mounts
  BY <1>4
<1> QED
  BY <1>4, <1>5, <1>6, <1>8, <1>9

\* The files of a node are read and written, or not.
LEMMA FilesKept ==
  ASSUME NEW n \in Containers, NEW k \in BOOLEAN
  PROVE  /\ [n EXCEPT !.files = k] \in Containers /\ [n EXCEPT !.files = k].files = k
         /\ [n EXCEPT !.files = k].role = n.role /\ [n EXCEPT !.files = k].url = n.url
         /\ [n EXCEPT !.files = k].token = n.token /\ [n EXCEPT !.files = k].ports = n.ports
         /\ [n EXCEPT !.files = k].init = n.init /\ [n EXCEPT !.files = k].mem = n.mem
         /\ [n EXCEPT !.files = k].cmd = n.cmd /\ [n EXCEPT !.files = k].mounts = n.mounts
BY DEF Containers

\* The first node of the roles is one of the snapshot's, if there is any.
LEMMA FirstOfIs ==
  ASSUME NEW S, snap \in Seq(S), NEW roles, FirstOf(roles) # None
  PROVE  \E i \in DOMAIN snap : FirstOf(roles) = snap[i].name /\ snap[i].role \in roles
<1> DEFINE I == {j \in 1 .. Len(snap) : snap[j].role \in roles}
           i == IF I # {} THEN Min(I) ELSE 0
<1>1. FirstOf(roles) = IF i = 0 THEN None ELSE snap[i].name
  BY DEF FirstOf, SelectInSeq
<1>2. I # {} /\ FirstOf(roles) = snap[Min(I)].name
  BY <1>1
<1>3. I \in SUBSET Nat
  OBVIOUS
<1>4. Min(I) \in I
  BY <1>2, <1>3, MinElement, Zenon
<1>5. DOMAIN snap = 1 .. Len(snap)
  OBVIOUS
<1> QED
  BY <1>2, <1>4, <1>5

\* Reading a limit that was written does not make it smaller.
LEMMA Rereading == ASSUME NEW m \in Nat PROVE Reread(m) \in Nat /\ Reread(m) >= m
<1>1. CASE m < Gigabyte
  <2>1. m * 104858 + 50000 \in Nat /\ m * 104858 + 50000 >= 100000 * m
    OBVIOUS
  <2>2. \A a \in Nat : a >= 100000 * m => (a \div 100000) \in Nat /\ (a \div 100000) >= m
    OBVIOUS
  <2> QED
    BY <1>1, <2>1, <2>2 DEF Reread
<1>2. CASE ~(m < Gigabyte)
  <2> DEFINE g == (m * 104858 + 500000) \div 1000000
             u == (g * 1024) \div 100
  <2>1. m >= 9537
    BY <1>2 DEF Gigabyte
  <2>2. g \in Nat /\ 1000000 * g >= m * 104858 - 500000
    OBVIOUS
  <2>3. u \in Nat /\ 100 * u >= g * 1024 - 100
    <3> PICK a : a = g * 1024
      OBVIOUS
    <3>1. a \in Nat
      BY <2>2
    <3>2. (a \div 100) \in Nat /\ 100 * (a \div 100) >= a - 100
      BY <3>1
    <3> QED
      BY <3>2
  <2> HIDE DEF g, u
  <2>4. u >= m
    BY <2>1, <2>2, <2>3
  <2> QED
    BY <1>2, <2>3, <2>4 DEF Reread, g, u
<1> QED
  BY <1>1, <1>2

\* Of which kind every container is: it runs the command of its role and shows its limit.
Sound(c) == Len(c.cmd) >= 1 /\ c.cmd[1] = c.role /\ c.mounts = <<"images">> \o MemoryMounts(c)

\* The flag of the initializing server is in a command once at most, or not at all.
Once(cmd) == \A i, j \in DOMAIN cmd : cmd[i] = "init" /\ cmd[j] = "init" => i = j
Without(cmd) == \A i \in DOMAIN cmd : cmd[i] # "init"

\* What a command keeps of the one it was made from with arguments.
Extends(cmd, cmd0, args) ==
  /\ cmd \in Seq(Flags) /\ Len(cmd) >= 1 /\ cmd[1] = cmd0[1]
  /\ Without(cmd0) /\ Len(args) <= 1 => Once(cmd)
  /\ Without(cmd0) /\ Len(args) = 0 => Without(cmd)

\* A command with arguments and what the role adds to it.
LEMMA Commands ==
  ASSUME NEW cmd0 \in Seq(Flags), Len(cmd0) >= 1, NEW args \in Seq({"init"}), NEW role
  PROVE  Extends(cmd0 \o (args \o San(role)), cmd0, args)
<1> PICK cmd : cmd = cmd0 \o (args \o San(role))
  OBVIOUS
<1> PICK san : san = San(role)
  OBVIOUS
<1>1. san \in Seq(Flags) /\ \A i \in DOMAIN san : san[i] # "init"
  <2>1. "san" \in Flags
    BY DEF Flags
  <2>2. <<"san">> \in Seq(Flags) /\ <<>> \in Seq(Flags) /\ DOMAIN <<"san">> = {1} /\ DOMAIN <<>> = {}
    BY <2>1
  <2>3. \A i \in DOMAIN <<"san">> : <<"san">>[i] # "init"
    BY <2>2
  <2> QED
    BY <2>2, <2>3, Zenon DEF San
<1>2. args \in Seq(Flags) /\ \A i \in 1 .. Len(args) : args[i] = "init"
  BY DEF Flags
<1> PICK more : more = args \o san
  OBVIOUS
<1>3. more \in Seq(Flags) /\ Len(more) = Len(args) + Len(san)
  BY <1>1, <1>2, Joined
<1>4. /\ \A i \in 1 .. Len(args) : more[i] = args[i]
      /\ \A i \in 1 .. Len(san) : more[Len(args) + i] = san[i]
  BY <1>1, <1>2, Joined
<1>5. \A i \in 1 .. Len(more) : more[i] = "init" => i \in 1 .. Len(args)
  <2> SUFFICES ASSUME NEW i \in 1 .. Len(more), ~(i \in 1 .. Len(args)) PROVE more[i] # "init"
    OBVIOUS
  <2>1. i - Len(args) \in 1 .. Len(san) /\ Len(args) + (i - Len(args)) = i
    BY <1>1, <1>2, <1>3
  <2>2. more[i] = san[i - Len(args)]
    BY <1>4, <2>1
  <2> QED
    BY <1>1, <2>1, <2>2
<1>6. cmd \in Seq(Flags) /\ Len(cmd) = Len(cmd0) + Len(more)
  BY <1>3, Joined
<1>7. /\ \A i \in 1 .. Len(cmd0) : cmd[i] = cmd0[i]
      /\ \A i \in 1 .. Len(more) : cmd[Len(cmd0) + i] = more[i]
  BY <1>3, Joined
<1>8. ASSUME Without(cmd0), NEW i \in DOMAIN cmd, cmd[i] = "init"
      PROVE  i \in Len(cmd0) + 1 .. Len(cmd0) + Len(args)
  <2>1. i \in 1 .. Len(cmd)
    BY <1>6
  <2>2. ~(i \in 1 .. Len(cmd0))
    BY <1>7, <1>8 DEF Without
  <2>3. i - Len(cmd0) \in 1 .. Len(more) /\ Len(cmd0) + (i - Len(cmd0)) = i
    BY <1>3, <1>6, <2>1, <2>2
  <2>4. more[i - Len(cmd0)] = "init"
    BY <1>7, <1>8, <2>3
  <2>5. i - Len(cmd0) \in 1 .. Len(args)
    BY <1>5, <2>3, <2>4
  <2> QED
    BY <1>2, <2>1, <2>5
<1>9. Without(cmd0) /\ Len(args) <= 1 => Once(cmd)
  <2> SUFFICES ASSUME Without(cmd0), Len(args) <= 1, NEW i \in DOMAIN cmd, NEW j \in DOMAIN cmd,
                      cmd[i] = "init", cmd[j] = "init"
               PROVE  i = j
    BY DEF Once
  <2>1. i \in Len(cmd0) + 1 .. Len(cmd0) + Len(args) /\ j \in Len(cmd0) + 1 .. Len(cmd0) + Len(args)
    BY <1>8
  <2> QED
    BY <2>1
<1>10. Without(cmd0) /\ Len(args) = 0 => Without(cmd)
  <2> SUFFICES ASSUME Without(cmd0), Len(args) = 0, NEW i \in DOMAIN cmd, cmd[i] = "init" PROVE FALSE
    BY DEF Without
  <2>1. i \in Len(cmd0) + 1 .. Len(cmd0) + Len(args)
    BY <1>8
  <2> QED
    BY <2>1
<1>11. Len(cmd) >= 1 /\ cmd[1] = cmd0[1]
  BY <1>3, <1>6, <1>7
<1> QED
  BY <1>6, <1>9, <1>10, <1>11, Zenon DEF Extends

\* A container of the cluster to begin with.
LEMMA FirstNodeIs ==
  ASSUME NEW c \in Clusters, NEW n \in FirstNames(c)
  PROVE  LET f == FirstNode(c, n[1], n[2])
         IN  /\ f \in Containers /\ Sound(f) /\ f.role = n[1] /\ f.files = c.files
             /\ f.url \in {Server(0), None}
             /\ f.ports # {} => n = (IF c.lb THEN Lb ELSE Server(0))
             /\ f.role = "server" /\ n # Server(0) => Without(f.cmd)
             /\ c.servers = 1 \/ ~c.userInit => Once(f.cmd)
<1> DEFINE role == n[1]
           multi == c.servers > 1
           first == role = "server" /\ n[2] = 0
           args == (IF first /\ c.userInit THEN <<"init">> ELSE <<>>)
                    \o (IF first /\ multi THEN <<"init">> ELSE <<>>)
           d == [role   |-> role, cmd |-> <<role>>, args   |-> args,
                 url    |-> IF role = "agent" \/ (role = "server" /\ multi /\ ~first) THEN Server(0) ELSE None,
                 token  |-> ClusterToken,
                 mounts |-> <<"images">>,
                 ports  |-> IF role = "loadbalancer" \/ (first /\ ~c.lb) THEN {"api"} ELSE {},
                 init   |-> IF role = "server" /\ multi THEN (IF first THEN "true" ELSE "false") ELSE None,
                 mem    |-> IF role = "server" THEN c.mem ELSE 0,
                 files  |-> c.files]
<1>1. FirstNode(c, n[1], n[2]) = NodeCreate(d)
  BY DEF FirstNode
<1>2. c.servers \in Nat \ {0} /\ c.agents \in Nat /\ c.mem \in Nat /\ c.lb \in BOOLEAN /\ c.files \in BOOLEAN /\ c.userInit \in BOOLEAN
  BY NodeAddAssumption
<1>3. \/ \E i \in Nat : n = Server(i)
      \/ \E i \in Nat : n = Agent(i)
      \/ n = Lb /\ c.lb
  BY <1>2 DEF FirstNames
<1>4. /\ role \in Roles /\ role \in Flags /\ (role = "loadbalancer" => n = Lb /\ c.lb)
      /\ (first => n = Server(0)) /\ (role = "server" /\ ~first => n # Server(0))
  BY <1>3 DEF Server, Agent, Lb, Roles, Flags
<1>5. Server(0) \in Names
  <2>1. Server(0) \in FirstNames(c)
    BY <1>2 DEF FirstNames
  <2> QED
    BY <2>1 DEF Names
<1>6. args \in Seq({"init"}) /\ (Len(args) # 0 => first) /\ (c.servers = 1 \/ ~c.userInit => Len(args) <= 1)
  <2>1. ASSUME NEW P, NEW Q
        PROVE  /\ (IF P THEN <<"init">> ELSE <<>>) \in Seq({"init"})
               /\ Len(IF P THEN <<"init">> ELSE <<>>) = IF P THEN 1 ELSE 0
    <3>1. <<"init">> \in Seq({"init"}) /\ <<>> \in Seq({"init"}) /\ Len(<<"init">>) = 1 /\ Len(<<>>) = 0
      OBVIOUS
    <3>2. CASE P
      BY <3>1, <3>2
    <3>3. CASE ~P
      BY <3>1, <3>3
    <3> QED
      BY <3>2, <3>3
  <2> DEFINE s == IF first /\ c.userInit THEN <<"init">> ELSE <<>>
             t == IF first /\ multi THEN <<"init">> ELSE <<>>
  <2>2. /\ s \in Seq({"init"}) /\ Len(s) = IF first /\ c.userInit THEN 1 ELSE 0
        /\ t \in Seq({"init"}) /\ Len(t) = IF first /\ multi THEN 1 ELSE 0
    BY <2>1, Zenon
  <2>3. args = s \o t
    OBVIOUS
  <2>4. c.servers = 1 => ~multi
    BY <1>2
  <2> HIDE DEF first, multi, s, t, args
  <2>5. args \in Seq({"init"}) /\ Len(args) = Len(s) + Len(t)
    BY <2>2, <2>3, Joined
  <2> QED
    BY <2>2, <2>4, <2>5
<1>7. PICK e : e = d
  OBVIOUS
<1>8. e \in Drafts
  <2>1. e.role \in Roles /\ e.cmd \in Seq(Flags) /\ e.args \in Seq(Flags)
    BY <1>4, <1>6, <1>7 DEF Flags
  <2>2. e.url \in Names \cup {None} /\ e.token = ClusterToken /\ e.mounts \in Seq({"images", "meminfo", "edac"})
    BY <1>5, <1>7
  <2>3. e.ports \in SUBSET {"api"} /\ e.init \in {"true", "false", None}
    BY <1>7
  <2>4. e.mem \in Nat /\ e.files \in BOOLEAN
    BY <1>2, <1>7
  <2>5. e = [role |-> e.role, cmd |-> e.cmd, args |-> e.args, url |-> e.url, token |-> e.token, mounts |-> e.mounts,
             ports |-> e.ports, init |-> e.init, mem |-> e.mem, files |-> e.files]
    BY <1>7
  <2> QED
    <3>1. e.token \in {ClusterToken} \cup {r.token : r \in Requests}
      BY <2>2
    <3>2. IsDraft(e)
      BY <2>1, <2>2, <2>3, <2>4, <2>5, <3>1, Zenon DEF IsDraft
    <3> QED
      BY <3>2, DraftRecord
<1>9. /\ e.role = role /\ e.cmd = <<role>> /\ e.args = args /\ e.url \in {Server(0), None} /\ e.mounts = <<"images">>
      /\ (e.ports # {} => role = "loadbalancer" \/ (first /\ ~c.lb)) /\ e.files = c.files
  BY <1>7
<1> PICK f : f = NodeCreate(e)
  OBVIOUS
<1>10. f = FirstNode(c, n[1], n[2])
  BY <1>1, <1>7
<1>11. /\ f \in Containers /\ f.role = role /\ f.files = c.files /\ f.url \in {Server(0), None}
       /\ f.ports = e.ports /\ f.cmd = <<role>> \o (args \o San(role)) /\ f.mounts = <<"images">> \o MemoryMounts(e)
       /\ MemoryMounts(e) = MemoryMounts(f)
  <2>1. f.mem = e.mem
    BY <1>8, NodeCreated
  <2>2. MemoryMounts(e) = MemoryMounts(f)
    BY <2>1 DEF MemoryMounts
  <2> HIDE DEF args, role
  <2> QED
    BY <1>8, <1>9, <2>2, NodeCreated
<1> HIDE DEF args, first, multi, d
<1>12. <<role>> \in Seq(Flags) /\ Len(<<role>>) = 1 /\ <<role>>[1] = role /\ Without(<<role>>)
  BY <1>4 DEF Without, Roles
<1>13. /\ Len(f.cmd) >= 1 /\ f.cmd[1] = role
       /\ Len(args) <= 1 => Once(f.cmd)
       /\ Len(args) = 0 => Without(f.cmd)
  <2> HIDE DEF role
  <2> PICK cmd0 : cmd0 = <<role>>
    OBVIOUS
  <2>1. cmd0 \in Seq(Flags) /\ Len(cmd0) >= 1 /\ cmd0[1] = role /\ Without(cmd0) /\ f.cmd = cmd0 \o (args \o San(role))
    BY <1>11, <1>12
  <2>2. args \in Seq({"init"})
    BY <1>6
  <2> PICK cmd : cmd = f.cmd
    OBVIOUS
  <2>3. /\ Len(cmd) >= 1 /\ cmd[1] = cmd0[1]
        /\ Without(cmd0) /\ Len(args) <= 1 => Once(cmd)
        /\ Without(cmd0) /\ Len(args) = 0 => Without(cmd)
    <3> DEFINE new == cmd0 \o (args \o San(role))
    <3>1. Extends(new, cmd0, args)
      BY <2>1, <2>2, Commands, Zenon
    <3> HIDE DEF new
    <3>2. cmd = new
      BY <2>1 DEF new
    <3> QED
      BY <3>1, <3>2 DEF Extends
  <2> QED
    BY <2>1, <2>3
<1>14. f.ports # {} => n = (IF c.lb THEN Lb ELSE Server(0))
  BY <1>4, <1>9, <1>11
<1>15. f.role = "server" /\ n # Server(0) => Without(f.cmd)
  BY <1>4, <1>6, <1>11, <1>13
<1> QED
  BY <1>6, <1>10, <1>11, <1>13, <1>14, <1>15 DEF Sound

\* A copy of a container: what a replica of a command is made of.
CopyOf(r, c) == Copied(r, Sanitized(r, TranslateContainerDetailsToNode(c)))

\* The URL of the source or the registration node's.
UrlOf(url) == IF url # None /\ url \in Known THEN url ELSE RegistrationNode

LEMMA CopyDrafted ==
  ASSUME NEW r \in Requests, NEW c \in Containers, Sound(c), c.role # "loadbalancer",
         FirstOf({r.role}) # None => c.role = r.role,
         r.role = "server" => ~r.init /\ CutFlags(r, c) # Panics,
         UrlOf(c.url) \in Names
  PROVE  LET d == CopyOf(r, c)
         IN  /\ d \in Drafts /\ d.role = r.role /\ d.url = UrlOf(c.url)
             /\ d.token = IF r.token # None THEN r.token ELSE c.token
             /\ d.mounts = <<"images">> /\ d.ports = {} /\ d.files = c.files
             /\ r.mem = 0 => IF c.role = r.role THEN d.mem >= c.mem ELSE d.mem = 0
             /\ d.cmd \in Seq(Flags) /\ Len(d.cmd) >= 1 /\ d.cmd[1] = r.role
             /\ d.args \in Seq({"init"}) /\ (r.role = "server" => Len(d.args) = 0)
             /\ r.role = "server" /\ (c.role = "server" => Once(c.cmd)) => Without(d.cmd)
<1> PICK cut : cut = CutFlags(r, c)
  OBVIOUS
<1>r. r.role \in {"server", "agent"} /\ r.mem \in Nat /\ r.init \in BOOLEAN
  BY NodeAddAssumption
<1>c. c.cmd \in Seq(Flags) /\ c.role \in Roles /\ c.mem \in Nat /\ Reread(c.mem) \in Nat /\ Reread(c.mem) >= c.mem
  BY Rereading DEF Containers
<1>1. cut \in Seq(Flags) /\ Len(cut) >= 1 /\ cut[1] = c.role
  <2>1. CASE r.role = "server"
    <3>1. c.cmd # <<>>
      BY <1>c DEF Sound
    <3>2. c.cmd[1] # "init"
      BY <1>c DEF Sound, Roles
    <3>3. Dropped(c.cmd, "init", "shift") # Panics /\ cut = Dropped(c.cmd, "init", "shift")
      BY <2>1 DEF CutFlags
    <3>4. /\ Dropped(c.cmd, "init", "shift") \in Seq(Flags) /\ Len(Dropped(c.cmd, "init", "shift")) >= 1
          /\ Dropped(c.cmd, "init", "shift")[1] = c.cmd[1]
      BY <1>c, <3>1, <3>2, <3>3, DroppedKeepsFirst
    <3> QED
      BY <3>3, <3>4 DEF Sound
  <2>2. CASE r.role # "server"
    BY <1>c, <2>2 DEF CutFlags, Sound
  <2> QED
    BY <2>1, <2>2
<1>2. r.role = "server" /\ Once(c.cmd) => Without(cut)
  <2> SUFFICES ASSUME r.role = "server", Once(c.cmd) PROVE Without(cut)
    OBVIOUS
  <2>1. cut = Dropped(c.cmd, "init", "shift")
    BY DEF CutFlags
  <2>2. \A i \in DOMAIN Dropped(c.cmd, "init", "shift") : Dropped(c.cmd, "init", "shift")[i] # "init"
    BY <1>c, DroppedOnce DEF Once
  <2> QED
    BY <2>1, <2>2 DEF Without
<1>3. DropMounts(c) = <<"images">>
  BY MountsDropped DEF Sound
<1> PICK s : s = TranslateContainerDetailsToNode(c)
  OBVIOUS
<1>4. /\ s \in Containers /\ s.mem = Reread(c.mem) /\ s.cmd = c.cmd /\ s.mounts = c.mounts /\ s.role = c.role
      /\ s.url = c.url /\ s.token = c.token /\ s.init = c.init /\ s.files = c.files
  BY <1>c DEF TranslateContainerDetailsToNode, Containers
<1>5. CutFlags(r, s) = cut /\ DropMounts(s) = <<"images">>
  BY <1>3, <1>4 DEF CutFlags, DropMounts
<1> PICK mem : mem = IF c.role = r.role THEN Reread(c.mem) ELSE 0
  OBVIOUS
<1>6. mem \in Nat
  BY <1>c
<1> PICK t : t = [s EXCEPT !.cmd = cut, !.mounts = <<"images">>, !.ports = {}, !.mem = mem]
  OBVIOUS
<1>7. Sanitized(r, s) = t
  BY <1>4, <1>5 DEF Sanitized
<1>8. /\ t \in Containers /\ t.cmd = cut /\ t.mounts = <<"images">> /\ t.ports = {} /\ t.mem = mem
      /\ t.role = c.role /\ t.url = c.url /\ t.token = c.token /\ t.init = c.init /\ t.files = c.files
  <2>1. <<"images">> \in Seq({"images", "meminfo", "edac"})
    OBVIOUS
  <2> QED
    BY <1>1, <1>4, <1>6, <2>1 DEF Containers
<1> PICK cmd : cmd = IF FirstOf({r.role}) # None THEN cut ELSE <<r.role>>
  OBVIOUS
<1>9. cmd \in Seq(Flags) /\ Len(cmd) >= 1 /\ cmd[1] = r.role
  <2>1. r.role \in Flags
    BY <1>r DEF Flags, Roles
  <2>2. <<r.role>> \in Seq(Flags) /\ Len(<<r.role>>) >= 1 /\ <<r.role>>[1] = r.role
    BY <2>1
  <2> QED
    BY <1>1, <2>2, Zenon
<1> PICK args : args = IF r.init THEN <<"init">> ELSE <<>>
  OBVIOUS
<1>10. args \in Seq({"init"}) /\ args \in Seq(Flags) /\ (r.role = "server" => Len(args) = 0)
  <2>1. <<"init">> \in Seq({"init"}) /\ <<>> \in Seq({"init"}) /\ Len(<<>>) = 0
    OBVIOUS
  <2>2. CASE r.init
    <3>1. <<"init">> \in Seq(Flags)
      BY DEF Flags
    <3> QED
      BY <2>1, <2>2, <3>1
  <2>3. CASE ~r.init
    <3>1. <<>> \in Seq(Flags)
      OBVIOUS
    <3> QED
      BY <2>1, <2>3, <3>1
  <2> QED
    BY <2>2, <2>3
<1> PICK limit : limit = IF r.mem # 0 THEN r.mem ELSE mem
  OBVIOUS
<1> PICK url : url = UrlOf(c.url)
  OBVIOUS
<1> PICK token : token = IF r.token # None THEN r.token ELSE c.token
  OBVIOUS
<1>11. limit \in Nat /\ url \in Names /\ token \in {ClusterToken} \cup {q.token : q \in Requests}
  BY <1>r, <1>6 DEF Containers
<1> PICK d : d = [t EXCEPT !.role = r.role, !.cmd = cmd, !.args = args, !.mem = limit, !.url = url, !.token = token]
  OBVIOUS
<1>12. CopyOf(r, c) = d
  <2>1. UrlFor(t) = url
    BY <1>8 DEF UrlFor, UrlOf
  <2>2. /\ (IF FirstOf({r.role}) # None THEN t.cmd ELSE <<r.role>>) = cmd
        /\ (IF r.mem # 0 THEN r.mem ELSE t.mem) = limit
        /\ (IF r.token # None THEN r.token ELSE t.token) = token
    BY <1>8
  <2>3. Copied(r, t) = [t EXCEPT !.role = r.role, !.cmd = cmd, !.args = args, !.mem = limit, !.url = url, !.token = token]
    BY <2>1, <2>2, Zenon DEF Copied
  <2> QED
    BY <1>7, <2>3 DEF CopyOf
<1>13. /\ d \in Drafts /\ d.role = r.role /\ d.cmd = cmd /\ d.args = args /\ d.mem = limit /\ d.url = url /\ d.token = token
       /\ d.mounts = <<"images">> /\ d.ports = {} /\ d.files = c.files
  <2>1. r.role \in Roles
    BY <1>r DEF Roles
  <2>2. /\ d.role = r.role /\ d.cmd = cmd /\ d.args = args /\ d.mem = limit /\ d.url = url /\ d.token = token
        /\ d.mounts = t.mounts /\ d.ports = t.ports /\ d.files = t.files /\ d.init = t.init
    BY <1>8 DEF Containers
  <2>3. d = [role |-> d.role, cmd |-> d.cmd, args |-> d.args, url |-> d.url, token |-> d.token, mounts |-> d.mounts,
             ports |-> d.ports, init |-> d.init, mem |-> d.mem, files |-> d.files]
    BY <1>8 DEF Containers
  <2>4. /\ t.mounts \in Seq({"images", "meminfo", "edac"}) /\ t.ports \in SUBSET {"api"}
        /\ t.files \in BOOLEAN /\ t.init \in {"true", "false", None}
    BY <1>8 DEF Containers
  <2>5. d \in Drafts
    <3>1. /\ d.role \in Roles /\ d.cmd \in Seq(Flags) /\ d.args \in Seq(Flags) /\ d.url \in Names \cup {None}
          /\ d.token \in {ClusterToken} \cup {q.token : q \in Requests} /\ d.mem \in Nat
          /\ d.mounts \in Seq({"images", "meminfo", "edac"}) /\ d.ports \in SUBSET {"api"}
          /\ d.files \in BOOLEAN /\ d.init \in {"true", "false", None}
      BY <1>9, <1>10, <1>11, <2>1, <2>2, <2>4
    <3>2. IsDraft(d)
      BY <2>3, <3>1, Zenon DEF IsDraft
    <3> QED
      BY <3>2, DraftRecord
  <2> QED
    BY <1>8, <2>2, <2>5
<1>18. r.mem = 0 => IF c.role = r.role THEN d.mem >= c.mem ELSE d.mem = 0
  <2> SUFFICES ASSUME r.mem = 0 PROVE IF c.role = r.role THEN d.mem >= c.mem ELSE d.mem = 0
    OBVIOUS
  <2>1. d.mem = mem
    BY <1>13
  <2>2. CASE c.role = r.role
    BY <1>c, <2>1, <2>2
  <2>3. CASE c.role # r.role
    BY <2>1, <2>3
  <2> QED
    BY <2>2, <2>3
<1>19. r.role = "server" /\ (c.role = "server" => Once(c.cmd)) => Without(cmd)
  <2>1. r.role = "server" => Without(<<r.role>>)
    BY DEF Without
  <2> QED
    BY <1>2, <2>1
<1> QED
  BY <1>9, <1>10, <1>12, <1>13, <1>18, <1>19

LEMMA CopyIs ==
  ASSUME NEW r \in Requests, NEW c \in Containers, Sound(c), c.role # "loadbalancer",
         FirstOf({r.role}) # None => c.role = r.role,
         r.role = "server" => ~r.init /\ CutFlags(r, c) # Panics,
         UrlOf(c.url) \in Names
  PROVE  LET n == NodeCreate(CopyOf(r, c))
         IN  /\ n \in Containers /\ Sound(n) /\ n.role = r.role /\ n.url = UrlOf(c.url)
             /\ n.token = IF r.token # None THEN r.token ELSE c.token
             /\ n.ports = {} /\ n.files = c.files
             /\ r.mem = 0 => IF c.role = r.role THEN n.mem >= c.mem ELSE n.mem = 0
             /\ r.role = "server" /\ (c.role = "server" => Once(c.cmd)) => Without(n.cmd)
<1> PICK d : d = CopyOf(r, c)
  OBVIOUS
<1>1. /\ d \in Drafts /\ d.role = r.role /\ d.url = UrlOf(c.url)
      /\ d.token = IF r.token # None THEN r.token ELSE c.token
      /\ d.mounts = <<"images">> /\ d.ports = {} /\ d.files = c.files
      /\ r.mem = 0 => IF c.role = r.role THEN d.mem >= c.mem ELSE d.mem = 0
      /\ d.cmd \in Seq(Flags) /\ Len(d.cmd) >= 1 /\ d.cmd[1] = r.role
      /\ d.args \in Seq({"init"}) /\ (r.role = "server" => Len(d.args) = 0)
      /\ r.role = "server" /\ (c.role = "server" => Once(c.cmd)) => Without(d.cmd)
  BY CopyDrafted
<1> PICK n : n = NodeCreate(d)
  OBVIOUS
<1>2. /\ n \in Containers /\ n.role = d.role /\ n.url = d.url /\ n.token = d.token /\ n.ports = d.ports
      /\ n.files = d.files /\ n.mem = d.mem /\ n.cmd = d.cmd \o (d.args \o San(d.role))
      /\ n.mounts = d.mounts \o MemoryMounts(d)
  BY <1>1, NodeCreated
<1>3. n.mounts = <<"images">> \o MemoryMounts(n)
  <2>1. MemoryMounts(d) = MemoryMounts(n)
    BY <1>2 DEF MemoryMounts
  <2>2. n.mounts = d.mounts \o MemoryMounts(d) /\ d.mounts = <<"images">>
    BY <1>1, <1>2
  <2> QED
    BY <2>1, <2>2
<1> DEFINE all == d.cmd \o (d.args \o San(d.role))
<1>4. /\ Len(all) >= 1 /\ all[1] = d.cmd[1]
      /\ Without(d.cmd) /\ Len(d.args) = 0 => Without(all)
  <2>1. d.cmd \in Seq(Flags) /\ Len(d.cmd) >= 1 /\ d.args \in Seq({"init"})
    BY <1>1
  <2>2. Extends(all, d.cmd, d.args)
    BY <2>1, Commands, Zenon
  <2> QED
    BY <2>2 DEF Extends
<1> HIDE DEF all
<1>5. n.cmd = all
  BY <1>2 DEF all
<1>6. Sound(n)
  <2>1. Len(n.cmd) >= 1 /\ n.cmd[1] = n.role
    BY <1>1, <1>2, <1>4, <1>5
  <2> QED
    BY <1>3, <2>1 DEF Sound
<1> QED
  BY <1>1, <1>2, <1>4, <1>5, <1>6

\* Every container is of the kind above; at most one publishes a port; the files of the
\* k3s nodes are the same; the initializing server's flag is its own.
NodesSound == \A n \in Nodes : Sound(node[n])
OnePort == \E p \in Names : \A n \in Nodes : n # p => node[n].ports = {}
SameFiles ==
  "fileLost" \notin troubles =>
    \E f \in BOOLEAN : \A n \in Nodes : node[n].role # "loadbalancer" => node[n].files = f
FlagOnce ==
  "doubled" \notin troubles =>
    \A n \in Nodes : node[n].role = "server" =>
      Once(node[n].cmd) /\ (n # Server(0) => Without(node[n].cmd))

\* What was read of the cluster: a node that is gone was deleted meanwhile, and no node
\* that k3s runs in has become a load balancer.
Reading ==
  \A i \in DOMAIN snap :
    /\ node[snap[i].name] = None => "raced" \in troubles
    /\ snap[i].role # "loadbalancer" /\ node[snap[i].name] # None =>
         node[snap[i].name].role # "loadbalancer"

\* A node that comes again under the name of one that was read is a replica.
RolesRead ==
  \A i \in DOMAIN snap :
    node[snap[i].name] # None => node[snap[i].name].role \in {snap[i].role, request.role}

\* As long as no name comes again, a name stands for one role.
RoleOf(u) == IF u \in New THEN node[u].role ELSE u[1]
Joinable(u) == (u \in New => node[u] # None) /\ RoleOf(u) # "agent"
NamesStand ==
  /\ \A n \in Nodes : n \notin New => node[n].role = n[1]
  /\ "reused" \notin troubles =>
       /\ \A n \in Nodes : node[n].url # None => Joinable(node[n].url)
       /\ \A i \in DOMAIN snap : /\ snap[i].name \in New => node[snap[i].name] # None
                                 /\ snap[i].role = RoleOf(snap[i].name)
Inv ==
  TypeOK /\ NodesSound /\ OnePort /\ SameFiles /\ FlagOnce /\ Reading /\ RolesRead /\ NamesStand

\* The nodes that are copied and joined are nodes that were read.
LEMMA ElementOf == ASSUME NEW S, NEW s \in Seq(S), NEW i \in DOMAIN s PROVE s[i] \in S
OBVIOUS

LEMMA ReadNames ==
  ASSUME NEW s \in Seq([name : Names, role : Roles])
  PROVE  \A i \in DOMAIN s : s[i].name \in Names
<1> TAKE i \in DOMAIN s
<1>1. s[i] \in [name : Names, role : Roles]
  BY ElementOf, Zenon
<1> QED
  BY <1>1

LEMMA SourceIs ==
  ASSUME TypeOK, NEW r \in Requests, SourceOf(r) # None
  PROVE  \E i \in DOMAIN snap : SourceOf(r) = snap[i].name /\ snap[i].role # "loadbalancer"
<1>1. r.role \in {"server", "agent"}
  BY NodeAddAssumption
<1>2. snap \in Seq([name : Names, role : Roles])
  BY DEF TypeOK
<1>3. CASE FirstOf({r.role}) # None
  <2>1. SourceOf(r) = FirstOf({r.role})
    BY <1>3 DEF SourceOf
  <2>2. \E i \in DOMAIN snap : FirstOf({r.role}) = snap[i].name /\ snap[i].role \in {r.role}
    BY <1>2, <1>3, FirstOfIs
  <2> QED
    BY <1>1, <2>1, <2>2
<1>4. CASE FirstOf({r.role}) = None
  <2>1. SourceOf(r) = FirstOf({"server", "agent"})
    BY <1>4 DEF SourceOf
  <2>2. \E i \in DOMAIN snap : FirstOf({"server", "agent"}) = snap[i].name /\ snap[i].role \in {"server", "agent"}
    BY <1>2, <2>1, FirstOfIs
  <2> QED
    BY <2>1, <2>2
<1> QED
  BY <1>3, <1>4

LEMMA RegistrationIs ==
  ASSUME TypeOK, RegistrationNode # None
  PROVE  \E i \in DOMAIN snap : RegistrationNode = snap[i].name /\ snap[i].role # "agent"
<1>1. snap \in Seq([name : Names, role : Roles])
  BY DEF TypeOK
<1>2. \A R : FirstOf(R) # None => \E i \in DOMAIN snap : FirstOf(R) = snap[i].name /\ snap[i].role \in R
  BY <1>1, FirstOfIs
<1>3. RegistrationNode = FirstOf({"loadbalancer"}) \/ RegistrationNode = FirstOf({"server"})
  BY DEF RegistrationNode
<1> QED
  BY <1>2, <1>3

\* The elements of two sequences, and of a sequence without one of its elements.
LEMMA JoinedSet ==
  ASSUME NEW S, NEW s \in Seq(S), NEW t \in Seq(S)
  PROVE  /\ ToSet(s \o t) = ToSet(s) \cup ToSet(t)
         /\ IsInjective(s) /\ IsInjective(t) /\ ToSet(s) \cap ToSet(t) = {} => IsInjective(s \o t)
<1> PICK u : u = s \o t
  OBVIOUS
<1>1. /\ u \in Seq(S) /\ Len(u) = Len(s) + Len(t)
      /\ \A i \in 1 .. Len(s) : u[i] = s[i]
      /\ \A i \in 1 .. Len(t) : u[Len(s) + i] = t[i]
  BY Joined
<1>2. /\ DOMAIN u = 1 .. Len(s) + Len(t) /\ DOMAIN s = 1 .. Len(s) /\ DOMAIN t = 1 .. Len(t)
      /\ Len(s) \in Nat /\ Len(t) \in Nat
  BY <1>1
<1>3. \A i \in DOMAIN u : \/ i \in DOMAIN s /\ u[i] = s[i]
                          \/ i \notin DOMAIN s /\ i - Len(s) \in DOMAIN t /\ u[i] = t[i - Len(s)]
  <2> SUFFICES ASSUME NEW i \in 1 .. Len(s) + Len(t), ~(i \in 1 .. Len(s))
               PROVE  i - Len(s) \in 1 .. Len(t) /\ u[i] = t[i - Len(s)]
    BY <1>1, <1>2
  <2>1. i - Len(s) \in 1 .. Len(t) /\ Len(s) + (i - Len(s)) = i
    BY <1>2
  <2> QED
    BY <1>1, <2>1
<1>4. ToSet(u) \subseteq ToSet(s) \cup ToSet(t)
  BY <1>3 DEF ToSet
<1>5. ToSet(s) \subseteq ToSet(u)
  <2>1. \A i \in DOMAIN s : i \in DOMAIN u /\ u[i] = s[i]
    BY <1>1, <1>2
  <2> QED
    BY <2>1 DEF ToSet
<1>6. ToSet(t) \subseteq ToSet(u)
  <2>1. \A i \in DOMAIN t : Len(s) + i \in DOMAIN u /\ u[Len(s) + i] = t[i]
    BY <1>1, <1>2
  <2> QED
    BY <2>1 DEF ToSet
<1>7. ASSUME IsInjective(s), IsInjective(t), ToSet(s) \cap ToSet(t) = {} PROVE IsInjective(u)
  <2> SUFFICES ASSUME NEW i \in DOMAIN u, NEW j \in DOMAIN u, u[i] = u[j] PROVE i = j
    BY DEF IsInjective
  <2>1. CASE i \in DOMAIN s /\ j \in DOMAIN s
    BY <1>3, <1>7, <2>1 DEF IsInjective
  <2>2. CASE i \in DOMAIN s /\ j \notin DOMAIN s
    <3>1. u[i] \in ToSet(s) /\ u[j] \in ToSet(t)
      BY <1>3, <2>2 DEF ToSet
    <3> QED
      BY <1>7, <3>1
  <2>3. CASE i \notin DOMAIN s /\ j \in DOMAIN s
    <3>1. u[i] \in ToSet(t) /\ u[j] \in ToSet(s)
      BY <1>3, <2>3 DEF ToSet
    <3> QED
      BY <1>7, <3>1
  <2>4. CASE i \notin DOMAIN s /\ j \notin DOMAIN s
    <3>1. i - Len(s) = j - Len(s)
      BY <1>3, <1>7, <2>4 DEF IsInjective
    <3> QED
      BY <1>2, <3>1
  <2> QED
    BY <2>1, <2>2, <2>3, <2>4
<1> QED
  BY <1>4, <1>5, <1>6, <1>7

LEMMA JoinedInjective ==
  ASSUME NEW S, NEW s \in Seq(S), NEW t \in Seq(S), IsInjective(s), IsInjective(t), ToSet(s) \cap ToSet(t) = {}
  PROVE  IsInjective(s \o t)
BY JoinedSet

LEMMA JoinedElements ==
  ASSUME NEW S, NEW s \in Seq(S), NEW t \in Seq(S)
  PROVE  ToSet(s \o t) = ToSet(s) \cup ToSet(t)
BY JoinedSet

LEMMA RemovedSet ==
  ASSUME NEW S, NEW s \in Seq(S), IsInjective(s), NEW k \in DOMAIN s
  PROVE  /\ RemoveAt(s, k) \in Seq(S) /\ IsInjective(RemoveAt(s, k))
         /\ ToSet(RemoveAt(s, k)) = ToSet(s) \ {s[k]}
<1> DEFINE a == SubSeq(s, 1, k - 1)
           b == SubSeq(s, k + 1, Len(s))
<1>0. DOMAIN s = 1 .. Len(s) /\ Len(s) \in Nat /\ k \in 1 .. Len(s)
  OBVIOUS
<1>1. a \in Seq(S) /\ Len(a) = k - 1 /\ \A i \in 1 .. k - 1 : a[i] = s[i]
  <2>1. k - 1 \in 0 .. Len(s)
    BY <1>0
  <2> QED
    BY <2>1, Prefix
<1>2. b \in Seq(S) /\ Len(b) = Len(s) - k /\ \A i \in 1 .. Len(s) - k : b[i] = s[k + i]
  BY <1>0
<1>3. RemoveAt(s, k) = a \o b
  BY DEF RemoveAt
<1> HIDE DEF a, b
<1>4. DOMAIN a = 1 .. k - 1 /\ DOMAIN b = 1 .. Len(s) - k
  BY <1>0, <1>1, <1>2
<1>5. IsInjective(a) /\ IsInjective(b)
  <2>1. IsInjective(a)
    BY <1>0, <1>1, <1>4 DEF IsInjective
  <2>2. ASSUME NEW i \in DOMAIN b, NEW j \in DOMAIN b, b[i] = b[j] PROVE i = j
    <3>1. k + i \in DOMAIN s /\ k + j \in DOMAIN s /\ s[k + i] = s[k + j]
      BY <1>0, <1>2, <1>4, <2>2
    <3>2. k + i = k + j
      BY <3>1 DEF IsInjective
    <3> QED
      BY <1>0, <1>4, <3>2
  <2> QED
    BY <2>1, <2>2 DEF IsInjective
<1>6. ASSUME NEW i \in DOMAIN a, NEW j \in DOMAIN b PROVE a[i] # b[j]
  <2>1. i \in 1 .. k - 1 /\ j \in 1 .. Len(s) - k
    BY <1>4
  <2>2. i \in DOMAIN s /\ k + j \in DOMAIN s /\ i # k + j
    BY <1>0, <2>1
  <2>3. a[i] = s[i] /\ b[j] = s[k + j]
    BY <1>1, <1>2, <2>1
  <2> QED
    BY <2>2, <2>3 DEF IsInjective
<1>7. ToSet(a) \cap ToSet(b) = {}
  BY <1>6 DEF ToSet
<1>8. ToSet(a) \cup ToSet(b) = ToSet(s) \ {s[k]}
  <2>1. ASSUME NEW i \in DOMAIN a PROVE a[i] \in ToSet(s) \ {s[k]}
    <3>1. i \in DOMAIN s /\ i # k /\ a[i] = s[i]
      BY <1>0, <1>1, <1>4
    <3> QED
      BY <3>1 DEF ToSet, IsInjective
  <2>2. ASSUME NEW i \in DOMAIN b PROVE b[i] \in ToSet(s) \ {s[k]}
    <3>1. k + i \in DOMAIN s /\ k + i # k /\ b[i] = s[k + i]
      BY <1>0, <1>2, <1>4
    <3> QED
      BY <3>1 DEF ToSet, IsInjective
  <2>3. ASSUME NEW i \in DOMAIN s, i # k PROVE s[i] \in ToSet(a) \cup ToSet(b)
    <3>1. CASE i < k
      <4>1. i \in DOMAIN a /\ a[i] = s[i]
        BY <1>0, <1>1, <1>4, <3>1
      <4> QED
        BY <4>1 DEF ToSet
    <3>2. CASE i > k
      <4>1. i - k \in DOMAIN b /\ k + (i - k) = i
        BY <1>0, <1>4, <3>2
      <4>2. b[i - k] = s[i]
        BY <1>2, <1>4, <4>1
      <4> QED
        BY <4>1, <4>2 DEF ToSet
    <3> QED
      BY <1>0, <2>3, <3>1, <3>2
  <2> QED
    BY <2>1, <2>2, <2>3 DEF ToSet
<1>9. a \o b \in Seq(S)
  BY <1>1, <1>2, Joined
<1> QED
  BY <1>1, <1>2, <1>3, <1>5, <1>7, <1>8, <1>9, JoinedSet

\* The cluster to begin with.
LEMMA FirstListed ==
  ASSUME NEW c \in Clusters
  PROVE  /\ FirstListing(c) \in Seq(Names) /\ IsInjective(FirstListing(c))
         /\ ToSet(FirstListing(c)) = FirstNames(c)
<1> DEFINE lb == IF c.lb THEN <<Lb>> ELSE <<>>
           agents == [i \in 1 .. c.agents |-> Agent(c.agents - i)]
           servers == [i \in 1 .. c.servers |-> Server(c.servers - i)]
           F == FirstNames(c)
<1>0. c.servers \in Nat /\ c.agents \in Nat /\ c.lb \in BOOLEAN
  BY NodeAddAssumption
<1>1. /\ lb \in Seq(F) /\ IsInjective(lb) /\ ToSet(lb) = IF c.lb THEN {Lb} ELSE {}
  <2>1. CASE c.lb
    <3>1. lb = <<Lb>>
      BY <2>1
    <3>2. Lb \in F
      BY <2>1 DEF FirstNames
    <3>3. <<Lb>> \in Seq(F) /\ DOMAIN <<Lb>> = {1} /\ <<Lb>>[1] = Lb
      BY <3>2
    <3> QED
      BY <2>1, <3>1, <3>3 DEF IsInjective, ToSet
  <2>2. CASE ~c.lb
    <3>1. lb = <<>>
      BY <2>2
    <3>2. <<>> \in Seq(F) /\ DOMAIN <<>> = {}
      OBVIOUS
    <3> QED
      BY <2>2, <3>1, <3>2 DEF IsInjective, ToSet
  <2> QED
    BY <1>0, <2>1, <2>2
<1>2. /\ agents \in Seq(F) /\ IsInjective(agents) /\ ToSet(agents) = {Agent(i) : i \in 0 .. c.agents - 1}
  <2>1. DOMAIN agents = 1 .. c.agents /\ \A i \in 1 .. c.agents : agents[i] = Agent(c.agents - i)
    OBVIOUS
  <2>2. \A i \in 1 .. c.agents : c.agents - i \in 0 .. c.agents - 1
    BY <1>0
  <2>3. \A i \in 1 .. c.agents : Agent(c.agents - i) \in F
    BY <2>2 DEF FirstNames
  <2>4. agents \in Seq(F)
    BY <1>0, <2>3
  <2>5. IsInjective(agents)
    BY <1>0, <2>1 DEF IsInjective, Agent
  <2>6. \A i \in 0 .. c.agents - 1 : c.agents - i \in 1 .. c.agents /\ c.agents - (c.agents - i) = i
    BY <1>0
  <2>7. ToSet(agents) = {Agent(i) : i \in 0 .. c.agents - 1}
    BY <2>1, <2>2, <2>6 DEF ToSet
  <2> QED
    BY <2>4, <2>5, <2>7
<1>3. /\ servers \in Seq(F) /\ IsInjective(servers) /\ ToSet(servers) = {Server(i) : i \in 0 .. c.servers - 1}
  <2>1. DOMAIN servers = 1 .. c.servers /\ \A i \in 1 .. c.servers : servers[i] = Server(c.servers - i)
    OBVIOUS
  <2>2. \A i \in 1 .. c.servers : c.servers - i \in 0 .. c.servers - 1
    BY <1>0
  <2>3. \A i \in 1 .. c.servers : Server(c.servers - i) \in F
    BY <2>2 DEF FirstNames
  <2>4. servers \in Seq(F)
    BY <1>0, <2>3
  <2>5. IsInjective(servers)
    BY <1>0, <2>1 DEF IsInjective, Server
  <2>6. \A i \in 0 .. c.servers - 1 : c.servers - i \in 1 .. c.servers /\ c.servers - (c.servers - i) = i
    BY <1>0
  <2>7. ToSet(servers) = {Server(i) : i \in 0 .. c.servers - 1}
    BY <2>1, <2>2, <2>6 DEF ToSet
  <2> QED
    BY <2>4, <2>5, <2>7
<1>4. FirstListing(c) = lb \o agents \o servers
  BY DEF FirstListing
<1> HIDE DEF lb, agents, servers
<1>5. lb \o agents \in Seq(F) /\ IsInjective(lb \o agents) /\ ToSet(lb \o agents) = ToSet(lb) \cup ToSet(agents)
  <2>1. ToSet(lb) \cap ToSet(agents) = {}
    BY <1>1, <1>2 DEF Lb, Agent
  <2> QED
    BY <1>1, <1>2, <2>1, Joined, JoinedSet
<1> PICK u : u = lb \o agents
  OBVIOUS
<1>6. u \o servers \in Seq(F) /\ IsInjective(u \o servers) /\ ToSet(u \o servers) = ToSet(u) \cup ToSet(servers)
  <2>1. ToSet(u) \cap ToSet(servers) = {}
    BY <1>1, <1>2, <1>3, <1>5 DEF Lb, Agent, Server
  <2>2. u \in Seq(F) /\ IsInjective(u) /\ servers \in Seq(F) /\ IsInjective(servers)
    BY <1>3, <1>5
  <2>3. u \o servers \in Seq(F)
    BY <2>2, Joined
  <2>4. IsInjective(u \o servers)
    BY <2>1, <2>2, JoinedInjective, Zenon
  <2>5. ToSet(u \o servers) = ToSet(u) \cup ToSet(servers)
    BY <2>2, JoinedSet, Zenon
  <2> QED
    BY <2>3, <2>4, <2>5
<1>7. F = ToSet(u) \cup ToSet(servers)
  BY <1>1, <1>2, <1>3, <1>5 DEF FirstNames
<1>8. F \subseteq Names
  BY DEF Names
<1>9. u \o servers \in Seq(Names)
  BY <1>6, <1>8
<1> QED
  BY <1>4, <1>6, <1>7, <1>9

LEMMA InvInit == Init => Inv
<1> SUFFICES ASSUME Init PROVE Inv
  OBVIOUS
<1> PICK c \in Clusters :
       /\ listing = FirstListing(c)
       /\ node = [n \in Names |-> IF n \in FirstNames(c) THEN FirstNode(c, n[1], n[2]) ELSE None]
       /\ request = None /\ snap = <<>> /\ todo = {} /\ count = 0
       /\ troubles = IF c.userInit /\ c.servers > 1 THEN {"doubled"} ELSE {}
  BY DEF Init
<1>c. c.servers \in Nat \ {0} /\ c.agents \in Nat /\ c.lb \in BOOLEAN /\ c.files \in BOOLEAN /\ c.userInit \in BOOLEAN
  BY NodeAddAssumption
<1>f. FirstNames(c) \subseteq Names
  BY DEF Names
<1>0. \A n \in FirstNames(c) :
        /\ node[n] \in Containers /\ Sound(node[n]) /\ node[n].role = n[1] /\ node[n].files = c.files
        /\ node[n].url \in {Server(0), None}
        /\ node[n].ports # {} => n = (IF c.lb THEN Lb ELSE Server(0))
        /\ node[n].role = "server" /\ n # Server(0) => Without(node[n].cmd)
        /\ c.servers = 1 \/ ~c.userInit => Once(node[n].cmd)
  <2> TAKE n \in FirstNames(c)
  <2>1. node[n] = FirstNode(c, n[1], n[2])
    BY <1>f
  <2> QED
    BY <2>1, FirstNodeIs
<1>1. Nodes = FirstNames(c)
  BY <1>0, <1>f, NodeAddAssumption DEF Nodes
<1>2. TypeOK
  <2>1. node \in [Names -> Containers \cup {None}]
    <3>1. \A n \in Names : node[n] \in Containers \cup {None}
      BY <1>0
    <3> QED
      BY <3>1
  <2>2. ToSet(listing) = Nodes /\ IsInjective(listing) /\ listing \in Seq(Names)
    BY <1>1, FirstListed
  <2>3. snap \in Seq([name : Names, role : Roles])
    OBVIOUS
  <2> QED
    BY <2>1, <2>2, <2>3, NodeAddAssumption DEF TypeOK
<1>3. NodesSound
  BY <1>0, <1>1 DEF NodesSound
<1>4. OnePort
  <2>1. (IF c.lb THEN Lb ELSE Server(0)) \in FirstNames(c)
    BY <1>c DEF FirstNames
  <2>2. \A n \in Nodes : n # (IF c.lb THEN Lb ELSE Server(0)) => node[n].ports = {}
    BY <1>0, <1>1
  <2> QED
    BY <1>f, <2>1, <2>2 DEF OnePort
<1>5. SameFiles
  BY <1>0, <1>1, <1>c DEF SameFiles
<1>6. FlagOnce
  <2> SUFFICES ASSUME "doubled" \notin troubles PROVE c.servers = 1 \/ ~c.userInit
    BY <1>0, <1>1 DEF FlagOnce
  <2> QED
    BY <1>c
<1>7. Reading
  <2>1. DOMAIN snap = {}
    OBVIOUS
  <2> QED
    BY <2>1 DEF Reading
<1>9. RolesRead
  <2>1. DOMAIN snap = {}
    OBVIOUS
  <2> QED
    BY <2>1 DEF RolesRead
<1>8. NamesStand
  <2>1. DOMAIN snap = {}
    OBVIOUS
  <2>2. Server(0) \in FirstNames(c) /\ Server(0)[1] = "server"
    BY <1>c DEF FirstNames, Server
  <2>3. node[Server(0)] # None /\ node[Server(0)].role = "server"
    BY <1>0, <2>2, NodeAddAssumption
  <2>4. Joinable(Server(0))
    BY <2>2, <2>3 DEF Joinable, RoleOf
  <2> QED
    BY <1>0, <1>1, <2>1, <2>4 DEF NamesStand
<1> QED
  BY <1>2, <1>3, <1>4, <1>5, <1>6, <1>7, <1>8, <1>9 DEF Inv

\* What a replica adds.
LEMMA Added ==
  ASSUME Inv, NEW n \in New, AddToCluster(n),
         NEW c, c = node[SourceOf(request)], NEW x, x = node'[n]
  PROVE  /\ request \in Requests /\ n \in Names /\ node[n] = None
         /\ SourceOf(request) \in Names /\ c \in Containers /\ c.role # "loadbalancer"
         /\ node' = [node EXCEPT ![n] = x] /\ x \in Containers /\ Sound(x)
         /\ x.role = request.role /\ x.role \in {"server", "agent"} /\ x.ports = {}
         /\ troubles' \in {troubles, troubles \cup {"fileLost"}}
         /\ "fileLost" \notin troubles' => x.files = c.files
         /\ x.url = UrlOf(c.url) /\ x.url \in Names
         /\ \E i \in DOMAIN snap : /\ snap[i].name = x.url
                                   /\ x.url = c.url \/ snap[i].role # "agent"
         /\ request.token # None => x.token = request.token
         /\ request.mem = 0 => IF c.role = request.role THEN x.mem >= c.mem ELSE x.mem = 0
         /\ "doubled" \notin troubles /\ x.role = "server" => Without(x.cmd)
<1> PICK r : r = request
  OBVIOUS
<1>t. /\ node \in [Names -> Containers \cup {None}] /\ snap \in Seq([name : Names, role : Roles])
      /\ request \in Requests \cup {None} /\ (request = None <=> todo = {})
  BY DEF Inv, TypeOK
<1>1. r \in Requests /\ n \in Names /\ node[n] = None /\ ~Crashes(r) /\ c # None
  BY <1>t DEF AddToCluster, Names
<1>2. SourceOf(r) # None /\ \E i \in DOMAIN snap : SourceOf(r) = snap[i].name /\ snap[i].role # "loadbalancer"
  <2>1. SourceOf(r) # None
    BY <1>1 DEF Crashes
  <2> QED
    BY <1>1, <2>1, SourceIs DEF Inv
<1>3. SourceOf(r) \in Names /\ c \in Containers /\ c.role # "loadbalancer" /\ SourceOf(r) \in Nodes
  <2>1. SourceOf(r) \in Names
    BY <1>t, <1>2, ReadNames
  <2>2. c \in Containers
    BY <1>t, <1>1, <2>1
  <2>3. c.role # "loadbalancer"
    BY <1>1, <1>2 DEF Inv, Reading
  <2> QED
    BY <1>1, <2>1, <2>2, <2>3 DEF Nodes
<1>4. Sound(c)
  BY <1>3 DEF Inv, NodesSound
<1>5. /\ r.role = "server" => ~r.init /\ CutFlags(r, c) # Panics
      /\ UrlFor(c) # None
  BY <1>1, <1>2 DEF Crashes
<1>6. \E i \in DOMAIN snap : /\ snap[i].name = UrlOf(c.url)
                             /\ UrlOf(c.url) = c.url \/ snap[i].role # "agent"
  <2>1. CASE c.url # None /\ c.url \in Known
    BY <2>1 DEF UrlOf, Known
  <2>2. CASE ~(c.url # None /\ c.url \in Known)
    <3>1. UrlOf(c.url) = RegistrationNode /\ RegistrationNode # None
      BY <1>5, <2>2 DEF UrlFor, UrlOf
    <3> QED
      BY <3>1, RegistrationIs DEF Inv
  <2> QED
    BY <2>1, <2>2
<1>7. UrlOf(c.url) \in Names
  BY <1>t, <1>6, ReadNames
<1>r. FirstOf({r.role}) # None => c.role = r.role
  <2> SUFFICES ASSUME FirstOf({r.role}) # None PROVE c.role = r.role
    OBVIOUS
  <2>1. PICK i \in DOMAIN snap : FirstOf({r.role}) = snap[i].name /\ snap[i].role \in {r.role}
    BY <1>t, FirstOfIs
  <2>2. SourceOf(r) = snap[i].name
    BY <2>1 DEF SourceOf
  <2> QED
    BY <1>1, <2>1, <2>2 DEF Inv, RolesRead
<1> PICK new : new = NodeCreate(CopyOf(r, c))
  OBVIOUS
<1>8. /\ new \in Containers /\ Sound(new) /\ new.role = r.role /\ new.url = UrlOf(c.url)
      /\ new.token = IF r.token # None THEN r.token ELSE c.token
      /\ new.ports = {} /\ new.files = c.files
      /\ r.mem = 0 => IF c.role = r.role THEN new.mem >= c.mem ELSE new.mem = 0
      /\ r.role = "server" /\ (c.role = "server" => Once(c.cmd)) => Without(new.cmd)
  BY <1>1, <1>3, <1>4, <1>5, <1>7, <1>r, CopyIs
<1>9. PICK kept \in {new.files, FALSE} :
        /\ node' = [node EXCEPT ![n] = [new EXCEPT !.files = kept]]
        /\ troubles' = IF new.files /\ ~kept THEN troubles \cup {"fileLost"} ELSE troubles
  BY DEF AddToCluster, CopyOf
<1>10. kept \in BOOLEAN /\ c.files \in BOOLEAN
  BY <1>3, <1>8, <1>9 DEF Containers
<1>x. x = [new EXCEPT !.files = kept]
  BY <1>t, <1>1, <1>9
<1>11. /\ x \in Containers /\ x.files = kept /\ x.role = new.role /\ x.url = new.url /\ x.token = new.token
       /\ x.ports = new.ports /\ x.mem = new.mem /\ x.cmd = new.cmd /\ x.mounts = new.mounts
  BY <1>8, <1>10, <1>x, FilesKept
<1>12. node' = [node EXCEPT ![n] = x] /\ node'[n] = x
  BY <1>9, <1>x
<1>13. Sound(x)
  <2>1. MemoryMounts(x) = MemoryMounts(new)
    BY <1>11 DEF MemoryMounts
  <2> QED
    BY <1>8, <1>11, <2>1 DEF Sound
<1>14. troubles' \in {troubles, troubles \cup {"fileLost"}} /\ ("fileLost" \notin troubles' => x.files = c.files)
  <2>1. CASE new.files /\ ~kept
    BY <1>9, <2>1
  <2>2. CASE ~(new.files /\ ~kept)
    <3>1. troubles' = troubles
      BY <1>9, <2>2
    <3>2. kept = new.files
      BY <1>8, <1>9, <1>10, <2>2
    <3> QED
      BY <1>8, <1>11, <3>1, <3>2
  <2> QED
    BY <2>1, <2>2
<1>15. "doubled" \notin troubles /\ c.role = "server" => Once(c.cmd)
  BY <1>3 DEF Inv, FlagOnce
<1>16. r.role \in {"server", "agent"}
  BY <1>1, NodeAddAssumption
<1>17. /\ x.role = r.role /\ x.ports = {} /\ x.url = UrlOf(c.url)
       /\ r.token # None => x.token = r.token
       /\ "doubled" \notin troubles /\ x.role = "server" => Without(x.cmd)
  BY <1>8, <1>11, <1>15
<1>18. r.mem = 0 => IF c.role = r.role THEN x.mem >= c.mem ELSE x.mem = 0
  BY <1>8, <1>11
<1> QED
  BY <1>1, <1>3, <1>6, <1>7, <1>11, <1>12, <1>13, <1>14, <1>16, <1>17, <1>18

LEMMA AddStep == ASSUME Inv, NEW n \in New, AddToCluster(n) PROVE Inv'
<1> PICK c : c = node[SourceOf(request)]
  OBVIOUS
<1> PICK x : x = node'[n]
  OBVIOUS
<1>1. /\ request \in Requests /\ n \in Names /\ node[n] = None
      /\ SourceOf(request) \in Names /\ c \in Containers /\ c.role # "loadbalancer"
      /\ node' = [node EXCEPT ![n] = x] /\ x \in Containers /\ Sound(x)
      /\ x.role = request.role /\ x.role \in {"server", "agent"} /\ x.ports = {}
      /\ troubles' \in {troubles, troubles \cup {"fileLost"}}
      /\ "fileLost" \notin troubles' => x.files = c.files
      /\ x.url \in Names
      /\ \E i \in DOMAIN snap : /\ snap[i].name = x.url
                                /\ x.url = c.url \/ snap[i].role # "agent"
      /\ "doubled" \notin troubles /\ x.role = "server" => Without(x.cmd)
  BY Added
<1>2. /\ listing' = <<n>> \o listing /\ count' = count /\ todo' = todo \ {n} /\ n \in todo
      /\ request' = (IF todo = {n} THEN None ELSE request)
      /\ snap' = IF todo = {n} THEN <<>> ELSE snap
  BY DEF AddToCluster, End
<1>t. /\ node \in [Names -> Containers \cup {None}] /\ listing \in Seq(Names) /\ ToSet(listing) = Nodes
      /\ IsInjective(listing) /\ snap \in Seq([name : Names, role : Roles])
      /\ request \in Requests \cup {None} /\ todo \subseteq New /\ count \in 0 .. MaxRequests
      /\ (request = None <=> todo = {})
  BY DEF Inv, TypeOK
<1>3. node' \in [Names -> Containers \cup {None}] /\ x # None
  BY <1>1, <1>t, NodeAddAssumption
<1>4. \A m \in Names : node'[m] = IF m = n THEN x ELSE node[m]
  BY <1>1, <1>t
<1>5. Nodes' = Nodes \cup {n} /\ n \notin Nodes
  BY <1>1, <1>3, <1>4 DEF Nodes
<1>6. listing' \in Seq(Names) /\ IsInjective(listing') /\ ToSet(listing') = Nodes'
  <2> PICK s : s = <<n>>
    OBVIOUS
  <2>1. s \in Seq(Names) /\ IsInjective(s) /\ ToSet(s) = {n}
    <3>1. <<n>> \in Seq(Names) /\ DOMAIN <<n>> = {1} /\ <<n>>[1] = n
      BY <1>1
    <3> QED
      BY <3>1 DEF IsInjective, ToSet
  <2>2. ToSet(s) \cap ToSet(listing) = {}
    BY <1>5, <1>t, <2>1
  <2>3. s \o listing \in Seq(Names)
    BY <1>t, <2>1, Joined
  <2>4. IsInjective(s \o listing)
    BY <1>t, <2>1, <2>2, JoinedInjective, Zenon
  <2>5. ToSet(s \o listing) = ToSet(s) \cup ToSet(listing)
    <3>1. s \in Seq(Names) /\ listing \in Seq(Names)
      BY <1>t, <2>1
    <3>2. \A u, v : u \in Seq(Names) /\ v \in Seq(Names) => ToSet(u \o v) = ToSet(u) \cup ToSet(v)
      BY JoinedElements, ZenonT(40)
    <3> QED
      BY <3>1, <3>2
  <2> QED
    BY <1>2, <1>5, <1>t, <2>1, <2>3, <2>4, <2>5
<1>7. TypeOK'
  <2>1. snap' \in Seq([name : Names, role : Roles])
    BY <1>2, <1>t
  <2>2. request' \in Requests \cup {None} /\ todo' \subseteq New /\ (request' = None <=> todo' = {})
    BY <1>1, <1>2, <1>t, NodeAddAssumption
  <2> QED
    BY <1>2, <1>3, <1>6, <1>t, <2>1, <2>2 DEF TypeOK
<1>8. NodesSound'
  <2>1. \A m \in Nodes' : Sound(node'[m])
    BY <1>1, <1>4, <1>5 DEF Inv, NodesSound, Nodes
  <2> QED
    BY <2>1 DEF NodesSound, Sound, MemoryMounts
<1>9. OnePort'
  <2> PICK p \in Names : \A m \in Nodes : m # p => node[m].ports = {}
    BY DEF Inv, OnePort
  <2>1. \A m \in Nodes' : m # p => node'[m].ports = {}
    BY <1>1, <1>4, <1>5 DEF Nodes
  <2> QED
    BY <2>1 DEF OnePort
<1>10. SameFiles'
  <2> SUFFICES ASSUME "fileLost" \notin troubles'
               PROVE  \E f \in BOOLEAN : \A m \in Nodes' : node'[m].role # "loadbalancer" => node'[m].files = f
    BY DEF SameFiles
  <2>1. "fileLost" \notin troubles
    BY <1>1
  <2> PICK f \in BOOLEAN : \A m \in Nodes : node[m].role # "loadbalancer" => node[m].files = f
    BY <2>1 DEF Inv, SameFiles
  <2>2. x.files = f
    BY <1>1, NodeAddAssumption DEF Nodes
  <2> QED
    BY <1>4, <1>5, <2>2 DEF Nodes
<1>11. FlagOnce'
  <2> SUFFICES ASSUME "doubled" \notin troubles', NEW m \in Nodes', node'[m].role = "server"
               PROVE  Once(node'[m].cmd) /\ (m # Server(0) => Without(node'[m].cmd))
    BY DEF FlagOnce, Once, Without
  <2>1. "doubled" \notin troubles
    BY <1>1
  <2>2. CASE m = n
    <3>1. Without(x.cmd)
      BY <1>1, <1>4, <2>1, <2>2
    <3> QED
      BY <1>1, <1>4, <2>2, <3>1 DEF Once, Without
  <2>3. CASE m # n
    BY <1>4, <1>5, <2>1, <2>3 DEF Inv, FlagOnce, Nodes
  <2> QED
    BY <2>2, <2>3
<1>12. Reading'
  <2> SUFFICES ASSUME NEW i \in DOMAIN snap'
               PROVE  /\ node'[snap'[i].name] = None => "raced" \in troubles'
                      /\ snap'[i].role # "loadbalancer" /\ node'[snap'[i].name] # None =>
                           node'[snap'[i].name].role # "loadbalancer"
    BY DEF Reading
  <2>1. snap' = snap /\ i \in DOMAIN snap /\ snap[i].name \in Names
    <3>1. snap' = snap
      BY <1>2
    <3>2. \A j \in DOMAIN snap : snap[j].name \in Names
      BY <1>t, ReadNames
    <3> QED
      BY <3>1, <3>2
  <2> QED
    BY <1>1, <1>3, <1>4, <2>1 DEF Inv, Reading
<1>14. RolesRead'
  <2> SUFFICES ASSUME NEW i \in DOMAIN snap', node'[snap'[i].name] # None
               PROVE  node'[snap'[i].name].role \in {snap'[i].role, request'.role}
    BY DEF RolesRead
  <2>1. snap' = snap /\ request' = request /\ i \in DOMAIN snap /\ snap[i].name \in Names
    <3>1. snap' = snap /\ request' = request
      BY <1>2
    <3>2. \A j \in DOMAIN snap : snap[j].name \in Names
      BY <1>t, ReadNames
    <3> QED
      BY <3>1, <3>2
  <2> QED
    BY <1>1, <1>4, <2>1 DEF Inv, RolesRead
<1>13. NamesStand'
  <2>1. \A m \in Nodes' : m \notin New => node'[m].role = m[1]
    BY <1>4, <1>5 DEF Inv, NamesStand, Nodes
  <2> SUFFICES ASSUME "reused" \notin troubles'
               PROVE  /\ \A m \in Nodes' : node'[m].url # None =>
                           \E u : u = node'[m].url /\ Joinable(u)'
                      /\ \A i \in DOMAIN snap' :
                           \E u : /\ u = snap'[i].name /\ (u \in New => node'[u] # None)
                                  /\ snap'[i].role = RoleOf(u)'
    BY <2>1 DEF NamesStand, Joinable, RoleOf
  <2>2. "reused" \notin troubles
    BY <1>1
  <2>3. ASSUME NEW u, u \in New => node[u] # None PROVE RoleOf(u)' = RoleOf(u) /\ (u \in New => node'[u] # None)
    <3>1. u \in New => u # n /\ u \in Names
      BY <1>1, <2>3 DEF Names
    <3> QED
      BY <1>4, <2>3, <3>1 DEF RoleOf
  <2>4. \A u : Joinable(u) => Joinable(u)'
    BY <2>3 DEF Joinable
  <2>5. Joinable(x.url)
    <3> PICK i \in DOMAIN snap : snap[i].name = x.url /\ (x.url = c.url \/ snap[i].role # "agent")
      BY <1>1
    <3>1. CASE x.url = c.url
      <4>1. x.url # None /\ SourceOf(request) \in Nodes
        BY <1>1, NodeAddAssumption DEF Nodes
      <4> QED
        BY <2>2, <3>1, <4>1 DEF Inv, NamesStand
    <3>2. CASE snap[i].role # "agent"
      BY <2>2, <3>2 DEF Inv, NamesStand, Joinable
    <3> QED
      BY <3>1, <3>2
  <2>6. ASSUME NEW m \in Nodes', node'[m].url # None PROVE \E u : u = node'[m].url /\ Joinable(u)'
    <3>1. CASE m = n
      BY <1>1, <1>4, <2>4, <2>5, <3>1
    <3>2. CASE m # n
      <4>1. m \in Nodes /\ node'[m] = node[m]
        BY <1>4, <1>5, <3>2 DEF Nodes
      <4>2. Joinable(node[m].url)
        BY <2>2, <2>6, <4>1 DEF Inv, NamesStand
      <4> QED
        BY <2>4, <4>1, <4>2
    <3> QED
      BY <3>1, <3>2
  <2>7. ASSUME NEW i \in DOMAIN snap'
        PROVE  \E u : /\ u = snap'[i].name /\ (u \in New => node'[u] # None)
                      /\ snap'[i].role = RoleOf(u)'
    <3>1. snap' = snap /\ i \in DOMAIN snap
      BY <1>2
    <3> PICK u : u = snap[i].name
      OBVIOUS
    <3>2. (u \in New => node[u] # None) /\ snap[i].role = RoleOf(u)
      BY <2>2, <3>1 DEF Inv, NamesStand
    <3>3. (u \in New => node'[u] # None) /\ RoleOf(u)' = RoleOf(u)
      BY <2>3, <3>2
    <3> QED
      BY <3>1, <3>2, <3>3
  <2> QED
    BY <2>6, <2>7
<1> QED
  BY <1>7, <1>8, <1>9, <1>10, <1>11, <1>12, <1>13, <1>14 DEF Inv

\* Nothing that was created changes, and what was read is kept or given up.
LEMMA KeptStep ==
  ASSUME Inv, node' = node, listing' = listing, count' = count,
         snap' = <<>> \/ (snap' = snap /\ request' = request),
         troubles' \in {troubles, troubles \cup {"panic"}},
         request' \in Requests \cup {None}, todo' \subseteq New, request' = None <=> todo' = {}
  PROVE  Inv'
<1>1. DOMAIN <<>> = {}
  OBVIOUS
<1>2. Nodes' = Nodes
  BY DEF Nodes
<1>3. TypeOK'
  <2>1. snap' \in Seq([name : Names, role : Roles])
    <3>1. snap \in Seq([name : Names, role : Roles]) /\ <<>> \in Seq([name : Names, role : Roles])
      BY DEF Inv, TypeOK
    <3> QED
      BY <3>1, Zenon
  <2> QED
    BY <1>2, <2>1 DEF Inv, TypeOK
<1>4. NodesSound'
  BY <1>2 DEF Inv, NodesSound, Sound, MemoryMounts
<1>5. OnePort'
  BY <1>2 DEF Inv, OnePort
<1>6. SameFiles'
  BY <1>2 DEF Inv, SameFiles
<1>7. FlagOnce'
  BY <1>2 DEF Inv, FlagOnce, Once, Without
<1>8. Reading'
  <2>1. CASE snap' = snap
    BY <2>1 DEF Inv, Reading
  <2>2. CASE snap' = <<>>
    BY <1>1, <2>2 DEF Reading
  <2> QED
    BY <2>1, <2>2
<1>10. RolesRead'
  <2>1. CASE snap' = snap /\ request' = request
    BY <2>1 DEF Inv, RolesRead
  <2>2. CASE snap' = <<>>
    BY <1>1, <2>2 DEF RolesRead
  <2> QED
    BY <2>1, <2>2
<1>9. NamesStand'
  <2>1. CASE snap' = snap
    BY <1>2, <2>1 DEF Inv, NamesStand, Joinable, RoleOf
  <2>2. CASE snap' = <<>>
    BY <1>1, <1>2, <2>2 DEF Inv, NamesStand, Joinable, RoleOf
  <2> QED
    BY <2>1, <2>2
<1> QED
  BY <1>3, <1>4, <1>5, <1>6, <1>7, <1>8, <1>9, <1>10 DEF Inv

\* The command reads the cluster as it is.
LEMMA MultiStep == ASSUME Inv, Multi PROVE Inv'
<1> PICK r \in Requests : request' = r /\ todo' \in kSubset(r.replicas, New)
  BY DEF Multi
<1>1. /\ node' = node /\ listing' = listing /\ troubles' = troubles /\ count < MaxRequests /\ count' = count + 1
      /\ snap' = [i \in DOMAIN listing |-> [name |-> listing[i], role |-> node[listing[i]].role]]
  BY DEF Multi
<1>t. /\ node \in [Names -> Containers \cup {None}] /\ listing \in Seq(Names) /\ ToSet(listing) = Nodes
      /\ IsInjective(listing) /\ count \in 0 .. MaxRequests
  BY DEF Inv, TypeOK
<1>2. todo' \subseteq New /\ todo' # {} /\ request' # None
  <2>1. todo' \in SUBSET New /\ Cardinality(todo') = r.replicas
    BY DEF kSubset
  <2>2. r.replicas # 0 /\ r # None
    BY NodeAddAssumption
  <2> QED
    BY <2>1, <2>2, FS_EmptySet
<1>3. ASSUME NEW i \in DOMAIN listing
      PROVE  /\ i \in DOMAIN snap' /\ snap'[i].name = listing[i] /\ snap'[i].role = node[listing[i]].role
             /\ listing[i] \in Nodes /\ node[listing[i]] \in Containers
  <2>1. listing[i] \in Nodes
    BY <1>t DEF ToSet
  <2> QED
    BY <1>1, <1>t, <2>1 DEF Nodes
<1>4. DOMAIN snap' = DOMAIN listing
  BY <1>1
<1>5. Nodes' = Nodes
  BY <1>1 DEF Nodes
<1>6. TypeOK'
  <2>1. snap' \in Seq([name : Names, role : Roles])
    <3>1. \A i \in 1 .. Len(listing) :
            [name |-> listing[i], role |-> node[listing[i]].role] \in [name : Names, role : Roles]
      BY <1>3, <1>t DEF Nodes, Containers
    <3>2. DOMAIN listing = 1 .. Len(listing) /\ Len(listing) \in Nat
      BY <1>t
    <3> QED
      BY <1>1, <3>1, <3>2
  <2>2. count' \in 0 .. MaxRequests
    BY <1>1, <1>t, NodeAddAssumption
  <2> QED
    BY <1>1, <1>2, <1>5, <1>t, <2>1, <2>2 DEF TypeOK
<1>7. NodesSound'
  BY <1>1, <1>5 DEF Inv, NodesSound, Sound, MemoryMounts
<1>8. OnePort'
  BY <1>1, <1>5 DEF Inv, OnePort
<1>9. SameFiles'
  BY <1>1, <1>5 DEF Inv, SameFiles
<1>10. FlagOnce'
  BY <1>1, <1>5 DEF Inv, FlagOnce, Once, Without
<1>11. Reading'
  BY <1>1, <1>3, <1>4 DEF Reading, Nodes
<1>13. RolesRead'
  BY <1>1, <1>3, <1>4 DEF RolesRead
<1>12. NamesStand'
  <2>1. \A m \in Nodes' : m \notin New => node'[m].role = m[1]
    BY <1>1, <1>5 DEF Inv, NamesStand
  <2>2. ASSUME "reused" \notin troubles', NEW m \in Nodes', node'[m].url # None
        PROVE  \E u : u = node'[m].url /\ Joinable(u)'
    BY <1>1, <1>5, <2>2 DEF Inv, NamesStand, Joinable, RoleOf
  <2>3. ASSUME NEW i \in DOMAIN snap'
        PROVE  \E u : u = snap'[i].name /\ (u \in New => node'[u] # None) /\ snap'[i].role = RoleOf(u)'
    <3> PICK u : u = listing[i]
      OBVIOUS
    <3>1. u \in Nodes /\ snap'[i].name = u /\ snap'[i].role = node[u].role
      BY <1>3, <1>4
    <3>2. RoleOf(u)' = node[u].role
      BY <1>1, <3>1 DEF RoleOf, Inv, NamesStand
    <3> QED
      BY <1>1, <3>1, <3>2 DEF Nodes
  <2> QED
    BY <2>1, <2>2, <2>3 DEF NamesStand, Joinable, RoleOf
<1> QED
  BY <1>6, <1>7, <1>8, <1>9, <1>10, <1>11, <1>12, <1>13 DEF Inv

LEMMA AddFailsStep == ASSUME Inv, NEW n \in New, AddFails(n) PROVE Inv'
<1>1. /\ node' = node /\ listing' = listing /\ count' = count /\ troubles' = troubles
      /\ n \in todo /\ todo' = todo \ {n} /\ request' = (IF todo = {n} THEN None ELSE request)
      /\ snap' = IF todo = {n} THEN <<>> ELSE snap
  BY DEF AddFails, End
<1>2. request \in Requests \cup {None} /\ todo \subseteq New /\ (request = None <=> todo = {})
  BY DEF Inv, TypeOK
<1>3. request' \in Requests \cup {None} /\ todo' \subseteq New /\ (request' = None <=> todo' = {})
  BY <1>1, <1>2
<1> QED
  BY <1>1, <1>3, KeptStep

LEMMA AddPanicsStep == ASSUME Inv, NEW n \in New, AddPanics(n) PROVE Inv'
<1>1. /\ node' = node /\ listing' = listing /\ count' = count /\ troubles' = troubles \cup {"panic"}
      /\ request' = None /\ todo' = {} /\ snap' = <<>>
  BY DEF AddPanics
<1> QED
  BY <1>1, KeptStep

\* A node leaves the cluster.
LEMMA DeleteStep == ASSUME Inv, NEW n \in Names, Delete(n) PROVE Inv'
<1>1. /\ node[n] # None /\ node' = [node EXCEPT ![n] = None]
      /\ troubles' = troubles \cup (IF n \in Known THEN {"raced"} ELSE {}) \cup (IF n \in New THEN {"reused"} ELSE {})
      /\ request' = request /\ snap' = snap /\ todo' = todo /\ count' = count
  BY DEF Delete
<1> PICK k \in DOMAIN listing : listing[k] = n /\ listing' = RemoveAt(listing, k)
  BY DEF Delete
<1>t. /\ node \in [Names -> Containers \cup {None}] /\ listing \in Seq(Names) /\ ToSet(listing) = Nodes
      /\ IsInjective(listing) /\ snap \in Seq([name : Names, role : Roles])
      /\ request \in Requests \cup {None} /\ todo \subseteq New /\ count \in 0 .. MaxRequests
      /\ (request = None <=> todo = {})
  BY DEF Inv, TypeOK
<1>2. \A m \in Names : node'[m] = IF m = n THEN None ELSE node[m]
  BY <1>1, <1>t
<1>3. Nodes' = Nodes \ {n}
  BY <1>1, <1>2 DEF Nodes
<1>4. \A m \in Nodes' : m \in Nodes /\ m # n /\ node'[m] = node[m]
  BY <1>2, <1>3 DEF Nodes
<1>5. TypeOK'
  <2>1. listing' \in Seq(Names) /\ IsInjective(listing') /\ ToSet(listing') = ToSet(listing) \ {n}
    BY <1>t, RemovedSet
  <2>2. node' \in [Names -> Containers \cup {None}]
    BY <1>1, <1>t
  <2> QED
    BY <1>1, <1>3, <1>t, <2>1, <2>2 DEF TypeOK
<1>6. NodesSound'
  <2>1. \A m \in Nodes' : Sound(node'[m])
    BY <1>4 DEF Inv, NodesSound
  <2> QED
    BY <2>1 DEF NodesSound, Sound, MemoryMounts
<1>7. OnePort'
  <2> PICK p \in Names : \A m \in Nodes : m # p => node[m].ports = {}
    BY DEF Inv, OnePort
  <2> QED
    BY <1>4 DEF OnePort
<1>8. SameFiles'
  <2> SUFFICES ASSUME "fileLost" \notin troubles'
               PROVE  \E f \in BOOLEAN : \A m \in Nodes' : node'[m].role # "loadbalancer" => node'[m].files = f
    BY DEF SameFiles
  <2>1. "fileLost" \notin troubles
    BY <1>1
  <2> PICK f \in BOOLEAN : \A m \in Nodes : node[m].role # "loadbalancer" => node[m].files = f
    BY <2>1 DEF Inv, SameFiles
  <2> QED
    BY <1>4
<1>9. FlagOnce'
  <2> SUFFICES ASSUME "doubled" \notin troubles', NEW m \in Nodes', node'[m].role = "server"
               PROVE  Once(node'[m].cmd) /\ (m # Server(0) => Without(node'[m].cmd))
    BY DEF FlagOnce, Once, Without
  <2>1. "doubled" \notin troubles
    BY <1>1
  <2> QED
    BY <1>4, <2>1 DEF Inv, FlagOnce
<1>10. Reading'
  <2> SUFFICES ASSUME NEW i \in DOMAIN snap'
               PROVE  /\ node'[snap'[i].name] = None => "raced" \in troubles'
                      /\ snap'[i].role # "loadbalancer" /\ node'[snap'[i].name] # None =>
                           node'[snap'[i].name].role # "loadbalancer"
    BY DEF Reading
  <2>1. snap' = snap /\ i \in DOMAIN snap /\ snap[i].name \in Names
    <3>1. snap' = snap
      BY <1>1
    <3>2. \A j \in DOMAIN snap : snap[j].name \in Names
      BY <1>t, ReadNames
    <3> QED
      BY <3>1, <3>2
  <2>2. CASE snap[i].name = n
    <3>1. n \in Known
      BY <2>1, <2>2 DEF Known
    <3> QED
      BY <1>1, <1>2, <2>1, <2>2, <3>1
  <2>3. CASE snap[i].name # n
    BY <1>1, <1>2, <2>1, <2>3 DEF Inv, Reading
  <2> QED
    BY <2>2, <2>3
<1>12. RolesRead'
  <2> SUFFICES ASSUME NEW i \in DOMAIN snap', node'[snap'[i].name] # None
               PROVE  node'[snap'[i].name].role \in {snap'[i].role, request'.role}
    BY DEF RolesRead
  <2>1. snap' = snap /\ i \in DOMAIN snap /\ snap[i].name \in Names
    <3>1. snap' = snap
      BY <1>1
    <3>2. \A k2 \in DOMAIN snap : snap[k2].name \in Names
      BY <1>t, ReadNames
    <3> QED
      BY <3>1, <3>2
  <2> QED
    BY <1>1, <1>2, <2>1 DEF Inv, RolesRead
<1>11. NamesStand'
  <2>1. \A m \in Nodes' : m \notin New => node'[m].role = m[1]
    BY <1>4 DEF Inv, NamesStand
  <2> SUFFICES ASSUME "reused" \notin troubles'
               PROVE  /\ \A m \in Nodes' : node'[m].url # None =>
                           \E u : u = node'[m].url /\ Joinable(u)'
                      /\ \A i \in DOMAIN snap' :
                           \E u : /\ u = snap'[i].name /\ (u \in New => node'[u] # None)
                                  /\ snap'[i].role = RoleOf(u)'
    BY <2>1 DEF NamesStand, Joinable, RoleOf
  <2>2. "reused" \notin troubles /\ n \notin New
    BY <1>1
  <2>3. \A u : u \in New => node'[u] = node[u]
    BY <1>2, <2>2 DEF Names
  <2>4. \A u : Joinable(u) => Joinable(u)'
    BY <2>3 DEF Joinable, RoleOf
  <2>5. ASSUME NEW m \in Nodes', node'[m].url # None PROVE \E u : u = node'[m].url /\ Joinable(u)'
    <3>1. node'[m] = node[m] /\ Joinable(node[m].url)
      BY <1>4, <2>2, <2>5 DEF Inv, NamesStand
    <3> QED
      BY <2>4, <3>1
  <2>6. ASSUME NEW i \in DOMAIN snap'
        PROVE  \E u : /\ u = snap'[i].name /\ (u \in New => node'[u] # None)
                      /\ snap'[i].role = RoleOf(u)'
    <3> PICK u : u = snap[i].name
      OBVIOUS
    <3>1. snap' = snap /\ i \in DOMAIN snap
      BY <1>1
    <3>2. (u \in New => node[u] # None) /\ snap[i].role = RoleOf(u)
      BY <2>2, <3>1 DEF Inv, NamesStand
    <3>3. RoleOf(u)' = RoleOf(u)
      BY <2>3 DEF RoleOf
    <3> QED
      BY <2>3, <3>1, <3>2, <3>3
  <2> QED
    BY <2>5, <2>6
<1> QED
  BY <1>5, <1>6, <1>7, <1>8, <1>9, <1>10, <1>11, <1>12 DEF Inv

LEMMA InvStep == Inv /\ [Next]_vars => Inv'
<1> SUFFICES ASSUME Inv, [Next]_vars PROVE Inv'
  OBVIOUS
<1>1. CASE Multi
  BY <1>1, MultiStep
<1>2. ASSUME NEW n \in New, AddToCluster(n) PROVE Inv'
  BY <1>2, AddStep
<1>3. ASSUME NEW n \in New, AddFails(n) PROVE Inv'
  BY <1>3, AddFailsStep
<1>4. ASSUME NEW n \in New, AddPanics(n) PROVE Inv'
  BY <1>4, AddPanicsStep
<1>5. ASSUME NEW n \in Names, Delete(n) PROVE Inv'
  BY <1>5, DeleteStep
<1>6. CASE UNCHANGED vars
  <2>1. request \in Requests \cup {None} /\ todo \subseteq New /\ (request = None <=> todo = {})
    BY DEF Inv, TypeOK
  <2> QED
    BY <1>6, <2>1, KeptStep DEF vars
<1> QED
  BY <1>1, <1>2, <1>3, <1>4, <1>5, <1>6 DEF Next

LEMMA Invariance == Spec => []Inv
BY InvInit, InvStep, PTL DEF Spec

\* The state of the runtime and of the command keeps its type; the listing names every container
\* once (NodeAddToClusterMulti, NodeCreate, NodeDelete).
THEOREM TypeCorrect == Spec => []TypeOK
<1>1. Inv => TypeOK
  BY DEF Inv
<1> QED BY <1>1, Invariance, PTL

\* Only the server that was the first has the flag of the initializing server in its command,
\* whatever copies of it are copied, so that ClusterStart takes no other node for it
\* (node.go:127-149, cluster.go:931).
THEOREM OneInit == Spec => []OneInitServer
<1>1. Inv => OneInitServer
  <2> SUFFICES ASSUME Inv, "doubled" \notin troubles, NEW n \in Nodes, IsInit(n) PROVE n = Server(0)
    BY DEF OneInitServer
  <2> SUFFICES ASSUME n # Server(0) PROVE FALSE
    OBVIOUS
  <2>1. Without(node[n].cmd)
    BY DEF Inv, FlagOnce, IsInit
  <2>2. {i \in DOMAIN node[n].cmd : node[n].cmd[i] = "init"} = {}
    BY <2>1 DEF Without
  <2>3. Times(node[n].cmd, "init") = 0
    BY <2>2, FS_EmptySet DEF Times
  <2> QED
    BY <2>3 DEF IsInit
<1> QED BY <1>1, Invariance, PTL

LEMMA ThreeMounts ==
  ASSUME NEW s, s = <<"images", "meminfo", "edac">>
  PROVE  DOMAIN s = {1, 2, 3} /\ s[1] = "images" /\ s[2] = "meminfo" /\ s[3] = "edac"
<1> DEFINE S == {"images", "meminfo", "edac"}
<1>1. s \in Seq(S) /\ Len(s) = 3
  OBVIOUS
<1>2. s[1] = "images" /\ s[2] = "meminfo" /\ s[3] = "edac"
  OBVIOUS
<1>3. 1 .. 3 = {1, 2, 3}
  OBVIOUS
<1> QED
  BY <1>1, <1>2, <1>3

\* How often each mount occurs in a container of the kind above.
LEMMA MountTimes ==
  ASSUME NEW c, c.mounts = <<"images">> \o MemoryMounts(c), NEW x \in {"images", "meminfo", "edac"}
  PROVE  Times(c.mounts, x) = IF x = "images" \/ c.mem # 0 THEN 1 ELSE 0
<1> PICK s : s = c.mounts
  OBVIOUS
<1>1. s = IF c.mem = 0 THEN <<"images">> ELSE <<"images", "meminfo", "edac">>
  BY MountsOf
<1> DEFINE at == {i \in DOMAIN s : s[i] = x}
<1>2. CASE c.mem = 0 /\ x = "images"
  <2>1. at = {1}
    BY <1>1, <1>2
  <2> QED
    BY <1>2, <2>1, FS_Singleton DEF Times
<1>3. CASE c.mem = 0 /\ x # "images"
  <2>1. at = {}
    BY <1>1, <1>3
  <2> QED
    BY <1>3, <2>1, FS_EmptySet DEF Times
<1>4. CASE c.mem # 0
  <2>1. DOMAIN s = {1, 2, 3} /\ s[1] = "images" /\ s[2] = "meminfo" /\ s[3] = "edac"
    <3>1. s = <<"images", "meminfo", "edac">>
      BY <1>1, <1>4
    <3> QED
      BY <3>1, ThreeMounts, Zenon
  <2>2. \E k \in {1, 2, 3} : at = {k}
    <3>1. CASE x = "images"
      <4>1. at = {1}
        BY <2>1, <3>1
      <4> QED BY <4>1
    <3>2. CASE x = "meminfo"
      <4>1. at = {2}
        BY <2>1, <3>2
      <4> QED BY <4>1
    <3>3. CASE x = "edac"
      <4>1. at = {3}
        BY <2>1, <3>3
      <4> QED BY <4>1
    <3> QED
      BY <3>1, <3>2, <3>3
  <2> QED
    BY <1>4, <2>2, FS_Singleton DEF Times
<1> QED
  BY <1>2, <1>3, <1>4

\* A copy can run beside its source and has what it needs, however often copies are copied: no two
\* containers publish a port, no container has two mounts at one place, a limit is mounted exactly
\* when there is one, every node runs its role and has the registries' file (node.go:107-185).
THEOREM CopiesAreRunnable == Spec => []CopiesRun
<1>1. ASSUME Inv PROVE CopiesRun
  <2>t. \A n \in Nodes : /\ node[n] \in Containers /\ Sound(node[n]) /\ node[n].mem \in Nat
    BY <1>1 DEF Inv, TypeOK, NodesSound, Nodes, Containers
  <2>1. OneNodePerPort
    <3> PICK p \in Names : \A m \in Nodes : m # p => node[m].ports = {}
      BY <1>1 DEF Inv, OnePort
    <3> QED
      BY DEF OneNodePerPort
  <2>2. ASSUME NEW n \in Nodes, NEW x \in {"images", "meminfo", "edac"}
        PROVE  Times(node[n].mounts, x) = IF x = "images" \/ node[n].mem # 0 THEN 1 ELSE 0
    <3> PICK c : c = node[n]
      OBVIOUS
    <3>1. c.mounts = <<"images">> \o MemoryMounts(c)
      BY <2>t DEF Sound
    <3>2. Times(c.mounts, x) = IF x = "images" \/ c.mem # 0 THEN 1 ELSE 0
      BY <3>1, MountTimes
    <3> QED
      BY <3>2
  <2>3. MountsOnce
    BY <2>2 DEF MountsOnce
  <2>4. LimitShown
    <3> SUFFICES ASSUME NEW n \in Nodes PROVE node[n].mem > 0 <=> Times(node[n].mounts, "meminfo") = 1
      BY DEF LimitShown
    <3>1. Times(node[n].mounts, "meminfo") = IF node[n].mem # 0 THEN 1 ELSE 0
      BY <2>2
    <3> QED
      BY <2>t, <3>1
  <2>5. RunsItsRole
    BY <2>t DEF RunsItsRole, Sound
  <2>6. FilesSpread
    BY <1>1 DEF Inv, SameFiles, FilesSpread
  <2> QED
    BY <2>1, <2>3, <2>4, <2>5, <2>6 DEF CopiesRun
<1> QED BY <1>1, Invariance, PTL

\* Only a replica creates a container.
LEMMA OnlyAdds ==
  ASSUME Inv, [Next]_vars, NEW n \in New, node[n] = None, node'[n] # None PROVE AddToCluster(n)
<1>t. node \in [Names -> Containers \cup {None}] /\ n \in Names
  BY DEF Inv, TypeOK, Names
<1>1. ASSUME NEW m \in New, AddToCluster(m) PROVE AddToCluster(n)
  <2>1. node' = [node EXCEPT ![m] = node'[m]]
    BY <1>1, Added
  <2> QED
    BY <1>1, <1>t, <2>1
<1>2. ASSUME NEW m \in Names, Delete(m) PROVE FALSE
  BY <1>2, <1>t DEF Delete
<1> QED
  BY <1>1, <1>2 DEF Next, vars, Multi, AddFails, AddPanics

\* A node that is added joins a server or the load balancer that was read of the cluster and is not
\* itself, with the token that was given (node.go:187-216).
THEOREM Joins == Spec => JoinsTheCluster
<1> DEFINE A == \A n \in New : node[n] = None /\ node'[n] # None =>
                  /\ request.token # None => node'[n].token = request.token
                  /\ \E i \in DOMAIN snap : /\ snap[i].name = node'[n].url
                                            /\ snap[i].role = "agent" => "reused" \in troubles
                  /\ node'[n].url = n => "raced" \in troubles
<1>1. ASSUME Inv, [Next]_vars PROVE A
  <2> SUFFICES ASSUME NEW n \in New, node[n] = None, node'[n] # None
               PROVE  /\ request.token # None => node'[n].token = request.token
                      /\ \E i \in DOMAIN snap : /\ snap[i].name = node'[n].url
                                                /\ snap[i].role = "agent" => "reused" \in troubles
                      /\ node'[n].url = n => "raced" \in troubles
    OBVIOUS
  <2>1. AddToCluster(n)
    BY <1>1, OnlyAdds
  <2> PICK c : c = node[SourceOf(request)]
    OBVIOUS
  <2> PICK x : x = node'[n]
    OBVIOUS
  <2>2. /\ SourceOf(request) \in Names /\ c \in Containers /\ x.url \in Names
        /\ request.token # None => x.token = request.token
        /\ \E i \in DOMAIN snap : /\ snap[i].name = x.url
                                  /\ x.url = c.url \/ snap[i].role # "agent"
    BY <1>1, <2>1, Added
  <2>3. PICK i \in DOMAIN snap : snap[i].name = x.url /\ (x.url = c.url \/ snap[i].role # "agent")
    BY <2>2
  <2>4. ASSUME "reused" \notin troubles PROVE snap[i].role # "agent"
    <3> SUFFICES ASSUME x.url = c.url PROVE snap[i].role # "agent"
      BY <2>3
    <3>1. SourceOf(request) \in Nodes /\ c.url # None
      BY <2>2, NodeAddAssumption DEF Nodes
    <3>2. Joinable(c.url)
      BY <1>1, <2>4, <3>1 DEF Inv, NamesStand
    <3>3. snap[i].role = RoleOf(c.url)
      BY <1>1, <2>3, <2>4 DEF Inv, NamesStand
    <3> QED
      BY <3>2, <3>3 DEF Joinable
  <2>5. x.url = n => "raced" \in troubles
    BY <1>1, <2>3 DEF Inv, Reading
  <2> QED
    BY <2>2, <2>3, <2>4, <2>5
<1> HIDE DEF A
<1>2. [][A]_vars => JoinsTheCluster
  BY PTL DEF JoinsTheCluster, A
<1> QED BY <1>1, <1>2, Invariance, PTL DEF Spec

\* A copy never has less memory than its source has, though the limit is written in one unit and read
\* in another, and in others from a gigabyte on; a copy of a node of the other role has no limit
\* (translate.go:282, node.go:117-121).
THEOREM LimitNeverShrinks == Spec => LimitKept
<1> DEFINE A == \A n \in New : node[n] = None /\ node'[n] # None /\ request.mem = 0 =>
                  LET src == node[SourceOf(request)]
                  IN  IF src.role = request.role THEN node'[n].mem >= src.mem ELSE node'[n].mem = 0
<1>1. ASSUME Inv, [Next]_vars PROVE A
  <2> SUFFICES ASSUME NEW n \in New, node[n] = None, node'[n] # None, request.mem = 0
               PROVE  LET src == node[SourceOf(request)]
                      IN  IF src.role = request.role THEN node'[n].mem >= src.mem ELSE node'[n].mem = 0
    OBVIOUS
  <2>1. AddToCluster(n)
    BY <1>1, OnlyAdds
  <2> PICK c : c = node[SourceOf(request)]
    OBVIOUS
  <2> PICK x : x = node'[n]
    OBVIOUS
  <2>2. IF c.role = request.role THEN x.mem >= c.mem ELSE x.mem = 0
    BY <1>1, <2>1, Added
  <2> QED
    BY <2>2
<1> HIDE DEF A
<1>2. [][A]_vars => LimitKept
  BY PTL DEF LimitKept, A
<1> QED BY <1>1, <1>2, Invariance, PTL DEF Spec
=============================================================================
