----------------------------- MODULE InitProofs -----------------------------
(***************************************************************************)
(* billbird init: InitInv is inductive, for any set of keys and any number *)
(* of Apps, runs and callbacks.  So a run that reports success has filled  *)
(* the gaps of the .env file and touched nothing else; what init has put   *)
(* into the file is one App's, with one more for every write that was cut  *)
(* short; and of the pages that a run sends the first is the one main acts *)
(* on.                                                                     *)
(***************************************************************************)
EXTENDS InitFlow, FiniteSetTheorems, SequenceTheorems, WellFoundedInduction, TLAPS

----------------------------------------------------------------------------
\* Induction and recursion over the numbers up to N

\* Every nonempty set of numbers has a least element.
LEMMA LeastExists ==
  ASSUME NEW S, S \subseteq Nat, S # {}
  PROVE  \E m \in S : \A n \in S : m <= n
  <1>1. PICK m \in S : \A n \in S : ~ <<n, m>> \in OpToRel(<, Nat)
    BY NatLessThanWellFounded, WFMin
  <1>2. ASSUME NEW n \in S PROVE m <= n
    <2>1. ~ <<n, m>> \in OpToRel(<, Nat)
      BY <1>1
    <2>2. ~ n < m
      BY <2>1 DEF OpToRel
    <2> QED
      BY <2>2
  <1> QED
    BY <1>1, <1>2

\* Induction up to N, over a set.
LEMMA UpTo ==
  ASSUME NEW N \in Nat, NEW S, 0 \in S, \A n \in 1 .. N : n - 1 \in S => n \in S
  PROVE  \A n \in 0 .. N : n \in S
  <1> SUFFICES ASSUME ~ \A n \in 0 .. N : n \in S PROVE FALSE
    OBVIOUS
  <1> DEFINE Out == {n \in 0 .. N : n \notin S}
  <1>1. Out \subseteq Nat /\ Out # {}
    OBVIOUS
  <1>2. PICK m \in Out : \A n \in Out : m <= n
    BY <1>1, LeastExists
  <1>3. m \in 1 .. N /\ m - 1 \in 0 .. N /\ ~ m <= m - 1
    BY <1>2
  <1> QED
    BY <1>2, <1>3

\* g[n] is what the first n segments make together.
Grows(g, segs, N, S) ==
  /\ g \in [0 .. N -> Seq(S)]
  /\ g[0] = <<>>
  /\ \A n \in 1 .. N : g[n] = g[n - 1] \o segs[n]

\* There is such a function.
LEMMA GrowthExists ==
  ASSUME NEW S, NEW segs \in Seq(Seq(S)), NEW N \in 0 .. Len(segs)
  PROVE  \E g : Grows(g, segs, N, S)
  <1> DEFINE M == {m \in 0 .. N : \E g : Grows(g, segs, m, S)}
  <1>1. 0 \in M
    <2> DEFINE g0 == [n \in 0 .. 0 |-> <<>>]
    <2>1. Grows(g0, segs, 0, S)
      BY DEF Grows
    <2> QED
      BY <2>1
  <1>2. ASSUME NEW m \in 1 .. N, m - 1 \in M PROVE m \in M
    <2>1. PICK g : Grows(g, segs, m - 1, S)
      BY <1>2
    <2>2. g[m - 1] \in Seq(S) /\ segs[m] \in Seq(S)
      BY <2>1 DEF Grows
    <2> DEFINE next == g[m - 1] \o segs[m]
               h == [n \in 0 .. m |-> IF n = m THEN next ELSE g[n]]
    <2>3. next \in Seq(S)
      BY <2>2, ConcatProperties
    <2>4. h \in [0 .. m -> Seq(S)] /\ h[0] = <<>> /\ h[m] = next
      <3> HIDE DEF next
      <3> QED
        BY <2>1, <2>3 DEF Grows
    <2>5. ASSUME NEW n \in 1 .. m PROVE h[n] = h[n - 1] \o segs[n]
      <3>1. n - 1 \in 0 .. m - 1 /\ h[n - 1] = g[n - 1]
        OBVIOUS
      <3>2. CASE n = m
        <4> HIDE DEF h
        <4>1. h[n] = next /\ h[n - 1] = g[m - 1]
          BY <2>4, <3>1, <3>2
        <4> QED
          BY <3>2, <4>1
      <3>3. CASE n # m
        <4>1. n \in 1 .. m - 1 /\ h[n] = g[n]
          BY <3>3
        <4> QED
          BY <2>1, <3>1, <4>1 DEF Grows
      <3> QED
        BY <3>2, <3>3
    <2> HIDE DEF h
    <2>6. Grows(h, segs, m, S)
      BY <2>4, <2>5 DEF Grows
    <2> QED
      BY <2>6
  <1> HIDE DEF M
  <1>3. \A n \in 0 .. N : n \in M
    <2>1. N \in Nat
      OBVIOUS
    <2> QED
      BY <1>1, <1>2, <2>1, UpTo
  <1>4. N \in M
    BY <1>3
  <1> QED
    BY <1>4 DEF M

\* FlattenSeq makes the last of them.
LEMMA FlattenGrows ==
  ASSUME NEW S, NEW segs \in Seq(Seq(S)), NEW N \in Nat, N = Len(segs)
  PROVE  \E g : Grows(g, segs, N, S) /\ FlattenSeq(segs) = g[N]
  <1>0. \A i \in 1 .. N : segs[i] \in Seq(S)
    OBVIOUS
  <1>1. CASE N = 0
    <2>1. FlattenSeq(segs) = <<>>
      <3>1. segs = <<>>
        BY <1>1, EmptySeq
      <3> QED
        BY <1>1, <3>1 DEF FlattenSeq
    <2>2. PICK g : Grows(g, segs, N, S)
      BY GrowthExists
    <2>3. g[N] = <<>>
      BY <1>1, <2>2 DEF Grows
    <2> QED
      BY <2>1, <2>2, <2>3
  <1>2. CASE N # 0
    <2> DEFINE Body(f) == [i \in 1 .. N |-> IF i = 1 THEN segs[i]
                                            ELSE f[i - 1] \o segs[i]]
               flatten == CHOOSE f : f = Body(f)
    <2>1. FlattenSeq(segs) = flatten[N]
      BY <1>2 DEF FlattenSeq
    <2>2. PICK g : Grows(g, segs, N, S)
      BY GrowthExists
    <2>3. \E f : f = Body(f)
      <3> DEFINE f0 == [i \in 1 .. N |-> g[i]]
      <3>1. ASSUME NEW i \in 1 .. N
            PROVE  f0[i] = IF i = 1 THEN segs[i] ELSE f0[i - 1] \o segs[i]
        <4> HIDE DEF f0
        <4>1. segs[i] \in Seq(S) /\ g[i] = g[i - 1] \o segs[i]
          BY <1>0, <2>2 DEF Grows
        <4>2. CASE i = 1
          <5>1. g[i - 1] = <<>>
            BY <2>2, <4>2 DEF Grows
          <5>2. <<>> \o segs[i] = segs[i]
            BY <4>1, ConcatEmptySeq
          <5>3. f0[i] = g[i]
            BY DEF f0
          <5> QED
            BY <4>1, <4>2, <5>1, <5>2, <5>3
        <4>3. CASE i # 1
          <5>1. i - 1 \in 1 .. N
            BY <4>3
          <5>2. f0[i] = g[i] /\ f0[i - 1] = g[i - 1]
            BY <5>1 DEF f0
          <5> QED
            BY <4>1, <4>3, <5>2
        <4> QED
          BY <4>2, <4>3
      <3>2. f0 = Body(f0)
        BY <3>1
      <3> QED
        BY <3>2
    <2>4. flatten = Body(flatten)
      BY <2>3
    <2> HIDE DEF flatten
    <2> DEFINE M == {n \in 0 .. N : n # 0 => flatten[n] = g[n]}
    <2>5. 0 \in M
      OBVIOUS
    <2>6. ASSUME NEW n \in 1 .. N, n - 1 \in M PROVE n \in M
      <3>0. flatten[n] = Body(flatten)[n]
        BY <2>4
      <3>1. /\ flatten[n] = IF n = 1 THEN segs[n] ELSE flatten[n - 1] \o segs[n]
            /\ segs[n] \in Seq(S) /\ g[n] = g[n - 1] \o segs[n]
        BY <1>0, <2>2, <3>0 DEF Grows
      <3>2. CASE n = 1
        <4>1. g[n - 1] = <<>>
          BY <2>2, <3>2 DEF Grows
        <4>2. <<>> \o segs[n] = segs[n]
          BY <3>1, ConcatEmptySeq
        <4> QED
          BY <3>1, <3>2, <4>1, <4>2
      <3>3. CASE n # 1
        <4>1. flatten[n - 1] = g[n - 1]
          BY <2>6, <3>3
        <4>2. flatten[n] = g[n]
          <5> HIDE DEF M
          <5> QED
            BY <3>1, <3>3, <4>1
        <4> QED
          BY <4>2
      <3> QED
        BY <3>2, <3>3
    <2> HIDE DEF M
    <2>7. \A n \in 0 .. N : n \in M
      BY <2>5, <2>6, UpTo
    <2>8. flatten[N] = g[N]
      BY <1>2, <2>7 DEF M
    <2> QED
      BY <2>1, <2>2, <2>8
  <1> QED
    BY <1>1, <1>2

----------------------------------------------------------------------------
\* Where the lines of a file come from

\* The first n segments lie in out one behind the other, the i-th after off[i]
\* elements.
Laid(out, segs, n, off) ==
  /\ off \in [1 .. n + 1 -> Nat]
  /\ off[1] = 0 /\ off[n + 1] = Len(out)
  /\ \A i \in 1 .. n : off[i + 1] = off[i] + Len(segs[i])
  /\ \A i, k \in 1 .. n : i < k => off[i + 1] <= off[k]
  /\ \A i \in 1 .. n : \A j \in 1 .. Len(segs[i]) :
       off[i] + j \in 1 .. Len(out) /\ out[off[i] + j] = segs[i][j]
  /\ \A p \in 1 .. Len(out) :
       \E i \in 1 .. n : \E j \in 1 .. Len(segs[i]) : p = off[i] + j

\* So they do when the next one is put behind them.
LEMMA LaidGoesOn ==
  ASSUME NEW S, NEW segs \in Seq(Seq(S)), NEW n \in 1 .. Len(segs),
         NEW out \in Seq(S), NEW off, Laid(out, segs, n - 1, off)
  PROVE  \E next : Laid(out \o segs[n], segs, n, next)
  <1> DEFINE seg == segs[n]
             new == out \o seg
             L == Len(out)
             m == Len(seg)
             next == [i \in 1 .. n + 1 |-> IF i = n + 1 THEN L + m ELSE off[i]]
  <1>1. seg \in Seq(S) /\ m \in Nat /\ L \in Nat
    OBVIOUS
  <1>2. /\ Len(new) = L + m
        /\ \A p \in 1 .. L + m : new[p] = IF p <= L THEN out[p] ELSE seg[p - L]
    BY <1>1, ConcatProperties
  <1> HIDE DEF new, L, m
  <1>3. /\ off \in [1 .. n -> Nat] /\ off[1] = 0 /\ off[n] = L
        /\ \A i \in 1 .. n - 1 : off[i + 1] = off[i] + Len(segs[i])
        /\ \A i, k \in 1 .. n - 1 : i < k => off[i + 1] <= off[k]
        /\ \A i \in 1 .. n - 1 : \A j \in 1 .. Len(segs[i]) :
             off[i] + j \in 1 .. L /\ out[off[i] + j] = segs[i][j]
        /\ \A p \in 1 .. L :
             \E i \in 1 .. n - 1 : \E j \in 1 .. Len(segs[i]) : p = off[i] + j
    BY DEF Laid, L
  <1>4. \A i \in 1 .. n - 1 : Len(segs[i]) \in Nat /\ i \in 1 .. n /\ i + 1 \in 1 .. n
    OBVIOUS
  <1>5. /\ next \in [1 .. n + 1 -> Nat]
        /\ next[n + 1] = L + m
        /\ \A i \in 1 .. n : next[i] = off[i]
    BY <1>1, <1>3
  <1> HIDE DEF next
  <1>6. next[1] = 0 /\ next[n + 1] = Len(new)
    BY <1>2, <1>3, <1>5
  <1>7. \A i \in 1 .. n : next[i + 1] = next[i] + Len(segs[i])
    <2> SUFFICES ASSUME NEW i \in 1 .. n PROVE next[i + 1] = next[i] + Len(segs[i])
      OBVIOUS
    <2>1. CASE i = n
      BY <1>3, <1>5, <2>1 DEF m
    <2>2. CASE i # n
      <3>1. i \in 1 .. n - 1
        BY <2>2
      <3> QED
        BY <1>3, <1>4, <1>5, <3>1
    <2> QED
      BY <2>1, <2>2
  <1>8. \A i, k \in 1 .. n : i < k => next[i + 1] <= next[k]
    <2> SUFFICES ASSUME NEW i \in 1 .. n, NEW k \in 1 .. n, i < k
                 PROVE  next[i + 1] <= next[k]
      OBVIOUS
    <2>1. i \in 1 .. n - 1 /\ next[i + 1] = off[i + 1] /\ next[k] = off[k]
      BY <1>5
    <2>2. CASE k # n
      <3>1. k \in 1 .. n - 1
        BY <2>2
      <3> QED
        BY <1>3, <2>1, <3>1
    <2>3. CASE k = n /\ i = n - 1
      <3>1. off[k] \in Nat /\ i + 1 = k
        BY <1>3, <2>3
      <3> QED
        BY <2>1, <3>1
    <2>4. CASE k = n /\ i # n - 1
      <3>1. n - 1 \in 1 .. n - 1 /\ i < n - 1 /\ n - 1 + 1 = n
        BY <2>1, <2>4
      <3>2. off[i + 1] <= off[n - 1] /\ off[n - 1 + 1] = off[n - 1] + Len(segs[n - 1])
        BY <1>3, <2>1, <3>1
      <3>3. off[i + 1] \in Nat /\ off[n - 1] \in Nat /\ Len(segs[n - 1]) \in Nat
        BY <1>3, <1>4, <2>1, <3>1
      <3> QED
        BY <2>1, <2>4, <3>1, <3>2, <3>3
    <2> QED
      BY <2>2, <2>3, <2>4
  <1>9. \A i \in 1 .. n : \A j \in 1 .. Len(segs[i]) :
          next[i] + j \in 1 .. Len(new) /\ new[next[i] + j] = segs[i][j]
    <2> SUFFICES ASSUME NEW i \in 1 .. n, NEW j \in 1 .. Len(segs[i])
                 PROVE  next[i] + j \in 1 .. Len(new) /\ new[next[i] + j] = segs[i][j]
      OBVIOUS
    <2>1. next[i] = off[i] /\ off[i] \in Nat /\ j \in Nat
      BY <1>3, <1>5
    <2>2. CASE i = n
      <3>1. off[i] + j = L + j /\ j \in 1 .. m
        BY <1>3, <2>2 DEF m
      <3>2. L + j \in 1 .. L + m /\ ~ L + j <= L /\ L + j - L = j
        BY <1>1, <3>1
      <3>3. new[L + j] = seg[L + j - L]
        BY <1>1, <1>2, <3>2
      <3> QED
        BY <1>2, <1>3, <2>1, <2>2, <3>1, <3>2, <3>3
    <2>3. CASE i # n
      <3>1. i \in 1 .. n - 1
        BY <2>3
      <3>2. off[i] + j \in 1 .. L /\ out[off[i] + j] = segs[i][j]
        BY <1>3, <3>1
      <3>3. off[i] + j \in 1 .. L + m /\ off[i] + j <= L
        BY <1>1, <3>2
      <3> QED
        BY <1>2, <2>1, <3>2, <3>3
    <2> QED
      BY <2>2, <2>3
  <1>10. \A p \in 1 .. Len(new) :
           \E i \in 1 .. n : \E j \in 1 .. Len(segs[i]) : p = next[i] + j
    <2> TAKE p \in 1 .. Len(new)
    <2>1. p \in 1 .. L + m
      BY <1>2
    <2>2. CASE p <= L
      <3>1. p \in 1 .. L
        <4>1. L + m \in Nat
          BY <1>1
        <4> QED
          BY <1>1, <2>1, <2>2, <4>1
      <3>2. PICK i \in 1 .. n - 1 : \E j \in 1 .. Len(segs[i]) : p = off[i] + j
        BY <1>3, <3>1
      <3>3. i \in 1 .. n /\ next[i] = off[i]
        BY <1>4, <1>5
      <3> QED
        BY <3>2, <3>3
    <2>3. CASE ~ p <= L
      <3>1. p - L \in 1 .. Len(segs[n]) /\ p = L + (p - L)
        BY <1>1, <2>1, <2>3 DEF m
      <3>2. next[n] = L
        BY <1>3, <1>5
      <3> QED
        BY <3>1, <3>2
    <2> QED
      BY <2>2, <2>3
  <1>11. Laid(new, segs, n, next)
    BY <1>5, <1>6, <1>7, <1>8, <1>9, <1>10 DEF Laid
  <1> QED
    BY <1>11 DEF new

\* And so they do when all the others are.
LEMMA FlattenOnto ==
  ASSUME NEW S, NEW all \in Seq(Seq(S)), NEW segs \in Seq(Seq(S)),
         NEW m \in Nat, NEW N \in Nat, N = Len(segs), m + N <= Len(all),
         \A n \in 1 .. N : all[m + n] = segs[n],
         NEW base \in Seq(S), NEW off, Laid(base, all, m, off)
  PROVE  /\ base \o FlattenSeq(segs) \in Seq(S)
         /\ \E next : Laid(base \o FlattenSeq(segs), all, m + N, next)
  <1>1. ASSUME NEW s \in Seq(S), NEW t \in Seq(S), NEW u \in Seq(S)
        PROVE  (s \o t) \o u = s \o (t \o u)
    BY ONLY ConcatAssociative, SMTT(20)
  <1>2. PICK g : Grows(g, segs, N, S) /\ FlattenSeq(segs) = g[N]
    BY FlattenGrows
  <1>3. /\ \A n \in 0 .. N : g[n] \in Seq(S)
        /\ g[0] = <<>>
        /\ \A n \in 1 .. N : g[n] = g[n - 1] \o segs[n]
    BY <1>2 DEF Grows
  <1> DEFINE M == {n \in 0 .. N : \E next : Laid(base \o g[n], all, m + n, next)}
  <1>4. 0 \in M
    <2>1. base \o g[0] = base /\ m + 0 = m
      BY <1>3, ConcatEmptySeq
    <2>2. Laid(base \o g[0], all, m + 0, off)
      BY <2>1
    <2> QED
      BY <2>2
  <1>5. ASSUME NEW n \in 1 .. N, n - 1 \in M PROVE n \in M
    <2>1. PICK next : Laid(base \o g[n - 1], all, m + (n - 1), next)
      BY <1>5
    <2>2. /\ m + n \in 1 .. Len(all) /\ m + (n - 1) = (m + n) - 1
          /\ g[n - 1] \in Seq(S) /\ segs[n] \in Seq(S)
      <3>1. Len(all) \in Nat /\ n - 1 \in 0 .. N
        OBVIOUS
      <3>2. m + n \in 1 .. Len(all) /\ m + (n - 1) = (m + n) - 1
        BY <3>1
      <3>3. g[n - 1] \in Seq(S)
        BY <1>3, <3>1
      <3> QED
        BY <3>2, <3>3
    <2>3. base \o g[n - 1] \in Seq(S)
      BY <2>2, ConcatProperties
    <2>4. \E next2 : Laid((base \o g[n - 1]) \o all[m + n], all, m + n, next2)
      BY <2>1, <2>2, <2>3, LaidGoesOn
    <2>5. (base \o g[n - 1]) \o segs[n] = base \o (g[n - 1] \o segs[n])
      BY <1>1, <2>2
    <2>6. (base \o g[n - 1]) \o all[m + n] = base \o g[n]
      BY <1>3, <2>5
    <2> QED
      BY <2>4, <2>6
  <1> HIDE DEF M
  <1>6. \A n \in 0 .. N : n \in M
    BY <1>4, <1>5, UpTo
  <1>7. \E next : Laid(base \o g[N], all, m + N, next)
    <2>1. N \in M
      BY <1>6
    <2> QED
      BY <2>1 DEF M
  <1>8. base \o g[N] \in Seq(S)
    BY <1>3, ConcatProperties
  <1> QED
    BY <1>2, <1>7, <1>8

\* Nothing is laid out as nothing.
LEMMA NothingLaid ==
  ASSUME NEW segs
  PROVE  \E off : Laid(<<>>, segs, 0, off)
  <1> DEFINE off == [i \in 1 .. 1 |-> 0]
  <1>1. Laid(<<>>, segs, 0, off)
    BY DEF Laid
  <1> QED
    BY <1>1

----------------------------------------------------------------------------
\* The contents that mergeEnvFile may write

LEMMA Values == Own # Empty /\ Own \notin App /\ \A v \in App : v # Empty
  BY BoundsAssumption DEF Own, App, Empty

LEMMA LineFields ==
  ASSUME NEW line \in Line
  PROVE  /\ line.key \in Key \cup {NoKey}
         /\ line.val \in {Empty, Own} \cup App
         /\ line = [key |-> line.key, val |-> line.val]
  BY DEF Line

LEMMA WrittenIs ==
  ASSUME NEW k \in Key, NEW v \in {Empty, Own} \cup App
  PROVE  /\ Written(k, v) \in Seq(Line)
         /\ Len(Written(k, v)) = IF k \in MultiLine /\ v # Empty THEN 2 ELSE 1
         /\ Written(k, v)[1] = [key |-> k, val |-> v]
         /\ k \in MultiLine /\ v # Empty => Written(k, v)[2] = [key |-> NoKey, val |-> v]
  <1> DEFINE first == [key |-> k, val |-> v]
             second == [key |-> NoKey, val |-> v]
  <1>1. first \in Line /\ second \in Line
    BY DEF Line
  <1> HIDE DEF first, second
  <1>2. CASE k \in MultiLine /\ v # Empty
    <2>1. Written(k, v) = <<first>> \o <<second>>
      BY <1>2 DEF Written, first, second
    <2>2. /\ <<first>> \in Seq(Line) /\ Len(<<first>>) = 1 /\ <<first>>[1] = first
          /\ <<second>> \in Seq(Line) /\ Len(<<second>>) = 1 /\ <<second>>[1] = second
      BY <1>1
    <2>3. /\ Written(k, v) \in Seq(Line) /\ Len(Written(k, v)) = 2
          /\ Written(k, v)[1] = first /\ Written(k, v)[2] = second
      BY <2>1, <2>2, ConcatProperties
    <2> QED
      BY <1>2, <2>3 DEF first, second
  <1>3. CASE ~(k \in MultiLine /\ v # Empty)
    <2>1. Written(k, v) = <<first>> \o <<>>
      BY <1>3 DEF Written, first
    <2>2. Written(k, v) = <<first>>
      BY <2>1
    <2> QED
      BY <1>1, <1>3, <2>2 DEF first
  <1> QED
    BY <1>2, <1>3

\* The line has the App's value from now on.
Renewed(line, force) == line.key # NoKey /\ (line.val = Empty \/ force)

LEMMA RewrittenIs ==
  ASSUME NEW line \in Line, NEW v \in App, NEW force \in BOOLEAN
  PROVE  /\ Rewritten(line, v, force) \in Seq(Line)
         /\ Len(Rewritten(line, v, force)) =
              IF Renewed(line, force) /\ line.key \in MultiLine THEN 2 ELSE 1
         /\ Rewritten(line, v, force)[1] =
              IF Renewed(line, force) THEN [key |-> line.key, val |-> v] ELSE line
         /\ Renewed(line, force) /\ line.key \in MultiLine =>
              Rewritten(line, v, force)[2] = [key |-> NoKey, val |-> v]
  <1>1. CASE Renewed(line, force)
    <2>1. Rewritten(line, v, force) = Written(line.key, v)
      BY <1>1 DEF Renewed, Rewritten
    <2>2. line.key \in Key /\ v \in {Empty, Own} \cup App /\ v # Empty
      BY <1>1, Values, LineFields DEF Renewed
    <2>3. /\ Written(line.key, v) \in Seq(Line)
          /\ Len(Written(line.key, v)) = IF line.key \in MultiLine THEN 2 ELSE 1
          /\ Written(line.key, v)[1] = [key |-> line.key, val |-> v]
          /\ line.key \in MultiLine =>
               Written(line.key, v)[2] = [key |-> NoKey, val |-> v]
      BY <2>2, WrittenIs
    <2> QED
      BY <1>1, <2>1, <2>3
  <1>2. CASE ~Renewed(line, force)
    <2>1. Rewritten(line, v, force) = <<line>>
      BY <1>2 DEF Renewed, Rewritten
    <2> QED
      BY <1>2, <2>1
  <1> QED
    BY <1>1, <1>2

\* The lines that were there, and a blank one for each key that was not.
Completes(all, lines) ==
  /\ all \in Seq(Line)
  /\ Len(lines) <= Len(all)
  /\ \A p \in DOMAIN lines : all[p] = lines[p]
  /\ \A p \in DOMAIN all : p > Len(lines) => all[p].key \in Key /\ all[p].val = Empty
  /\ WellFormed(all)
  /\ \A k \in Key : \E p \in DOMAIN all : all[p].key = k

Segments(all, v, force) == [p \in DOMAIN all |-> Rewritten(all[p], v, force)]

\* An order has every key that is missing.
LEMMA OrderIsOnto ==
  ASSUME NEW M \in SUBSET Key, NEW order \in Orders(M)
  PROVE  /\ order \in Seq(M)
         /\ \A p, q \in DOMAIN order : order[p] = order[q] => p = q
         /\ \A k \in M : \E p \in DOMAIN order : order[p] = k
  <1> DEFINE D == 1 .. Cardinality(M)
  <1>1. IsFiniteSet(M) /\ Cardinality(M) \in Nat
    BY KeysAssumption, FS_Subset, FS_CardinalityType
  <1>2. Cardinality(D) = Cardinality(M)
    BY <1>1, FS_Interval
  <1>3. /\ order \in [D -> M]
        /\ \A p, q \in DOMAIN order : order[p] = order[q] => p = q
    BY DEF Orders
  <1>4. order \in Injection(D, M)
    BY <1>3 DEF Injection, IsInjective
  <1>5. order \in Surjection(D, M)
    BY <1>1, <1>2, <1>4, FS_Injection
  <1> QED
    BY <1>1, <1>3, <1>5 DEF Surjection

LEMMA MergeIsLaid ==
  ASSUME NEW lines \in Seq(Line), WellFormed(lines), NEW v \in App,
         NEW force \in BOOLEAN, NEW out \in Merges(lines, v, force)
  PROVE  /\ out \in Seq(Line)
         /\ \E all : /\ Completes(all, lines)
                     /\ \E off : Laid(out, Segments(all, v, force), Len(all), off)
  <1> DEFINE M == Key \ Seen(lines)
  <1>1. PICK order \in Orders(M) :
          out = FlattenSeq([p \in DOMAIN lines |-> Rewritten(lines[p], v, force)])
                  \o FlattenSeq([n \in DOMAIN order |-> Written(order[n], v)])
    BY DEF Merges
  <1>2. /\ order \in Seq(M)
        /\ \A p, q \in DOMAIN order : order[p] = order[q] => p = q
        /\ \A k \in M : \E p \in DOMAIN order : order[p] = k
    <2> HIDE DEF M
    <2>1. M \in SUBSET Key
      BY DEF M
    <2> QED
      BY <2>1, OrderIsOnto
  <1> DEFINE blank == [n \in DOMAIN order |-> [key |-> order[n], val |-> Empty]]
             all == lines \o blank
             L == Len(lines)
             C == Len(order)
             old == [p \in DOMAIN lines |-> Rewritten(lines[p], v, force)]
             new == [n \in DOMAIN order |-> Written(order[n], v)]
             segs == Segments(all, v, force)
  <1>3. /\ L \in Nat /\ C \in Nat
        /\ DOMAIN lines = 1 .. L /\ DOMAIN order = 1 .. C
        /\ \A n \in 1 .. C : order[n] \in M
        /\ \A k \in M : k \in Key /\ k # NoKey
    BY <1>2, KeysAssumption
  <1>4. blank \in Seq(Line) /\ Len(blank) = C
    BY <1>3 DEF Line
  <1>5. /\ all \in Seq(Line) /\ Len(all) = L + C /\ DOMAIN all = 1 .. L + C
        /\ \A p \in 1 .. L : all[p] = lines[p]
        /\ \A n \in 1 .. C : all[L + n] = [key |-> order[n], val |-> Empty]
    <2> HIDE DEF blank
    <2>0. /\ all \in Seq(Line) /\ Len(all) = L + C
          /\ \A p \in 1 .. L + C : all[p] = IF p <= L THEN lines[p] ELSE blank[p - L]
      <3>1. ASSUME NEW b \in Seq(Line)
            PROVE  /\ lines \o b \in Seq(Line) /\ Len(lines \o b) = L + Len(b)
                   /\ \A p \in 1 .. L + Len(b) :
                        (lines \o b)[p] = IF p <= L THEN lines[p] ELSE b[p - L]
        BY ConcatProperties
      <3> QED
        BY <1>4, <3>1
    <2> HIDE DEF all, L
    <2>1. /\ \A p \in 1 .. L : p \in 1 .. L + C /\ p <= L
          /\ \A n \in 1 .. C : L + n \in 1 .. L + C /\ ~ L + n <= L /\ L + n - L = n
      BY <1>3
    <2>2. \A n \in 1 .. C : blank[n] = [key |-> order[n], val |-> Empty]
      BY <1>3 DEF blank
    <2>3. \A p \in 1 .. L : all[p] = lines[p]
      BY <2>0, <2>1
    <2>4. ASSUME NEW n \in 1 .. C PROVE all[L + n] = blank[n]
      <3>1. PICK p \in 1 .. L + C : p = L + n /\ ~ p <= L /\ p - L = n
        BY <1>3
      <3>2. all[p] = blank[p - L]
        BY <2>0, <3>1
      <3> QED
        BY <3>1, <3>2
    <2> QED
      BY <2>0, <2>2, <2>3, <2>4
  <1> HIDE DEF all, blank
  <1>6. \A p \in DOMAIN all : p \in 1 .. L \/ \E n \in 1 .. C : p = L + n
    <2> SUFFICES ASSUME NEW p \in 1 .. L + C, p \notin 1 .. L
                 PROVE  \E n \in 1 .. C : p = L + n
      BY <1>5
    <2>1. p - L \in 1 .. C /\ p = L + (p - L)
      BY <1>3
    <2> QED
      BY <2>1
  <1>7. /\ \A n \in 1 .. C : all[L + n].key = order[n] /\ all[L + n].val = Empty
        /\ \A p \in 1 .. L : \A n \in 1 .. C : lines[p].key # order[n]
    <2>1. \A n \in 1 .. C : order[n] \notin Seen(lines) /\ order[n] # NoKey
      BY <1>3
    <2>2. \A p \in 1 .. L : lines[p].key # NoKey => lines[p].key \in Seen(lines)
      BY <1>3 DEF Seen
    <2>3. ASSUME NEW n \in 1 .. C
          PROVE  all[L + n].key = order[n] /\ all[L + n].val = Empty
      <3>1. all[L + n] = [key |-> order[n], val |-> Empty]
        BY <1>5
      <3> QED
        BY <3>1
    <2> QED
      BY <2>1, <2>2, <2>3
  <1>8. Completes(all, lines)
    <2>1. \A p \in DOMAIN all : p > Len(lines) => all[p].key \in Key /\ all[p].val = Empty
      BY <1>3, <1>6, <1>7
    <2>2. \A k \in Key : \E p \in DOMAIN all : all[p].key = k
      <3> SUFFICES ASSUME NEW k \in Key PROVE \E p \in DOMAIN all : all[p].key = k
        OBVIOUS
      <3>1. CASE k \in M
        <4>1. PICK n \in 1 .. C : order[n] = k
          BY <1>2, <1>3, <3>1
        <4>2. L + n \in DOMAIN all
          BY <1>3, <1>5
        <4> QED
          BY <1>7, <4>1, <4>2
      <3>2. CASE k \notin M
        <4>1. PICK p \in 1 .. L : lines[p].key = k
          BY <1>3, <3>2 DEF Seen
        <4>2. p \in DOMAIN all
          BY <1>3, <1>5
        <4> QED
          BY <1>5, <4>1, <4>2
      <3> QED
        BY <3>1, <3>2
    <2>3. \A p, q \in DOMAIN all : all[p].key = all[q].key /\ all[p].key # NoKey => p = q
      <3> SUFFICES ASSUME NEW p \in DOMAIN all, NEW q \in DOMAIN all,
                          all[p].key = all[q].key, all[p].key # NoKey
                   PROVE  p = q
        OBVIOUS
      <3>1. CASE p \in 1 .. L /\ q \in 1 .. L
        BY <1>3, <1>5, <3>1 DEF WellFormed
      <3>2. ASSUME NEW a \in 1 .. L, NEW n \in 1 .. C PROVE all[a].key # all[L + n].key
        <4>1. all[a] = lines[a] /\ lines[a].key # order[n] /\ all[L + n].key = order[n]
          BY <1>5, <1>7
        <4> QED
          BY <4>1
      <3>3. ASSUME NEW a \in 1 .. C, NEW n \in 1 .. C, all[L + a].key = all[L + n].key
            PROVE  a = n
        <4>1. order[a] = order[n]
          BY <1>7, <3>3
        <4> QED
          BY <1>2, <1>3, <4>1
      <3> QED
        BY <1>6, <3>1, <3>2, <3>3
    <2>4. \A p \in DOMAIN all : all[p].key = NoKey => all[p].val # Empty
      BY <1>3, <1>5, <1>6, <1>7 DEF WellFormed
    <2> QED
      BY <1>3, <1>5, <2>1, <2>2, <2>3, <2>4 DEF Completes, WellFormed
  <1>9. segs \in Seq(Seq(Line)) /\ Len(segs) = L + C
    <2>1. \A p \in 1 .. L + C : Rewritten(all[p], v, force) \in Seq(Line)
      <3> TAKE p \in 1 .. L + C
      <3>1. all[p] \in Line
        BY <1>5
      <3> QED
        BY <3>1, RewrittenIs
    <2> QED
      BY <1>3, <1>5, <2>1 DEF Segments
  <1>10. /\ old \in Seq(Seq(Line)) /\ Len(old) = L
         /\ \A n \in 1 .. L : segs[0 + n] = old[n]
    <2>1. \A p \in 1 .. L : Rewritten(lines[p], v, force) \in Seq(Line)
      <3> TAKE p \in 1 .. L
      <3>1. lines[p] \in Line
        BY <1>3
      <3> QED
        BY <3>1, RewrittenIs
    <2>2. \A n \in 1 .. L : 0 + n \in DOMAIN all /\ all[0 + n] = lines[n]
      BY <1>3, <1>5
    <2> QED
      BY <1>3, <2>1, <2>2 DEF Segments
  <1>11. /\ new \in Seq(Seq(Line)) /\ Len(new) = C
         /\ \A n \in 1 .. C : segs[L + n] = new[n]
    <2>1. \A n \in 1 .. C : Written(order[n], v) \in Seq(Line)
      BY <1>3, WrittenIs
    <2>2. ASSUME NEW n \in 1 .. C
          PROVE  L + n \in DOMAIN all /\ Rewritten(all[L + n], v, force) = new[n]
      BY <1>3, <1>5, <1>7 DEF Rewritten
    <2> QED
      BY <1>3, <2>1, <2>2 DEF Segments
  <1> DEFINE start == FlattenSeq(old)
  <1> HIDE DEF segs, old, new
  <1>12. PICK off0 : Laid(<<>>, segs, 0, off0)
    BY NothingLaid
  <1>13. /\ <<>> \o start \in Seq(Line)
         /\ \E off : Laid(<<>> \o start, segs, 0 + L, off)
    <2>1. <<>> \in Seq(Line) /\ 0 + L <= Len(segs) /\ 0 \in Nat
      BY <1>3, <1>9
    <2> QED
      BY <1>3, <1>9, <1>10, <1>12, <2>1, FlattenOnto
  <1> HIDE DEF start
  <1>14. <<>> \o start = start /\ 0 + L = L
    BY <1>3, <1>13
  <1>15. start \in Seq(Line) /\ \E off : Laid(start, segs, L, off)
    BY <1>13, <1>14
  <1>16. /\ start \o FlattenSeq(new) \in Seq(Line)
         /\ \E off : Laid(start \o FlattenSeq(new), segs, L + C, off)
    <2>1. L + C <= Len(segs)
      BY <1>3, <1>9
    <2> QED
      BY <1>3, <1>9, <1>11, <1>15, <2>1, FlattenOnto
  <1>17. out = start \o FlattenSeq(new)
    BY <1>1 DEF start, old, new
  <1> QED
    BY <1>5, <1>8, <1>16, <1>17 DEF segs

\* The reader's value of a key with one line, and of a key without.
LEMMA ValueIs ==
  ASSUME NEW lines \in Seq(Line), WellFormed(lines), NEW k \in Key
  PROVE  /\ \A p \in DOMAIN lines : lines[p].key = k => Value(lines, k) = lines[p].val
         /\ (\A p \in DOMAIN lines : lines[p].key # k) => Value(lines, k) = Empty
  <1> DEFINE at == {p \in DOMAIN lines : lines[p].key = k}
             last == CHOOSE p \in at : \A q \in at : q <= p
  <1>1. Value(lines, k) = IF at = {} THEN Empty ELSE lines[last].val
    BY DEF Value
  <1>2. ASSUME NEW p \in DOMAIN lines, lines[p].key = k
        PROVE  Value(lines, k) = lines[p].val
    <2>1. at = {p} /\ p \in Nat
      BY <1>2, KeysAssumption DEF WellFormed
    <2>2. last = p
      BY <2>1
    <2> HIDE DEF at, last
    <2> QED
      BY <1>1, <2>1, <2>2
  <1>3. ASSUME \A p \in DOMAIN lines : lines[p].key # k
        PROVE  Value(lines, k) = Empty
    BY <1>1, <1>3
  <1> QED
    BY <1>2, <1>3

\* Where the lines of the file are in what is written.
Placed(out, all, v, force, off) ==
  /\ off \in [1 .. Len(all) + 1 -> Nat]
  /\ \A i \in DOMAIN all :
       /\ off[i] + 1 \in DOMAIN out
       /\ out[off[i] + 1] = IF Renewed(all[i], force)
                            THEN [key |-> all[i].key, val |-> v] ELSE all[i]
       /\ ~(Renewed(all[i], force) /\ all[i].key \in MultiLine) =>
            off[i + 1] = off[i] + 1
       /\ Renewed(all[i], force) /\ all[i].key \in MultiLine =>
            off[i] + 2 \in DOMAIN out /\ out[off[i] + 2] = [key |-> NoKey, val |-> v]
  /\ \A p \in DOMAIN out : \E i \in DOMAIN all :
       \/ p = off[i] + 1
       \/ p = off[i] + 2 /\ Renewed(all[i], force) /\ all[i].key \in MultiLine

LEMMA LaidIsPlaced ==
  ASSUME NEW all \in Seq(Line), NEW v \in App, NEW force \in BOOLEAN,
         NEW out \in Seq(Line), NEW off,
         Laid(out, Segments(all, v, force), Len(all), off)
  PROVE  Placed(out, all, v, force, off)
  <1> DEFINE segs == Segments(all, v, force)
             N == Len(all)
             Two(i) == Renewed(all[i], force) /\ all[i].key \in MultiLine
  <1>1. N \in Nat /\ DOMAIN all = 1 .. N /\ DOMAIN out = 1 .. Len(out)
    OBVIOUS
  <1>2. ASSUME NEW i \in 1 .. N
        PROVE  /\ Two(i) => Len(segs[i]) = 2
               /\ ~Two(i) => Len(segs[i]) = 1
               /\ segs[i][1] = IF Renewed(all[i], force)
                               THEN [key |-> all[i].key, val |-> v] ELSE all[i]
               /\ Two(i) => segs[i][2] = [key |-> NoKey, val |-> v]
    <2>1. PICK line \in Line : line = all[i]
      BY <1>1
    <2>2. segs[i] = Rewritten(line, v, force)
      BY <1>1, <2>1 DEF Segments
    <2>3. /\ Len(Rewritten(line, v, force)) =
               IF Renewed(line, force) /\ line.key \in MultiLine THEN 2 ELSE 1
          /\ Rewritten(line, v, force)[1] =
               IF Renewed(line, force) THEN [key |-> line.key, val |-> v] ELSE line
          /\ Renewed(line, force) /\ line.key \in MultiLine =>
               Rewritten(line, v, force)[2] = [key |-> NoKey, val |-> v]
      BY RewrittenIs
    <2> HIDE DEF segs
    <2> QED
      BY <2>1, <2>2, <2>3
  <1>3. /\ off \in [1 .. N + 1 -> Nat]
        /\ \A i \in 1 .. N : off[i + 1] = off[i] + Len(segs[i])
        /\ \A i \in 1 .. N : \A j \in 1 .. Len(segs[i]) :
             off[i] + j \in 1 .. Len(out) /\ out[off[i] + j] = segs[i][j]
        /\ \A p \in 1 .. Len(out) :
             \E i \in 1 .. N : \E j \in 1 .. Len(segs[i]) : p = off[i] + j
    BY DEF Laid
  <1> HIDE DEF segs, N
  <1>4. ASSUME NEW i \in 1 .. N
        PROVE  /\ off[i] + 1 \in 1 .. Len(out) /\ out[off[i] + 1] = segs[i][1]
               /\ ~Two(i) => off[i + 1] = off[i] + 1
               /\ Two(i) => off[i] + 2 \in 1 .. Len(out) /\ out[off[i] + 2] = segs[i][2]
    <2>1. CASE Two(i)
      <3>1. Len(segs[i]) = 2
        BY <1>2, <2>1
      <3>2. 1 \in 1 .. Len(segs[i]) /\ 2 \in 1 .. Len(segs[i])
        BY <3>1
      <3> QED
        BY <1>3, <2>1, <3>2
    <2>2. CASE ~Two(i)
      <3>1. Len(segs[i]) = 1
        BY <1>2, <2>2
      <3>2. 1 \in 1 .. Len(segs[i])
        BY <3>1
      <3>3. off[i + 1] = off[i] + 1
        BY <1>3, <3>1
      <3> QED
        BY <1>3, <2>2, <3>2, <3>3
    <2> QED
      BY <2>1, <2>2
  <1>5. ASSUME NEW p \in 1 .. Len(out)
        PROVE  \E i \in 1 .. N : p = off[i] + 1 \/ (p = off[i] + 2 /\ Two(i))
    <2>1. PICK i \in 1 .. N : \E j \in 1 .. Len(segs[i]) : p = off[i] + j
      BY <1>3
    <2>2. PICK j \in 1 .. Len(segs[i]) : p = off[i] + j
      BY <2>1
    <2>3. CASE Two(i)
      <3>1. j \in 1 .. 2
        BY <1>2, <2>3
      <3>2. j = 1 \/ j = 2
        BY <3>1
      <3> QED
        BY <2>2, <2>3, <3>2
    <2>4. CASE ~Two(i)
      <3>1. j \in 1 .. 1
        BY <1>2, <2>4
      <3>2. j = 1
        BY <3>1
      <3> QED
        BY <2>2, <3>2
    <2> QED
      BY <2>3, <2>4
  <1>6. ASSUME NEW i \in 1 .. N
        PROVE  out[off[i] + 1] = IF Renewed(all[i], force)
                                 THEN [key |-> all[i].key, val |-> v] ELSE all[i]
    BY <1>2, <1>4
  <1>7. ASSUME NEW i \in 1 .. N, Two(i)
        PROVE  off[i] + 2 \in DOMAIN out /\ out[off[i] + 2] = [key |-> NoKey, val |-> v]
    BY <1>1, <1>2, <1>4, <1>7
  <1>8. ASSUME NEW i \in DOMAIN all
        PROVE  /\ off[i] + 1 \in DOMAIN out
               /\ ~Two(i) => off[i + 1] = off[i] + 1
    BY <1>1, <1>4
  <1>9. \A p \in DOMAIN out : \E i \in DOMAIN all :
          p = off[i] + 1 \/ (p = off[i] + 2 /\ Two(i))
    BY <1>1, <1>5
  <1>10. off \in [1 .. Len(all) + 1 -> Nat]
    BY <1>3 DEF N
  <1> QED
    BY <1>1, <1>6, <1>7, <1>8, <1>9, <1>10 DEF Placed

\* What is written has its keys' lines once, as the file had.
LEMMA PlacedIsWellFormed ==
  ASSUME NEW all \in Seq(Line), NEW v \in App, NEW force \in BOOLEAN,
         NEW out \in Seq(Line), NEW off, Placed(out, all, v, force, off),
         WellFormed(all)
  PROVE  WellFormed(out)
  <1> DEFINE Two(i) == Renewed(all[i], force) /\ all[i].key \in MultiLine
  <1>1. ASSUME NEW i \in DOMAIN all
        PROVE  /\ out[off[i] + 1].key = all[i].key
               /\ all[i].key = NoKey => out[off[i] + 1].val = all[i].val
               /\ Two(i) => /\ out[off[i] + 2].key = NoKey
                            /\ out[off[i] + 2].val = v
    <2>1. out[off[i] + 1] = IF Renewed(all[i], force)
                            THEN [key |-> all[i].key, val |-> v] ELSE all[i]
      BY DEF Placed
    <2>2. Two(i) => out[off[i] + 2] = [key |-> NoKey, val |-> v]
      BY DEF Placed
    <2> QED
      BY <2>1, <2>2 DEF Renewed
  <1>2. \A p \in DOMAIN out : \E i \in DOMAIN all :
          p = off[i] + 1 \/ (p = off[i] + 2 /\ Two(i))
    BY DEF Placed
  <1>3. ASSUME NEW p \in DOMAIN out, out[p].key # NoKey
        PROVE  \E i \in DOMAIN all : p = off[i] + 1 /\ all[i].key = out[p].key
    BY <1>1, <1>2, <1>3
  <1>4. ASSUME NEW p \in DOMAIN out, NEW q \in DOMAIN out,
               out[p].key = out[q].key, out[p].key # NoKey
        PROVE  p = q
    <2>1. PICK i \in DOMAIN all : p = off[i] + 1 /\ all[i].key = out[p].key
      BY <1>3, <1>4
    <2>2. PICK j \in DOMAIN all : q = off[j] + 1 /\ all[j].key = out[q].key
      BY <1>3, <1>4
    <2>3. i = j
      BY <1>4, <2>1, <2>2 DEF WellFormed
    <2> QED
      BY <2>1, <2>2, <2>3
  <1>5. ASSUME NEW p \in DOMAIN out, out[p].key = NoKey PROVE out[p].val # Empty
    <2>1. PICK i \in DOMAIN all : p = off[i] + 1 \/ (p = off[i] + 2 /\ Two(i))
      BY <1>2
    <2>2. CASE p = off[i] + 1
      BY <1>1, <1>5, <2>2 DEF WellFormed
    <2>3. CASE p = off[i] + 2 /\ Two(i)
      BY <1>1, <2>3, Values
    <2> QED
      BY <2>1, <2>2, <2>3
  <1> QED
    BY <1>4, <1>5 DEF WellFormed

\* A value that spans lines stays in one piece, unless --force replaces it.
LEMMA PlacedIsWhole ==
  ASSUME NEW all \in Seq(Line), NEW v \in App, NEW force \in BOOLEAN,
         NEW out \in Seq(Line), NEW off, Placed(out, all, v, force, off),
         WellFormed(all), Whole(all),
         force => \A i \in DOMAIN all : all[i].key \in MultiLine => all[i].val = Empty
  PROVE  Whole(out)
  <1> DEFINE Two(i) == Renewed(all[i], force) /\ all[i].key \in MultiLine
  <1>1. /\ DOMAIN all = 1 .. Len(all) /\ Len(all) \in Nat
        /\ DOMAIN out = 1 .. Len(out) /\ Len(out) \in Nat
        /\ NoKey \notin MultiLine
    BY KeysAssumption
  <1>2. ASSUME NEW i \in DOMAIN all
        PROVE  /\ off[i] \in Nat /\ off[i] + 1 \in DOMAIN out
               /\ out[off[i] + 1] = IF Renewed(all[i], force)
                                    THEN [key |-> all[i].key, val |-> v] ELSE all[i]
               /\ ~Two(i) => off[i + 1] = off[i] + 1
               /\ Two(i) => /\ off[i] + 2 \in DOMAIN out
                            /\ out[off[i] + 2] = [key |-> NoKey, val |-> v]
    BY <1>1 DEF Placed
  <1>3. \A p \in DOMAIN out : \E i \in DOMAIN all :
          p = off[i] + 1 \/ (p = off[i] + 2 /\ Two(i))
    BY DEF Placed
  <1>4. ASSUME NEW p \in DOMAIN out, out[p].key \in MultiLine, out[p].val # Empty
        PROVE  p < Len(out) /\ out[p + 1] = [key |-> NoKey, val |-> out[p].val]
    <2>1. PICK i \in DOMAIN all : p = off[i] + 1 \/ (p = off[i] + 2 /\ Two(i))
      BY <1>3
    <2>2. p = off[i] + 1
      <3> SUFFICES ASSUME p = off[i] + 2, Two(i) PROVE FALSE
        BY <2>1
      <3>1. out[p] = [key |-> NoKey, val |-> v]
        BY <1>2
      <3> QED
        BY <1>1, <1>4, <3>1
    <2>3. CASE Renewed(all[i], force)
      <3>1. out[p] = [key |-> all[i].key, val |-> v]
        BY <1>2, <2>2, <2>3
      <3>2. Two(i) /\ out[p].val = v
        BY <1>4, <2>3, <3>1
      <3>3. p + 1 = off[i] + 2
        <4>1. off[i] \in Nat
          BY <1>2
        <4> QED
          BY <2>2, <4>1
      <3>4. p + 1 \in DOMAIN out /\ out[p + 1] = [key |-> NoKey, val |-> v]
        BY <1>2, <3>2, <3>3
      <3> QED
        BY <1>1, <3>2, <3>4
    <2>4. CASE ~Renewed(all[i], force)
      <3>1. out[p] = all[i]
        BY <1>2, <2>2, <2>4
      <3>2. i + 1 \in DOMAIN all /\ all[i + 1] = [key |-> NoKey, val |-> out[p].val]
        <4>1. i < Len(all) /\ all[i + 1] = [key |-> NoKey, val |-> all[i].val]
          BY <1>4, <3>1 DEF Whole
        <4> QED
          BY <1>1, <3>1, <4>1
      <3>3. ~Renewed(all[i + 1], force) /\ off[i + 1] = off[i] + 1
        <4>1. all[i + 1].key = NoKey
          BY <3>2
        <4> QED
          BY <1>2, <2>4, <4>1 DEF Renewed
      <3>4. off[i + 1] + 1 \in DOMAIN out /\ out[off[i + 1] + 1] = all[i + 1]
        BY <1>2, <3>2, <3>3
      <3>5. off[i + 1] + 1 = p + 1
        BY <2>2, <3>3
      <3> QED
        BY <1>1, <3>2, <3>4, <3>5
    <2> QED
      BY <2>3, <2>4
  <1>5. ASSUME NEW p \in DOMAIN out, out[p].key = NoKey
        PROVE  p > 1 /\ out[p - 1].key \in MultiLine /\ out[p - 1].val = out[p].val
    <2>1. PICK i \in DOMAIN all : p = off[i] + 1 \/ (p = off[i] + 2 /\ Two(i))
      BY <1>3
    <2>2. CASE p = off[i] + 2 /\ Two(i)
      <3>1. p > 1 /\ p - 1 = off[i] + 1
        <4>1. off[i] \in Nat
          BY <1>2
        <4> QED
          BY <2>2, <4>1
      <3>2. /\ out[p] = [key |-> NoKey, val |-> v]
            /\ out[p - 1] = [key |-> all[i].key, val |-> v]
        BY <1>2, <2>2, <3>1
      <3> QED
        BY <2>2, <3>1, <3>2
    <2>3. CASE p = off[i] + 1
      <3>1. out[p] = IF Renewed(all[i], force)
                     THEN [key |-> all[i].key, val |-> v] ELSE all[i]
        BY <1>2, <2>3
      <3>2. all[i].key = NoKey /\ out[p] = all[i]
        BY <1>5, <3>1 DEF Renewed
      <3>3. /\ i - 1 \in DOMAIN all /\ i - 1 + 1 = i
            /\ all[i - 1].key \in MultiLine
            /\ all[i - 1].val = all[i].val /\ all[i].val # Empty
        <4>1. i > 1 /\ all[i - 1].key \in MultiLine /\ all[i - 1].val = all[i].val
          BY <3>2 DEF Whole
        <4>2. all[i].val # Empty
          BY <3>2 DEF WellFormed
        <4>3. i - 1 \in DOMAIN all /\ i - 1 + 1 = i
          BY <1>1, <4>1
        <4> QED
          BY <4>1, <4>2, <4>3
      <3>4. ~Renewed(all[i - 1], force)
        BY <3>3 DEF Renewed
      <3>5. PICK h \in DOMAIN all : h = i - 1 /\ h + 1 = i
        BY <3>3
      <3>6. off[i] = off[h] + 1 /\ out[off[h] + 1] = all[h] /\ off[h] \in Nat
        BY <1>2, <3>4, <3>5
      <3>7. p > 1 /\ p - 1 = off[h] + 1
        BY <2>3, <3>6
      <3> QED
        BY <3>2, <3>3, <3>5, <3>6, <3>7
    <2> QED
      BY <2>1, <2>2, <2>3
  <1> QED
    BY <1>4, <1>5 DEF Whole

\* What mergeEnvFile makes of a file: the form of the file is kept; each key has
\* one line, with the App's value where there was none or --force was given;
\* without --force the values that were there stay; and a value that spans lines
\* stays in one piece unless --force replaces it.
LEMMA Merged ==
  ASSUME NEW lines \in Seq(Line), WellFormed(lines), NEW v \in App,
         NEW force \in BOOLEAN, NEW out \in Merges(lines, v, force)
  PROVE  /\ out \in Seq(Line) /\ WellFormed(out)
         /\ \A k \in Key : \E p \in DOMAIN out :
              /\ out[p].key = k
              /\ out[p].val = IF Value(lines, k) = Empty \/ force THEN v
                              ELSE Value(lines, k)
         /\ ~force => \A p \in DOMAIN lines : lines[p].val # Empty =>
                        \E q \in DOMAIN out : out[q] = lines[p]
         /\ Whole(lines) /\ (force => \A k \in MultiLine : Value(lines, k) = Empty) =>
              Whole(out)
  <1>1. out \in Seq(Line)
    BY MergeIsLaid
  <1>2. PICK all : /\ Completes(all, lines)
                   /\ \E off : Laid(out, Segments(all, v, force), Len(all), off)
    BY MergeIsLaid
  <1>3. PICK off : Laid(out, Segments(all, v, force), Len(all), off)
    BY <1>2
  <1>4. /\ all \in Seq(Line) /\ WellFormed(all) /\ Len(lines) <= Len(all)
        /\ \A p \in DOMAIN lines : all[p] = lines[p] /\ p \in DOMAIN all
        /\ \A p \in DOMAIN all : \/ p \in DOMAIN lines
                                 \/ all[p].key \in Key /\ all[p].val = Empty
        /\ \A k \in Key : \E p \in DOMAIN all : all[p].key = k
    BY <1>2 DEF Completes
  <1>5. Placed(out, all, v, force, off)
    BY <1>1, <1>3, <1>4, LaidIsPlaced
  <1>6. WellFormed(out)
    BY <1>1, <1>4, <1>5, PlacedIsWellFormed
  <1>7. \A i \in DOMAIN all :
          /\ off[i] + 1 \in DOMAIN out
          /\ out[off[i] + 1] = IF Renewed(all[i], force)
                               THEN [key |-> all[i].key, val |-> v] ELSE all[i]
    BY <1>5 DEF Placed
  <1>8. ASSUME NEW i \in DOMAIN all, all[i].key \in Key
        PROVE  Value(lines, all[i].key) = all[i].val
    <2> DEFINE k == all[i].key
    <2>1. CASE i \in DOMAIN lines
      <3>1. lines[i].key = k /\ lines[i].val = all[i].val
        BY <1>4, <2>1
      <3> QED
        BY <1>8, <2>1, <3>1, ValueIs
    <2>2. CASE i \notin DOMAIN lines
      <3>1. all[i].val = Empty
        BY <1>4, <2>2
      <3>2. ASSUME NEW p \in DOMAIN lines PROVE lines[p].key # k
        <4>1. p \in DOMAIN all /\ all[p] = lines[p] /\ p # i
          BY <1>4, <2>2
        <4>2. all[p].key = k => p = i
          BY <1>4, <1>8, <4>1, KeysAssumption DEF WellFormed
        <4> QED
          BY <4>1, <4>2
      <3> HIDE DEF k
      <3>3. Value(lines, k) = Empty
        BY <1>8, <3>2, ValueIs DEF k
      <3> QED
        BY <3>1, <3>3 DEF k
    <2> QED
      BY <2>1, <2>2
  <1>9. ASSUME NEW k \in Key
        PROVE  \E p \in DOMAIN out :
                 /\ out[p].key = k
                 /\ out[p].val = IF Value(lines, k) = Empty \/ force THEN v
                                 ELSE Value(lines, k)
    <2>1. PICK i \in DOMAIN all : all[i].key = k
      BY <1>4
    <2>2. Value(lines, k) = all[i].val /\ k # NoKey
      BY <1>8, <2>1, KeysAssumption
    <2>3. /\ off[i] + 1 \in DOMAIN out
          /\ out[off[i] + 1] = IF all[i].val = Empty \/ force
                               THEN [key |-> k, val |-> v] ELSE all[i]
      BY <1>7, <2>1, <2>2 DEF Renewed
    <2>4. CASE all[i].val = Empty \/ force
      BY <2>2, <2>3, <2>4
    <2>5. CASE ~(all[i].val = Empty \/ force)
      BY <2>1, <2>2, <2>3, <2>5
    <2> QED
      BY <2>4, <2>5
  <1>10. ASSUME ~force, NEW p \in DOMAIN lines, lines[p].val # Empty
         PROVE  \E q \in DOMAIN out : out[q] = lines[p]
    <2>1. p \in DOMAIN all /\ all[p] = lines[p] /\ ~Renewed(all[p], force)
      BY <1>4, <1>10 DEF Renewed
    <2> QED
      BY <1>7, <2>1
  <1>11. ASSUME Whole(lines), force => \A k \in MultiLine : Value(lines, k) = Empty
         PROVE  Whole(out)
    <2>1. force => \A i \in DOMAIN all : all[i].key \in MultiLine => all[i].val = Empty
      BY <1>8, <1>11, KeysAssumption
    <2>2. Whole(all)
      <3>1. /\ DOMAIN all = 1 .. Len(all) /\ Len(all) \in Nat
            /\ DOMAIN lines = 1 .. Len(lines) /\ Len(lines) \in Nat
        BY <1>4
      <3>2. ASSUME NEW p \in DOMAIN all, all[p].key \in MultiLine, all[p].val # Empty
            PROVE  p < Len(all) /\ all[p + 1] = [key |-> NoKey, val |-> all[p].val]
        <4>1. p \in DOMAIN lines /\ all[p] = lines[p]
          BY <1>4, <3>2
        <4>2. p < Len(lines) /\ lines[p + 1] = [key |-> NoKey, val |-> lines[p].val]
          BY <1>11, <3>2, <4>1 DEF Whole
        <4>3. p + 1 \in DOMAIN lines
          BY <3>1, <4>1, <4>2
        <4> QED
          BY <1>4, <3>1, <4>1, <4>2, <4>3
      <3>3. ASSUME NEW p \in DOMAIN all, all[p].key = NoKey
            PROVE  p > 1 /\ all[p - 1].key \in MultiLine /\ all[p - 1].val = all[p].val
        <4>1. p \in DOMAIN lines /\ all[p] = lines[p]
          BY <1>4, <3>3, KeysAssumption
        <4>2. p > 1 /\ lines[p - 1].key \in MultiLine /\ lines[p - 1].val = lines[p].val
          BY <1>11, <3>3, <4>1 DEF Whole
        <4>3. p - 1 \in DOMAIN lines
          BY <3>1, <4>1, <4>2
        <4> QED
          BY <1>4, <4>1, <4>2, <4>3
      <3> QED
        BY <3>2, <3>3 DEF Whole
    <2> QED
      BY <1>1, <1>4, <1>5, <2>1, <2>2, PlacedIsWhole
  <1> QED
    BY <1>1, <1>6, <1>9, <1>10, <1>11

\* The Apps whose credentials a file has, and how many.
LEMMA SourcesAreApps ==
  ASSUME NEW lines \in Seq(Line), WellFormed(lines)
  PROVE  /\ \A k \in Key : Value(lines, k) \in {Empty, Own} \cup App
         /\ IsFiniteSet(Sources(lines)) /\ Cardinality(Sources(lines)) \in Nat
  <1>1. ASSUME NEW k \in Key
        PROVE  Value(lines, k) \in {Empty, Own} \cup App
    <2>1. CASE \E p \in DOMAIN lines : lines[p].key = k
      <3>1. PICK p \in DOMAIN lines : lines[p].key = k
        BY <2>1
      <3>2. lines[p] \in Line
        OBVIOUS
      <3>3. Value(lines, k) = lines[p].val
        BY <3>1, ValueIs
      <3> QED
        BY <3>2, <3>3, LineFields
    <2>2. CASE \A p \in DOMAIN lines : lines[p].key # k
      BY <2>2, ValueIs
    <2> QED
      BY <2>1, <2>2
  <1>2. Sources(lines) \subseteq App
    BY <1>1 DEF Sources
  <1>3. IsFiniteSet(App)
    <2>1. 1 \in Int /\ MaxApps \in Int
      BY BoundsAssumption
    <2>2. IsFiniteSet(1 .. MaxApps)
      BY ONLY <2>1, FS_Interval
    <2> QED
      BY <2>2 DEF App
  <1>4. IsFiniteSet(Sources(lines))
    BY <1>2, <1>3, FS_Subset
  <1> QED
    BY <1>1, <1>4, FS_CardinalityType

\* A write that is not cut short completes the file: it brings in the App's
\* credentials beside those the file had, unless there was no gap, or instead
\* of them with --force.
LEMMA MergedSources ==
  ASSUME NEW lines \in Seq(Line), WellFormed(lines), NEW v \in App,
         NEW force \in BOOLEAN, NEW out \in Merges(lines, v, force),
         NEW n \in Nat,
         Cardinality(Sources(lines)) <= n + (IF Complete(lines) THEN 1 ELSE 0)
  PROVE  Complete(out) /\ Cardinality(Sources(out)) <= n + 1
  <1>1. /\ out \in Seq(Line) /\ WellFormed(out)
        /\ \A k \in Key : \E p \in DOMAIN out :
             /\ out[p].key = k
             /\ out[p].val = IF Value(lines, k) = Empty \/ force THEN v
                             ELSE Value(lines, k)
    BY Merged
  <1>2. \A k \in Key : Value(out, k) = IF Value(lines, k) = Empty \/ force THEN v
                                       ELSE Value(lines, k)
    BY <1>1, ValueIs
  <1>3. Complete(out)
    BY <1>2, Values DEF Complete
  <1>4. /\ IsFiniteSet(Sources(lines)) /\ Cardinality(Sources(lines)) \in Nat
        /\ Cardinality(Sources(out)) \in Nat
    BY <1>1, SourcesAreApps
  <1>5. CASE force
    <2>1. Sources(out) \subseteq {v}
      BY <1>2, <1>5 DEF Sources
    <2>2. IsFiniteSet({v}) /\ Cardinality({v}) = 1
      BY FS_Singleton
    <2>3. Cardinality(Sources(out)) <= 1
      BY <2>1, <2>2, FS_Subset
    <2> QED
      BY <1>3, <1>4, <2>3
  <1>6. CASE ~force /\ Complete(lines)
    <2>1. Sources(out) = Sources(lines)
      BY <1>2, <1>6 DEF Sources, Complete
    <2> QED
      BY <1>3, <1>6, <2>1
  <1>7. CASE ~Complete(lines)
    <2>1. Sources(out) \subseteq Sources(lines) \cup {v}
      BY <1>2 DEF Sources
    <2>2. /\ IsFiniteSet(Sources(lines) \cup {v})
          /\ Cardinality(Sources(lines) \cup {v}) =
               IF v \in Sources(lines) THEN Cardinality(Sources(lines))
               ELSE Cardinality(Sources(lines)) + 1
      BY <1>4, FS_AddElement
    <2>3. Cardinality(Sources(out)) <= Cardinality(Sources(lines) \cup {v})
      BY <2>1, <2>2, FS_Subset
    <2> DEFINE many == Cardinality(Sources(lines))
               both == Cardinality(Sources(lines) \cup {v})
               here == Cardinality(Sources(out))
    <2>4. /\ many \in Nat /\ both \in {many, many + 1} /\ many <= n
          /\ here \in Nat /\ here <= both
      BY <1>4, <1>7, <2>2, <2>3
    <2> HIDE DEF many, both, here
    <2>5. here <= n + 1
      BY <2>4
    <2> QED
      BY <1>3, <2>5 DEF here
  <1> QED
    BY <1>5, <1>6, <1>7

\* A write that is cut short leaves a file of the same form, without values
\* that the whole would not have had.
LEMMA PrefixIsWellFormed ==
  ASSUME NEW out \in Seq(Line), WellFormed(out), NEW n \in 0 .. Len(out)
  PROVE  /\ SubSeq(out, 1, n) \in Seq(Line) /\ WellFormed(SubSeq(out, 1, n))
         /\ Sources(SubSeq(out, 1, n)) \subseteq Sources(out)
  <1> DEFINE part == SubSeq(out, 1, n)
  <1>1. Len(out) \in Nat /\ n \in Nat /\ n <= Len(out)
    OBVIOUS
  <1>2. /\ part \in Seq(Line) /\ Len(part) = n
        /\ \A p \in 1 .. n : part[p] = out[p] /\ p \in DOMAIN out
    BY <1>1
  <1> HIDE DEF part
  <1>3. DOMAIN part = 1 .. n
    BY <1>2
  <1>4. WellFormed(part)
    BY <1>2, <1>3 DEF WellFormed
  <1>5. ASSUME NEW k \in Key
        PROVE  Value(part, k) = Empty \/ Value(part, k) = Value(out, k)
    <2>1. CASE \E p \in DOMAIN part : part[p].key = k
      <3>1. PICK p \in DOMAIN part : part[p].key = k
        BY <2>1
      <3>2. p \in DOMAIN out /\ out[p] = part[p]
        BY <1>2, <1>3
      <3>3. Value(part, k) = part[p].val /\ Value(out, k) = out[p].val
        BY <1>2, <1>4, <3>1, <3>2, ValueIs
      <3> QED
        BY <3>2, <3>3
    <2>2. CASE \A p \in DOMAIN part : part[p].key # k
      BY <1>2, <1>4, <2>2, ValueIs
    <2> QED
      BY <2>1, <2>2
  <1>6. Sources(part) \subseteq Sources(out)
    BY <1>5 DEF Sources
  <1> QED
    BY <1>2, <1>4, <1>6 DEF part

----------------------------------------------------------------------------
\* The file that the operator begins with

Given(f) ==
  [n \in 1 .. Cardinality(Key) |->
     LET k == SetToSeq(Key)[n]
     IN  IF f[k] = "absent" THEN <<>>
         ELSE Written(k, IF f[k] = "own" THEN Own ELSE Empty)]

LEMMA KeysInOrder ==
  /\ Cardinality(Key) \in Nat
  /\ SetToSeq(Key) \in [1 .. Cardinality(Key) -> Key]
  /\ \A m, n \in 1 .. Cardinality(Key) : SetToSeq(Key)[m] = SetToSeq(Key)[n] => m = n
  <1> DEFINE D == 1 .. Cardinality(Key)
  <1>1. Cardinality(Key) \in Nat /\ ExistsBijection(D, Key)
    BY KeysAssumption, FS_CardinalityType
  <1>2. \E s \in [D -> Key] : IsInjective(s)
    BY <1>1 DEF ExistsBijection, Bijection, Injection
  <1>3. SetToSeq(Key) \in [D -> Key] /\ IsInjective(SetToSeq(Key))
    BY <1>2 DEF SetToSeq
  <1> QED
    BY <1>1, <1>3 DEF IsInjective

LEMMA BeginsWell ==
  ASSUME NEW f \in [Key -> {"absent", "blank", "own"}]
  PROVE  /\ FlattenSeq(Given(f)) \in Seq(Line)
         /\ WellFormed(FlattenSeq(Given(f))) /\ Whole(FlattenSeq(Given(f)))
         /\ \A p \in DOMAIN FlattenSeq(Given(f)) :
              FlattenSeq(Given(f))[p].val \in {Empty, Own}
  <1> DEFINE C == Cardinality(Key)
             key == SetToSeq(Key)
             val(n) == IF f[key[n]] = "own" THEN Own ELSE Empty
             segs == Given(f)
             begin == FlattenSeq(segs)
             Two(n) == key[n] \in MultiLine /\ val(n) # Empty
  <1>1. /\ C \in Nat /\ key \in [1 .. C -> Key]
        /\ \A m, n \in 1 .. C : key[m] = key[n] => m = n
    BY KeysInOrder
  <1>2. \A n \in 1 .. C : segs[n] = <<>> \/ segs[n] = Written(key[n], val(n))
    BY DEF Given
  <1>3. ASSUME NEW n \in 1 .. C
        PROVE  /\ Written(key[n], val(n)) \in Seq(Line)
               /\ Len(Written(key[n], val(n))) = IF Two(n) THEN 2 ELSE 1
               /\ Written(key[n], val(n))[1] = [key |-> key[n], val |-> val(n)]
               /\ Two(n) => Written(key[n], val(n))[2] = [key |-> NoKey, val |-> val(n)]
    <2> DEFINE k == key[n]
               v == val(n)
    <2>1. k \in Key /\ v \in {Empty, Own} \cup App
      BY <1>1
    <2> HIDE DEF k, v
    <2>2. /\ Written(k, v) \in Seq(Line)
          /\ Len(Written(k, v)) = IF k \in MultiLine /\ v # Empty THEN 2 ELSE 1
          /\ Written(k, v)[1] = [key |-> k, val |-> v]
          /\ k \in MultiLine /\ v # Empty =>
               Written(k, v)[2] = [key |-> NoKey, val |-> v]
      BY <2>1, WrittenIs
    <2> QED
      BY <2>2 DEF k, v
  <1>4. segs \in Seq(Seq(Line)) /\ Len(segs) = C
    <2>1. ASSUME NEW n \in 1 .. C PROVE segs[n] \in Seq(Line)
      <3> HIDE DEF segs, C, key, val
      <3>1. Written(key[n], val(n)) \in Seq(Line)
        BY <1>3
      <3>2. <<>> \in Seq(Line)
        BY EmptySeq
      <3> QED
        BY <1>2, <3>1, <3>2
    <2>2. segs \in [1 .. C -> Seq(Line)]
      <3>1. DOMAIN segs = 1 .. C /\ segs = [n \in 1 .. C |-> segs[n]]
        BY DEF Given
      <3> HIDE DEF segs
      <3> QED
        BY <2>1, <3>1
    <2> HIDE DEF segs
    <2> QED
      BY <1>1, <2>2
  <1>5. begin \in Seq(Line) /\ \E off : Laid(begin, segs, C, off)
    <2>1. PICK off0 : Laid(<<>>, segs, 0, off0)
      BY NothingLaid
    <2> HIDE DEF segs, C
    <2>2. 0 \in Nat /\ 0 + C <= Len(segs) /\ <<>> \in Seq(Line) /\ 0 + C = C
          /\ \A n \in 1 .. C : segs[0 + n] = segs[n]
      BY <1>1, <1>4
    <2>3. /\ <<>> \o FlattenSeq(segs) \in Seq(Line)
          /\ \E off : Laid(<<>> \o FlattenSeq(segs), segs, 0 + C, off)
      BY <1>1, <1>4, <2>1, <2>2, FlattenOnto
    <2>4. PICK g : Grows(g, segs, C, Line) /\ FlattenSeq(segs) = g[C]
      BY <1>1, <1>4, FlattenGrows
    <2>5. FlattenSeq(segs) \in Seq(Line)
      BY <1>1, <2>4 DEF Grows
    <2>6. <<>> \o FlattenSeq(segs) = FlattenSeq(segs)
      BY <2>5, ConcatEmptySeq
    <2> QED
      BY <2>2, <2>3, <2>6
  <1> HIDE DEF begin, segs, C, key, val
  <1>6. PICK off : Laid(begin, segs, C, off)
    BY <1>5
  <1>7. DOMAIN begin = 1 .. Len(begin) /\ Len(begin) \in Nat
    BY <1>5
  <1>8. \A n \in 1 .. C : val(n) \in {Empty, Own} /\ (Two(n) => val(n) # Empty)
    BY DEF val
  <1>9. ASSUME NEW p \in DOMAIN begin
        PROVE  \E i \in 1 .. C :
                 /\ off[i] \in Nat /\ off[i] + 1 \in DOMAIN begin
                 /\ begin[off[i] + 1] = [key |-> key[i], val |-> val(i)]
                 /\ Two(i) => /\ off[i] + 2 \in DOMAIN begin
                              /\ begin[off[i] + 2] = [key |-> NoKey, val |-> val(i)]
                 /\ p = off[i] + 1 \/ (p = off[i] + 2 /\ Two(i))
    <2>1. PICK i \in 1 .. C : \E j \in 1 .. Len(segs[i]) : p = off[i] + j
      BY <1>6, <1>7 DEF Laid
    <2>2. PICK j \in 1 .. Len(segs[i]) : p = off[i] + j
      BY <2>1
    <2>3. /\ off[i] \in Nat
          /\ \A m \in 1 .. Len(segs[i]) :
               off[i] + m \in DOMAIN begin /\ begin[off[i] + m] = segs[i][m]
      <3>1. off[i] \in Nat
        BY <1>1, <1>6 DEF Laid
      <3>2. \A m \in 1 .. Len(segs[i]) :
              off[i] + m \in 1 .. Len(begin) /\ begin[off[i] + m] = segs[i][m]
        BY <1>6 DEF Laid
      <3> QED
        BY <1>7, <3>1, <3>2
    <2>4. segs[i] = Written(key[i], val(i))
      <3>1. segs[i] # <<>>
        BY <2>2
      <3> QED
        BY <1>2, <3>1
    <2>5. 1 \in 1 .. Len(segs[i])
      BY <1>3, <2>4
    <2>6. /\ off[i] + 1 \in DOMAIN begin
          /\ begin[off[i] + 1] = [key |-> key[i], val |-> val(i)]
      BY <1>3, <2>3, <2>4, <2>5
    <2>7. CASE Two(i)
      <3>1. Len(segs[i]) = 2
        BY <1>3, <2>4, <2>7
      <3>2. 2 \in 1 .. Len(segs[i]) /\ (j = 1 \/ j = 2)
        BY <3>1
      <3>3. /\ off[i] + 2 \in DOMAIN begin
            /\ begin[off[i] + 2] = [key |-> NoKey, val |-> val(i)]
        BY <1>3, <2>3, <2>4, <2>7, <3>2
      <3> QED
        BY <2>2, <2>3, <2>6, <2>7, <3>2, <3>3
    <2>8. CASE ~Two(i)
      <3>1. Len(segs[i]) = 1
        BY <1>3, <2>4, <2>8
      <3>2. j = 1
        BY <3>1
      <3> QED
        BY <2>2, <2>3, <2>6, <2>8, <3>2
    <2> QED
      BY <2>7, <2>8
  <1>10. \A k \in Key : k # NoKey
    BY KeysAssumption
  <1>11. ASSUME NEW p \in DOMAIN begin, begin[p].key # NoKey
        PROVE  \E i \in 1 .. C : p = off[i] + 1 /\ begin[p].key = key[i]
    <2>1. PICK i \in 1 .. C :
            /\ off[i] \in Nat /\ off[i] + 1 \in DOMAIN begin
            /\ begin[off[i] + 1] = [key |-> key[i], val |-> val(i)]
            /\ Two(i) => /\ off[i] + 2 \in DOMAIN begin
                         /\ begin[off[i] + 2] = [key |-> NoKey, val |-> val(i)]
            /\ p = off[i] + 1 \/ (p = off[i] + 2 /\ Two(i))
      BY <1>9
    <2>2. p = off[i] + 1
      BY <1>11, <2>1
    <2> QED
      BY <2>1, <2>2
  <1>12. ASSUME NEW p \in DOMAIN begin, NEW q \in DOMAIN begin,
                begin[p].key = begin[q].key, begin[p].key # NoKey
         PROVE  p = q
    <2>1. PICK i \in 1 .. C : p = off[i] + 1 /\ begin[p].key = key[i]
      BY <1>11, <1>12
    <2>2. PICK j \in 1 .. C : q = off[j] + 1 /\ begin[q].key = key[j]
      BY <1>11, <1>12
    <2>3. i = j
      BY <1>1, <1>12, <2>1, <2>2
    <2> QED
      BY <2>1, <2>2, <2>3
  <1>13. ASSUME NEW p \in DOMAIN begin, begin[p].key = NoKey
         PROVE  /\ begin[p].val # Empty
                /\ p > 1 /\ begin[p - 1].key \in MultiLine
                /\ begin[p - 1].val = begin[p].val
    <2>1. PICK i \in 1 .. C :
            /\ off[i] \in Nat /\ off[i] + 1 \in DOMAIN begin
            /\ begin[off[i] + 1] = [key |-> key[i], val |-> val(i)]
            /\ Two(i) => /\ off[i] + 2 \in DOMAIN begin
                         /\ begin[off[i] + 2] = [key |-> NoKey, val |-> val(i)]
            /\ p = off[i] + 1 \/ (p = off[i] + 2 /\ Two(i))
      BY <1>9
    <2>2. p = off[i] + 2 /\ Two(i)
      BY <1>1, <1>10, <1>13, <2>1
    <2>3. p - 1 = off[i] + 1 /\ p > 1
      BY <2>1, <2>2
    <2> QED
      BY <2>1, <2>2, <2>3
  <1>14. ASSUME NEW p \in DOMAIN begin, begin[p].key \in MultiLine, begin[p].val # Empty
         PROVE  p < Len(begin) /\ begin[p + 1] = [key |-> NoKey, val |-> begin[p].val]
    <2>1. PICK i \in 1 .. C :
            /\ off[i] \in Nat /\ off[i] + 1 \in DOMAIN begin
            /\ begin[off[i] + 1] = [key |-> key[i], val |-> val(i)]
            /\ Two(i) => /\ off[i] + 2 \in DOMAIN begin
                         /\ begin[off[i] + 2] = [key |-> NoKey, val |-> val(i)]
            /\ p = off[i] + 1 \/ (p = off[i] + 2 /\ Two(i))
      BY <1>9
    <2>2. p = off[i] + 1 /\ Two(i)
      BY <1>14, <2>1, KeysAssumption
    <2>3. p + 1 = off[i] + 2
      BY <2>1, <2>2
    <2> QED
      BY <1>7, <2>1, <2>2, <2>3
  <1>15. ASSUME NEW p \in DOMAIN begin PROVE begin[p].val \in {Empty, Own}
    <2>1. PICK i \in 1 .. C :
            /\ off[i] \in Nat /\ off[i] + 1 \in DOMAIN begin
            /\ begin[off[i] + 1] = [key |-> key[i], val |-> val(i)]
            /\ Two(i) => /\ off[i] + 2 \in DOMAIN begin
                         /\ begin[off[i] + 2] = [key |-> NoKey, val |-> val(i)]
            /\ p = off[i] + 1 \/ (p = off[i] + 2 /\ Two(i))
      BY <1>9
    <2>2. begin[p].val = val(i)
      BY <2>1
    <2> HIDE DEF Two
    <2> QED
      BY <1>8, <2>2
  <1>16. WellFormed(begin)
    BY <1>12, <1>13 DEF WellFormed
  <1>17. Whole(begin)
    BY <1>13, <1>14 DEF Whole
  <1> QED
    BY <1>5, <1>15, <1>16, <1>17 DEF begin, segs

----------------------------------------------------------------------------
\* The steps

LEMMA Begins ==
  ASSUME Init
  PROVE  InitTypeOK /\ InitInv
  <1>1. PICK f \in [Key -> {"absent", "blank", "own"}] : file = FlattenSeq(Given(f))
    BY DEF Init, Given
  <1>2. /\ file \in Seq(Line) /\ WellFormed(file) /\ Whole(file)
        /\ \A p \in DOMAIN file : file[p].val \in {Empty, Own}
    BY <1>1, BeginsWell
  <1>3. InitTypeOK
    <2>1. main \in Main /\ runs \in 0 .. MaxRuns
      BY EmptySeq, BoundsAssumption DEF Init, Main, Error
    <2>2. /\ calls = <<>> /\ Len(calls) = 0 /\ apps = <<>> /\ Len(apps) = 0
          /\ shown = <<>> /\ done = <<>> /\ tears = 0 /\ stale = FALSE /\ before = file
      BY DEF Init
    <2>3. Len(calls) <= MaxCalls /\ Len(apps) <= MaxApps
      BY <2>2, BoundsAssumption
    <2> QED
      BY <1>2, <2>1, <2>2, <2>3, EmptySeq DEF InitTypeOK
  <1>4. Sources(file) = {}
    <2>1. \A k \in Key : Value(file, k) \in {Empty, Own}
      BY <1>2, ValueIs
    <2> QED
      BY <2>1 DEF Sources
  <1>5. FileInv
    <2>1. Cardinality(Sources(file)) = 0 /\ tears = 0
      BY <1>4, FS_EmptySet DEF Init
    <2> QED
      BY <1>2, <2>1 DEF FileInv, OneAppsCredentials
  <1>6. MainInv /\ FillsOnlyGaps /\ PageInv
    BY DEF Init, MainInv, FillsOnlyGaps, PageInv
  <1> QED
    BY <1>3, <1>5, <1>6 DEF InitInv

Call == [pc : {"exchange", "send", "gone"}, app : {Error} \cup App]
AnApp == [run : 1 .. MaxRuns, code : {"fresh", "spent"}]

\* The fields of main, of a callback and of an App.
LEMMA InitRecords ==
  ASSUME InitTypeOK
  PROVE  /\ main.pc \in {"off", "select", "open", "write", "close"}
         /\ main.force \in BOOLEAN /\ main.serving \in BOOLEAN
         /\ main.app \in {Error} \cup App /\ main.out \in Seq(Line)
         /\ main.exit \in {"none", "ok", "error", "timeout", "unwritten", "killed"}
         /\ \A c \in DOMAIN calls : /\ calls[c].pc \in {"exchange", "send", "gone"}
                                    /\ calls[c].app \in {Error} \cup App
         /\ \A a \in DOMAIN apps : apps[a].run \in 1 .. MaxRuns /\ a \in App
         /\ done # <<>> => done[1] \in {Error} \cup App
  <1>1. main \in Main
    BY DEF InitTypeOK
  <1>2. ASSUME NEW c \in DOMAIN calls
        PROVE  calls[c].pc \in {"exchange", "send", "gone"} /\ calls[c].app \in {Error} \cup App
    <2>1. calls \in Seq(Call)
      BY DEF InitTypeOK, Call
    <2>2. calls[c] \in Call
      BY <2>1
    <2> QED
      BY <2>2 DEF Call
  <1>3. ASSUME NEW a \in DOMAIN apps
        PROVE  apps[a].run \in 1 .. MaxRuns /\ a \in App
    <2>1. apps \in Seq(AnApp) /\ Len(apps) <= MaxApps
      BY DEF InitTypeOK, AnApp
    <2>2. apps[a] \in AnApp
      BY <2>1
    <2>3. a \in 1 .. Len(apps) /\ Len(apps) \in Nat
      BY <2>1
    <2>4. apps[a].run \in 1 .. MaxRuns
      BY <2>2 DEF AnApp
    <2> QED
      BY <2>1, <2>3, <2>4, BoundsAssumption DEF App
  <1>4. done # <<>> => done[1] \in {Error} \cup App
    BY DEF InitTypeOK
  <1> QED
    BY <1>1, <1>2, <1>3, <1>4 DEF Main

\* What a write that is cut short leaves in the file has the form of a file.
LEMMA WrittenInPart ==
  ASSUME InitTypeOK, InitInv, main.pc = "write", WriteInPart
  PROVE  /\ file' \in Seq(Line) /\ WellFormed(file')
         /\ \/ UNCHANGED <<file, tears>>
            \/ tears' = tears + 1 /\ Cardinality(Sources(file')) <= tears + 1
  <1>1. main.force \in BOOLEAN /\ file \in Seq(Line) /\ tears \in Nat
    BY InitRecords DEF InitTypeOK
  <1>2. /\ main.app \in App /\ main.out \in Merges(file, main.app, main.force)
        /\ WellFormed(file)
        /\ Cardinality(Sources(file)) <= tears + (IF Complete(file) THEN 1 ELSE 0)
    BY DEF InitInv, MainInv, FileInv, OneAppsCredentials
  <1>3. /\ main.out \in Seq(Line) /\ WellFormed(main.out)
        /\ Cardinality(Sources(main.out)) <= tears + 1
    BY <1>1, <1>2, Merged, MergedSources
  <1>4. ASSUME NEW n \in 0 .. Len(main.out) - 1, file' = SubSeq(main.out, 1, n)
        PROVE  /\ file' \in Seq(Line) /\ WellFormed(file')
               /\ Cardinality(Sources(file')) <= tears + 1
    <2>1. n \in 0 .. Len(main.out)
      BY <1>3
    <2>2. /\ file' \in Seq(Line) /\ WellFormed(file')
          /\ Sources(file') \subseteq Sources(main.out)
      BY <1>3, <1>4, <2>1, PrefixIsWellFormed
    <2>3. /\ IsFiniteSet(Sources(main.out)) /\ Cardinality(Sources(main.out)) \in Nat
          /\ Cardinality(Sources(file')) \in Nat
      BY <1>3, <2>2, SourcesAreApps
    <2>4. Cardinality(Sources(file')) <= Cardinality(Sources(main.out))
      BY <2>2, <2>3, FS_Subset
    <2> QED
      BY <1>1, <1>3, <2>2, <2>3, <2>4
  <1>5. CASE UNCHANGED <<file, tears>>
    BY <1>1, <1>2, <1>5
  <1>6. CASE \E n \in 0 .. Len(main.out) - 1 :
               file' = SubSeq(main.out, 1, n) /\ tears' = tears + 1
    BY <1>4, <1>6
  <1> QED
    BY <1>5, <1>6 DEF WriteInPart

\* The parts of the type invariant.
LEMMA CallsTyped ==
  ASSUME InitTypeOK, Next
  PROVE  /\ calls' \in Seq(Call)
         /\ Len(calls') <= MaxCalls
  <1>1. calls \in Seq(Call) /\ Len(calls) <= MaxCalls /\ MaxCalls \in Nat
    BY BoundsAssumption DEF InitTypeOK, Call
  <1>2. Error \in {Error} \cup App
    OBVIOUS
  <1>3. ASSUME NEW call \in Call, Arrive(call)
        PROVE  calls' \in Seq(Call) /\ Len(calls') <= MaxCalls
    <2> QED
      BY <1>1, <1>3 DEF Arrive
  <1>4. ASSUME NEW c \in DOMAIN calls, NEW call \in Call,
               calls' = [calls EXCEPT ![c] = call]
        PROVE  calls' \in Seq(Call) /\ Len(calls') <= MaxCalls
    <2>1. calls' \in Seq(Call) /\ Len(calls') = Len(calls)
      BY <1>1, <1>4, ExceptSeq
    <2> QED
      BY <1>1, <2>1
  <1>5. CASE \E a \in DOMAIN apps : Callback(a)
    <2>1. PICK a \in DOMAIN apps : Callback(a)
      BY <1>5
    <2>2. a \in App
      BY InitRecords
    <2>3. [pc |-> "exchange", app |-> a] \in Call /\ [pc |-> "send", app |-> Error] \in Call
      BY <2>2 DEF Call
    <2> QED
      BY <1>3, <2>1, <2>3 DEF Callback
  <1>6. CASE Stray
    BY <1>3, <1>6 DEF Stray, Call
  <1>7. CASE \E c \in DOMAIN calls : HandlerStep(c)
    <2>1. PICK c \in DOMAIN calls : HandlerStep(c)
      BY <1>7
    <2>2. calls[c].app \in {Error} \cup App /\ calls[c] \in Call
      BY <1>1, InitRecords
    <2>3. /\ [pc |-> "send", app |-> calls[c].app] \in Call
          /\ [pc |-> "send", app |-> Error] \in Call
          /\ [calls[c] EXCEPT !.pc = "gone"] \in Call
      BY <2>2 DEF Call
    <2>4. CASE Exchange(c)
      BY <1>4, <2>3, <2>4 DEF Exchange
    <2>5. CASE ExchangeFails(c)
      BY <1>4, <2>3, <2>5 DEF ExchangeFails
    <2>6. CASE Send(c)
      <3>1. calls' = [calls EXCEPT ![c] = [calls[c] EXCEPT !.pc = "gone"]]
        BY <2>6 DEF Send
      <3> QED
        BY <1>4, <2>3, <3>1
    <2> QED
      BY <2>1, <2>4, <2>5, <2>6 DEF HandlerStep
  <1>8. CASE Kill
    <2>1. calls' = [c \in DOMAIN calls |-> [calls[c] EXCEPT !.pc = "gone"]]
      BY <1>8 DEF Kill
    <2>2. \A c \in DOMAIN calls : [calls[c] EXCEPT !.pc = "gone"] \in Call
      <3> TAKE c \in DOMAIN calls
      <3>1. calls[c] \in Call
        BY <1>1
      <3> QED
        BY <3>1 DEF Call
    <2>3. DOMAIN calls = 1 .. Len(calls) /\ Len(calls) \in Nat
      BY <1>1
    <2>4. calls' \in [1 .. Len(calls) -> Call]
      BY <2>1, <2>2, <2>3
    <2>5. calls' \in Seq(Call) /\ Len(calls') = Len(calls)
      BY <2>3, <2>4
    <2> QED
      BY <1>1, <2>5
  <1>9. CASE \E force \in BOOLEAN : Start(force)
    <2>1. calls' = <<>>
      BY <1>9 DEF Start
    <2> QED
      BY <1>1, <2>1
  <1>10. CASE UNCHANGED calls
    BY <1>1, <1>10
  <1>11. MainStep \/ (\E r \in 1 .. runs : CreateApp(r)) \/ (\E a \in DOMAIN apps : Expire(a))
           => UNCHANGED calls
    BY DEF MainStep, Receive, Timeout, OpenEnv, OpenFails, WriteEnv, WriteFails, Shutdown,
           CreateApp, Expire
  <1> QED
    BY <1>5, <1>6, <1>7, <1>8, <1>9, <1>10, <1>11 DEF Next, Operator

LEMMA AppsTyped ==
  ASSUME InitTypeOK, Next
  PROVE  /\ apps' \in Seq(AnApp)
         /\ Len(apps') <= MaxApps
  <1>1. apps \in Seq(AnApp) /\ Len(apps) <= MaxApps /\ MaxApps \in Nat
    BY BoundsAssumption DEF InitTypeOK, AnApp
  <1>2. ASSUME NEW a, apps' = [apps EXCEPT ![a].code = "spent"]
        PROVE  apps' \in Seq(AnApp) /\ Len(apps') <= MaxApps
    <2>1. CASE a \in DOMAIN apps
      <3>1. apps[a] \in AnApp
        BY <1>1, <2>1
      <3> DEFINE spent == [apps[a] EXCEPT !.code = "spent"]
      <3>2. spent \in AnApp
        BY <3>1 DEF AnApp
      <3>3. apps' = [apps EXCEPT ![a] = spent]
        BY <1>2
      <3> HIDE DEF spent
      <3>4. apps' \in Seq(AnApp) /\ Len(apps') = Len(apps)
        BY <1>1, <2>1, <3>2, <3>3, ExceptSeq
      <3> QED
        BY <1>1, <3>4
    <2>2. CASE a \notin DOMAIN apps
      <3>1. apps' = apps
        BY <1>1, <1>2, <2>2
      <3> QED
        BY <1>1, <3>1
    <2> QED
      BY <2>1, <2>2
  <1>3. CASE \E r \in 1 .. runs : CreateApp(r)
    <2>1. PICK r \in 1 .. runs : CreateApp(r)
      BY <1>3
    <2>2. [run |-> r, code |-> "fresh"] \in AnApp
      BY BoundsAssumption DEF InitTypeOK, AnApp
    <2>3. /\ Len(apps) < MaxApps
          /\ apps' = Append(apps, [run |-> r, code |-> "fresh"])
      BY <2>1 DEF CreateApp
    <2>4. apps' \in Seq(AnApp) /\ Len(apps') = Len(apps) + 1
      BY <1>1, <2>2, <2>3, AppendProperties
    <2>5. Len(apps) \in Nat
      BY <1>1
    <2> QED
      BY <1>1, <2>3, <2>4, <2>5
  <1>4. CASE \E a \in DOMAIN apps : Expire(a)
    BY <1>2, <1>4 DEF Expire
  <1>5. CASE \E c \in DOMAIN calls : Exchange(c) \/ ExchangeFails(c)
    BY <1>1, <1>2, <1>5 DEF Exchange, ExchangeFails
  <1>6. CASE UNCHANGED apps
    BY <1>1, <1>6
  <1>7. \/ MainStep \/ (\E force \in BOOLEAN : Start(force)) \/ Stray \/ Kill
        \/ (\E a \in DOMAIN apps : Callback(a)) \/ (\E c \in DOMAIN calls : Send(c))
        => UNCHANGED apps
    BY DEF MainStep, Receive, Timeout, OpenEnv, OpenFails, WriteEnv, WriteFails, Shutdown,
           Start, Stray, Kill, Callback, Arrive, Send
  <1> QED
    BY <1>3, <1>4, <1>5, <1>6, <1>7 DEF Next, Operator, HandlerStep

LEMMA MainTyped ==
  ASSUME InitTypeOK, InitInv, Next
  PROVE  main' \in Main
  <1>1. /\ main \in Main
        /\ main.exit \in {"none", "ok", "error", "timeout", "unwritten", "killed"}
        /\ done # <<>> => done[1] \in {Error} \cup App
    BY InitRecords DEF InitTypeOK
  <1>2. ASSUME NEW exit \in {"ok", "error", "timeout", "unwritten"}, Close(exit)
        PROVE  main' \in Main
    BY <1>1, <1>2 DEF Close, Main
  <1>3. CASE \E force \in BOOLEAN : Start(force)
    <2>1. PICK force \in BOOLEAN, up \in BOOLEAN :
            main' = [main EXCEPT !.pc = "select", !.force = force, !.serving = up,
                                 !.app = Error, !.out = <<>>, !.exit = "none"]
      BY <1>3 DEF Start
    <2>2. <<>> \in Seq(Line)
      BY EmptySeq
    <2> QED
      BY <1>1, <2>1, <2>2 DEF Main
  <1>4. CASE Receive
    <2>1. CASE done[1] = Error
      BY <1>2, <1>4, <2>1 DEF Receive
    <2>2. CASE done[1] # Error
      BY <1>1, <1>4, <2>2 DEF Receive, Main
    <2> QED
      BY <2>1, <2>2
  <1>5. CASE OpenEnv
    <2>1. PICK out \in Merges(file, main.app, main.force) :
            main' = [main EXCEPT !.pc = "write", !.out = out]
      BY <1>5 DEF OpenEnv
    <2>2. main.app \in App /\ main.force \in BOOLEAN /\ file \in Seq(Line) /\ WellFormed(file)
      BY <1>5, InitRecords DEF OpenEnv, InitInv, MainInv, FileInv, InitTypeOK
    <2>3. out \in Seq(Line)
      BY <2>2, Merged
    <2> QED
      BY <1>1, <2>1, <2>3 DEF Main
  <1>6. CASE Timeout \/ OpenFails \/ WriteEnv \/ WriteFails
    BY <1>2, <1>6 DEF Timeout, OpenFails, WriteEnv, WriteFails
  <1>7. CASE Shutdown
    BY <1>1, <1>7 DEF Shutdown, Main
  <1>8. CASE Kill
    <2> DEFINE exit == IF main.exit = "none" THEN "killed" ELSE main.exit
    <2>1. main' = [main EXCEPT !.pc = "off", !.serving = FALSE, !.exit = exit]
      BY <1>8 DEF Kill
    <2>2. exit \in {"none", "ok", "error", "timeout", "unwritten", "killed"}
      BY <1>1
    <2> HIDE DEF exit
    <2> QED
      BY <1>1, <2>1, <2>2 DEF Main
  <1>9. CASE UNCHANGED main
    BY <1>1, <1>9
  <1>10. \/ (\E r \in 1 .. runs : CreateApp(r)) \/ Stray
         \/ (\E a \in DOMAIN apps : Callback(a) \/ Expire(a))
         \/ (\E c \in DOMAIN calls : HandlerStep(c))
         => UNCHANGED main
    BY DEF CreateApp, Stray, Callback, Arrive, Expire, HandlerStep, Exchange, ExchangeFails,
           Send
  <1> QED
    BY <1>3, <1>4, <1>5, <1>6, <1>7, <1>8, <1>9, <1>10 DEF Next, Operator, MainStep

LEMMA FileTyped ==
  ASSUME InitTypeOK, InitInv, Next
  PROVE  /\ file' \in Seq(Line) /\ before' \in Seq(Line)
         /\ tears' \in Nat /\ stale' \in BOOLEAN
  <1>1. /\ file \in Seq(Line) /\ before \in Seq(Line)
        /\ tears \in Nat /\ stale \in BOOLEAN /\ main.out \in Seq(Line)
        /\ main.force \in BOOLEAN
    BY InitRecords DEF InitTypeOK
  <1>2. CASE WriteEnv
    <2>1. stale' \in BOOLEAN
      BY <1>1, <1>2 DEF WriteEnv
    <2> QED
      BY <1>1, <1>2, <2>1 DEF WriteEnv
  <1>3. CASE WriteFails \/ Kill
    <2>1. (main.pc = "write" /\ WriteInPart) \/ UNCHANGED <<file, tears>>
      BY <1>3 DEF WriteFails, Kill
    <2>2. UNCHANGED <<before, stale>>
      BY <1>3 DEF WriteFails, Kill
    <2>3. file' \in Seq(Line) /\ tears' \in Nat
      BY <1>1, <2>1, WrittenInPart
    <2> QED
      BY <1>1, <2>2, <2>3
  <1>4. CASE UNCHANGED <<file, tears, stale>> /\ before' \in {before, file}
    BY <1>1, <1>4
  <1>5. \/ WriteEnv \/ WriteFails \/ Kill
        \/ (UNCHANGED <<file, tears, stale>> /\ before' \in {before, file})
    BY DEF Next, Operator, MainStep, HandlerStep, Start, CreateApp, Expire, Callback, Stray,
           Arrive, Exchange, ExchangeFails, Send, Receive, Timeout, OpenEnv, OpenFails,
           Shutdown
  <1> QED
    BY <1>2, <1>3, <1>4, <1>5

LEMMA RunsTyped ==
  ASSUME InitTypeOK, Next
  PROVE  /\ runs' \in 0 .. MaxRuns
         /\ done' \in {<<>>} \cup {<<a>> : a \in {Error} \cup App}
         /\ shown' \in Seq({Error} \cup App)
  <1>1. /\ runs \in 0 .. MaxRuns
        /\ done \in {<<>>} \cup {<<a>> : a \in {Error} \cup App}
        /\ shown \in Seq({Error} \cup App)
    BY DEF InitTypeOK
  <1>2. CASE \E force \in BOOLEAN : Start(force)
    <2>1. shown' = <<>> /\ done' \in {<<>>, <<Error>>}
      BY <1>2 DEF Start
    <2>2. shown' \in Seq({Error} \cup App)
      BY <2>1, EmptySeq
    <2>3. runs' \in 0 .. MaxRuns
      BY <1>1, <1>2, BoundsAssumption DEF Start
    <2> QED
      BY <2>1, <2>2, <2>3
  <1>3. CASE \E c \in DOMAIN calls : Send(c)
    <2>1. PICK c \in DOMAIN calls : Send(c)
      BY <1>3
    <2>2. PICK a \in {Error} \cup App : a = calls[c].app
      BY InitRecords
    <2>3. shown' = Append(shown, a) /\ done' = <<a>> /\ runs' = runs
      BY <2>1, <2>2 DEF Send
    <2> QED
      BY <1>1, <2>3
  <1>4. CASE UNCHANGED <<runs, shown>> /\ done' \in {done, <<>>}
    BY <1>1, <1>4
  <1>5. \/ (\E force \in BOOLEAN : Start(force)) \/ (\E c \in DOMAIN calls : Send(c))
        \/ (UNCHANGED <<runs, shown>> /\ done' \in {done, <<>>})
    BY DEF Next, Operator, MainStep, HandlerStep, CreateApp, Expire, Callback, Stray, Kill,
           Arrive, Exchange, ExchangeFails, Receive, Timeout, OpenEnv, OpenFails, WriteEnv,
           WriteFails, Shutdown
  <1> QED
    BY <1>2, <1>3, <1>4, <1>5

LEMMA InitTypeKept ==
  ASSUME InitTypeOK, InitInv, Next
  PROVE  InitTypeOK'
  BY CallsTyped, AppsTyped, MainTyped, FileTyped, RunsTyped DEF InitTypeOK, Call, AnApp

\* The file, whatever happens to it.
LEMMA FileKept ==
  ASSUME InitTypeOK, InitInv, Next
  PROVE  FileInv'
  <1>1. FileInv /\ MainInv
    BY DEF InitInv
  <1>2. CASE UNCHANGED <<file, tears, stale>>
    BY <1>1, <1>2 DEF FileInv, OneAppsCredentials
  <1>3. CASE WriteFails \/ Kill
    <2>1. /\ (main.pc = "write" /\ WriteInPart) \/ UNCHANGED <<file, tears>>
          /\ UNCHANGED stale
      BY <1>3 DEF WriteFails, Kill
    <2>2. CASE main.pc = "write" /\ WriteInPart /\ ~UNCHANGED <<file, tears>>
      <3>1. /\ WellFormed(file') /\ tears' = tears + 1
            /\ Cardinality(Sources(file')) <= tears + 1
        BY <2>2, WrittenInPart
      <3>2. file' \in Seq(Line) /\ tears \in Nat
        BY <2>2, WrittenInPart DEF InitTypeOK
      <3>3. Cardinality(Sources(file')) \in Nat
        BY <3>1, <3>2, SourcesAreApps
      <3>4. Cardinality(Sources(file')) <= tears' + (IF Complete(file') THEN 1 ELSE 0)
        BY <3>1, <3>2, <3>3
      <3>5. tears' # 0
        BY <3>1, <3>2
      <3> QED
        BY <3>1, <3>4, <3>5 DEF FileInv, OneAppsCredentials
    <2> QED
      BY <1>2, <2>1, <2>2
  <1>4. CASE WriteEnv
    <2>1. /\ file \in Seq(Line) /\ WellFormed(file) /\ tears \in Nat
          /\ Cardinality(Sources(file)) <= tears + (IF Complete(file) THEN 1 ELSE 0)
          /\ main.app \in App /\ main.force \in BOOLEAN
          /\ main.out \in Merges(file, main.app, main.force)
      BY <1>1, <1>4, InitRecords
      DEF WriteEnv, FileInv, OneAppsCredentials, MainInv, InitTypeOK
    <2>2. file' = main.out /\ tears' = tears
      BY <1>4 DEF WriteEnv
    <2>3. /\ WellFormed(file')
          /\ Whole(file) /\ (main.force => \A k \in MultiLine : Value(file, k) = Empty) =>
               Whole(file')
      BY <2>1, <2>2, Merged
    <2>4. Complete(file') /\ Cardinality(Sources(file')) <= tears + 1
      BY <2>1, <2>2, MergedSources
    <2>5. ASSUME tears' = 0, ~stale' PROVE Whole(file')
      <3>1. /\ tears = 0 /\ ~stale
            /\ ~(main.force /\ \E k \in MultiLine : Value(file, k) # Empty)
        BY <1>4, <2>2, <2>5 DEF WriteEnv
      <3> QED
        BY <1>1, <2>3, <3>1 DEF FileInv, OneAppsCredentials
    <2> QED
      BY <2>2, <2>3, <2>4, <2>5 DEF FileInv, OneAppsCredentials
  <1>5. WriteEnv \/ WriteFails \/ Kill \/ UNCHANGED <<file, tears, stale>>
    BY DEF Next, Operator, MainStep, HandlerStep, Start, CreateApp, Expire, Callback, Stray,
           Arrive, Exchange, ExchangeFails, Send, Receive, Timeout, OpenEnv, OpenFails,
           Shutdown
  <1> QED
    BY <1>2, <1>3, <1>4, <1>5

LEMMA MainKept ==
  ASSUME InitTypeOK, InitInv, Next
  PROVE  MainInv'
  <1>1. MainInv /\ main \in Main
    BY DEF InitInv, InitTypeOK
  <1>2. ASSUME NEW exit \in {"ok", "error", "timeout", "unwritten"}, Close(exit)
        PROVE  MainInv'
    <2>1. main'.pc = "close" /\ main'.exit = exit /\ main'.serving = FALSE
      BY <1>1, <1>2 DEF Close, Main
    <2> QED
      BY <2>1 DEF MainInv
  <1>3. CASE \E force \in BOOLEAN : Start(force)
    <2>1. main'.pc = "select" /\ main'.exit = "none" /\ UNCHANGED file /\ before' = file
      BY <1>1, <1>3 DEF Start, Main
    <2> QED
      BY <2>1 DEF MainInv
  <1>4. CASE Receive
    <2>1. CASE done[1] = Error
      BY <1>2, <1>4, <2>1 DEF Receive
    <2>2. CASE done[1] # Error
      <3>1. /\ main'.pc = "open" /\ main'.exit = main.exit /\ main'.app = done[1]
            /\ UNCHANGED <<file, before>>
        BY <1>1, <1>4, <2>2 DEF Receive, Main
      <3>2. done[1] \in App /\ main.pc = "select"
        BY <1>4, <2>2, InitRecords DEF Receive
      <3> QED
        BY <1>1, <3>1, <3>2 DEF MainInv
    <2> QED
      BY <2>1, <2>2
  <1>5. CASE OpenEnv
    <2>1. PICK out \in Merges(file, main.app, main.force) :
            main' = [main EXCEPT !.pc = "write", !.out = out]
      BY <1>5 DEF OpenEnv
    <2>2. /\ main'.pc = "write" /\ main'.exit = main.exit /\ main'.app = main.app
          /\ main'.force = main.force /\ main'.out = out
      BY <1>1, <2>1 DEF Main
    <2>3. main.pc = "open" /\ UNCHANGED <<file, before>>
      BY <1>5 DEF OpenEnv
    <2> QED
      BY <1>1, <2>1, <2>2, <2>3 DEF MainInv
  <1>6. CASE Timeout \/ OpenFails \/ WriteEnv \/ WriteFails
    BY <1>2, <1>6 DEF Timeout, OpenFails, WriteEnv, WriteFails
  <1>7. CASE Shutdown
    <2>1. /\ main'.pc = "off" /\ main'.serving = main.serving /\ main.pc = "close"
      BY <1>1, <1>7 DEF Shutdown, Main
    <2> QED
      BY <1>1, <2>1 DEF MainInv
  <1>8. CASE Kill
    <2>1. main'.pc = "off" /\ main'.serving = FALSE
      BY <1>1, <1>8 DEF Kill, Main
    <2> QED
      BY <2>1 DEF MainInv
  <1>9. CASE UNCHANGED <<main, file, before>>
    BY <1>1, <1>9 DEF MainInv
  <1>10. \/ (\E r \in 1 .. runs : CreateApp(r)) \/ Stray
         \/ (\E a \in DOMAIN apps : Callback(a) \/ Expire(a))
         \/ (\E c \in DOMAIN calls : HandlerStep(c))
         => UNCHANGED <<main, file, before>>
    BY DEF CreateApp, Stray, Callback, Arrive, Expire, HandlerStep, Exchange, ExchangeFails,
           Send
  <1> QED
    BY <1>3, <1>4, <1>5, <1>6, <1>7, <1>8, <1>9, <1>10 DEF Next, Operator, MainStep

LEMMA GapsKept ==
  ASSUME InitTypeOK, InitInv, Next
  PROVE  FillsOnlyGaps'
  <1>1. MainInv /\ FillsOnlyGaps /\ FileInv /\ main \in Main
    BY DEF InitInv, InitTypeOK
  <1>2. CASE main'.exit # "ok"
    BY <1>2 DEF FillsOnlyGaps
  <1>3. CASE UNCHANGED <<file, before>> /\ main'.exit = main.exit
               /\ main'.app = main.app /\ main'.force = main.force
    BY <1>1, <1>3 DEF FillsOnlyGaps
  <1>4. CASE WriteEnv
    <2>1. /\ file \in Seq(Line) /\ WellFormed(file) /\ before = file
          /\ main.app \in App /\ main.force \in BOOLEAN
          /\ main.out \in Merges(file, main.app, main.force) /\ file' = main.out
          /\ before' = before
      BY <1>1, <1>4, InitRecords DEF WriteEnv, FileInv, MainInv, InitTypeOK
    <2>2. main'.app = main.app /\ main'.force = main.force
      BY <1>1, <1>4 DEF WriteEnv, Close, Main
    <2>3. /\ file' \in Seq(Line) /\ WellFormed(file')
          /\ \A k \in Key : \E p \in DOMAIN file' :
               /\ file'[p].key = k
               /\ file'[p].val = IF Value(file, k) = Empty \/ main.force THEN main.app
                                 ELSE Value(file, k)
      BY <2>1, Merged
    <2>4. ASSUME NEW k \in Key
          PROVE  /\ Cardinality({p \in DOMAIN file' : file'[p].key = k}) = 1
                 /\ Value(file', k) = IF Value(file, k) = Empty \/ main.force
                                      THEN main.app ELSE Value(file, k)
      <3>1. PICK p \in DOMAIN file' :
              /\ file'[p].key = k
              /\ file'[p].val = IF Value(file, k) = Empty \/ main.force THEN main.app
                                ELSE Value(file, k)
        BY <2>3
      <3>2. {q \in DOMAIN file' : file'[q].key = k} = {p}
        BY <2>3, <3>1, KeysAssumption DEF WellFormed
      <3>3. Cardinality({p}) = 1
        BY FS_Singleton
      <3>4. Value(file', k) = file'[p].val
        BY <2>3, <3>1, ValueIs
      <3> QED
        BY <3>1, <3>2, <3>3, <3>4
    <2> QED
      BY <2>1, <2>2, <2>4 DEF FillsOnlyGaps
  <1>5. CASE \E force \in BOOLEAN : Start(force)
    <2>1. main'.exit = "none"
      BY <1>1, <1>5 DEF Start, Main
    <2> QED
      BY <1>2, <2>1
  <1>6. ASSUME main.pc \in {"select", "open", "write"} PROVE main.exit # "ok"
    BY <1>1, <1>6 DEF MainInv
  <1>7. CASE Receive \/ Timeout \/ OpenEnv \/ OpenFails \/ WriteFails
    <2>1. main.exit # "ok"
      BY <1>6, <1>7 DEF Receive, Timeout, OpenEnv, OpenFails, WriteFails
    <2>2. main'.exit # "ok"
      BY <1>1, <1>7, <2>1
      DEF Receive, Timeout, OpenEnv, OpenFails, WriteFails, Close, Main
    <2> QED
      BY <1>2, <2>2
  <1>8. CASE Shutdown
    <2>1. UNCHANGED <<file, before>> /\ main' = [main EXCEPT !.pc = "off"]
      BY <1>8 DEF Shutdown
    <2>2. main'.exit = main.exit /\ main'.app = main.app /\ main'.force = main.force
      BY <1>1, <2>1 DEF Main
    <2> QED
      BY <1>3, <2>1, <2>2
  <1>9. CASE Kill
    <2>1. /\ main'.exit = IF main.exit = "none" THEN "killed" ELSE main.exit
          /\ main'.app = main.app /\ main'.force = main.force
      BY <1>1, <1>9 DEF Kill, Main
    <2>2. CASE main.pc = "write"
      <3>1. main'.exit # "ok"
        BY <1>6, <2>1, <2>2
      <3> QED
        BY <1>2, <3>1
    <2>3. CASE main.pc # "write"
      <3>1. UNCHANGED <<file, before>>
        BY <1>9, <2>3 DEF Kill
      <3> QED
        BY <1>2, <1>3, <2>1, <3>1
    <2> QED
      BY <2>2, <2>3
  <1>10. \/ (\E r \in 1 .. runs : CreateApp(r)) \/ Stray
         \/ (\E a \in DOMAIN apps : Callback(a) \/ Expire(a))
         \/ (\E c \in DOMAIN calls : HandlerStep(c))
         => UNCHANGED <<main, file, before>>
    BY DEF CreateApp, Stray, Callback, Arrive, Expire, HandlerStep, Exchange, ExchangeFails,
           Send
  <1> QED
    BY <1>3, <1>4, <1>5, <1>7, <1>8, <1>9, <1>10 DEF Next, Operator, MainStep

\* The first page stays the one that main hears of.
LEMMA PageKept ==
  ASSUME InitTypeOK, InitInv, Next
  PROVE  PageInv'
  <1>1. /\ MainInv /\ PageInv /\ main \in Main
        /\ shown \in Seq({Error} \cup App)
        /\ main.exit \in {"none", "ok", "error", "timeout", "unwritten", "killed"}
    BY InitRecords DEF InitInv, InitTypeOK
  <1>2. main.exit = "error" => ~main.serving
    BY <1>1, InitRecords DEF MainInv
  <1>3. CASE UNCHANGED <<main, done, calls, shown>>
    BY <1>1, <1>3 DEF PageInv, NotServed
  <1>4. CASE \E force \in BOOLEAN : Start(force)
    <2>1. PICK force \in BOOLEAN, up \in BOOLEAN :
            /\ main' = [main EXCEPT !.pc = "select", !.force = force, !.serving = up,
                                   !.app = Error, !.out = <<>>, !.exit = "none"]
            /\ done' = IF up THEN <<>> ELSE <<Error>>
      BY <1>4 DEF Start
    <2>2. main'.pc = "select" /\ main'.serving = up /\ main'.exit = "none"
      BY <1>1, <2>1 DEF Main
    <2>3. calls' = <<>> /\ shown' = <<>>
      BY <1>4 DEF Start
    <2> QED
      BY <2>1, <2>2, <2>3 DEF PageInv, NotServed
  <1>5. ASSUME NEW call, Arrive(call) PROVE PageInv'
    <2>1. main.serving /\ UNCHANGED <<main, done, shown>>
      BY <1>5 DEF Arrive
    <2> QED
      BY <1>1, <1>2, <2>1 DEF PageInv, NotServed
  <1>6. ASSUME NEW c \in DOMAIN calls, Exchange(c) \/ ExchangeFails(c)
        PROVE  PageInv'
    <2>1. calls # <<>> /\ UNCHANGED <<main, done, shown>>
      BY <1>6 DEF Exchange, ExchangeFails
    <2> QED
      BY <1>1, <2>1 DEF PageInv, NotServed
  <1>7. ASSUME NEW c \in DOMAIN calls, Send(c) PROVE PageInv'
    <2>1. PICK a \in {Error} \cup App : a = calls[c].app
      BY InitRecords
    <2>2. /\ calls # <<>> /\ done = <<>> /\ main' = main
          /\ done' = <<a>> /\ shown' = Append(shown, a)
      BY <1>7, <2>1 DEF Send
    <2>3. /\ shown' # <<>>
          /\ shown # <<>> => shown'[1] = shown[1]
          /\ shown = <<>> => shown'[1] = a
      BY <1>1, <2>2
    <2> QED
      BY <1>1, <2>2, <2>3 DEF PageInv, NotServed
  <1>8. CASE Receive
    <2>1. main.pc = "select" /\ main.exit = "none" /\ UNCHANGED <<calls, shown>>
      BY <1>1, <1>8 DEF Receive, MainInv
    <2>2. \/ done[1] = Error /\ NotServed
          \/ shown # <<>> /\ done[1] = shown[1]
      BY <1>1, <1>8 DEF Receive, PageInv
    <2>3. CASE done[1] = Error
      <3>1. Close("error")
        BY <1>8, <2>3 DEF Receive
      <3>2. main'.pc = "close" /\ main'.exit = "error" /\ main'.serving = FALSE
        BY <1>1, <3>1 DEF Close, Main
      <3> QED
        BY <2>1, <2>2, <2>3, <3>2 DEF PageInv, NotServed
    <2>4. CASE done[1] # Error
      <3>1. main'.pc = "open" /\ main'.exit = main.exit /\ main'.app = done[1]
        BY <1>1, <1>8, <2>4 DEF Receive, Main
      <3> QED
        BY <2>1, <2>2, <2>4, <3>1 DEF PageInv
    <2> QED
      BY <2>3, <2>4
  <1>9. ASSUME NEW exit \in {"timeout", "unwritten"}, Close(exit) PROVE PageInv'
    <2>1. main'.pc = "close" /\ main'.exit = exit
      BY <1>1, <1>9 DEF Close, Main
    <2> QED
      BY <2>1 DEF PageInv
  <1>10. CASE OpenEnv
    <2>1. PICK out \in Merges(file, main.app, main.force) :
            main' = [main EXCEPT !.pc = "write", !.out = out]
      BY <1>10 DEF OpenEnv
    <2>2. main'.pc = "write" /\ main'.exit = main.exit /\ main'.app = main.app
      BY <1>1, <2>1 DEF Main
    <2>3. main.pc = "open" /\ main.exit = "none" /\ UNCHANGED shown
      BY <1>1, <1>10 DEF OpenEnv, MainInv
    <2> QED
      BY <1>1, <2>2, <2>3 DEF PageInv
  <1>11. CASE WriteEnv
    <2>1. main'.pc = "close" /\ main'.exit = "ok" /\ main'.app = main.app
      BY <1>1, <1>11 DEF WriteEnv, Close, Main
    <2>2. main.pc = "write" /\ UNCHANGED shown
      BY <1>11 DEF WriteEnv
    <2> QED
      BY <1>1, <2>1, <2>2 DEF PageInv
  <1>12. CASE Shutdown
    <2>1. /\ main'.pc = "off" /\ main'.exit = main.exit /\ main'.app = main.app
          /\ main'.serving = main.serving /\ UNCHANGED <<calls, shown>>
      BY <1>1, <1>12 DEF Shutdown, Main
    <2> QED
      BY <1>1, <2>1 DEF PageInv, NotServed
  <1>13. CASE Kill
    <2>1. /\ main'.pc = "off" /\ main'.serving = FALSE /\ main'.app = main.app
          /\ main'.exit = IF main.exit = "none" THEN "killed" ELSE main.exit
      BY <1>1, <1>13 DEF Kill, Main
    <2>2. /\ UNCHANGED shown
          /\ calls' = [c \in DOMAIN calls |-> [calls[c] EXCEPT !.pc = "gone"]]
      BY <1>13 DEF Kill
    <2>3. NotServed => NotServed'
      BY <2>1, <2>2 DEF NotServed
    <2> QED
      BY <1>1, <2>1, <2>2, <2>3 DEF PageInv
  <1>14. (\E r \in 1 .. runs : CreateApp(r)) \/ (\E a \in DOMAIN apps : Expire(a))
           => UNCHANGED <<main, done, calls, shown>>
    BY DEF CreateApp, Expire
  <1>15. Timeout \/ OpenFails \/ WriteFails => Close("timeout") \/ Close("unwritten")
    BY DEF Timeout, OpenFails, WriteFails
  <1> QED
    BY <1>3, <1>4, <1>5, <1>6, <1>7, <1>8, <1>9, <1>10, <1>11, <1>12, <1>13, <1>14, <1>15
    DEF Next, Operator, MainStep, HandlerStep, Callback, Stray

----------------------------------------------------------------------------
\* The inductive invariant of init: the file keeps its form, main leaves it alone
\* until it writes, and the first page and main agree.
THEOREM InitCorrect == Spec => [](InitTypeOK /\ InitInv)
  <1>1. Init => InitTypeOK /\ InitInv
    BY Begins
  <1>2. InitTypeOK /\ InitInv /\ [Next]_vars => (InitTypeOK /\ InitInv)'
    <2> SUFFICES ASSUME InitTypeOK, InitInv, [Next]_vars PROVE (InitTypeOK /\ InitInv)'
      OBVIOUS
    <2>1. CASE Next
      BY <2>1, InitTypeKept, FileKept, MainKept, GapsKept, PageKept DEF InitInv
    <2>2. CASE UNCHANGED vars
      <3>1. InitTypeOK'
        BY <2>2 DEF vars, InitTypeOK
      <3>2. FileInv'
        BY <2>2 DEF vars, InitInv, FileInv, OneAppsCredentials
      <3>3. MainInv' /\ FillsOnlyGaps'
        BY <2>2 DEF vars, InitInv, MainInv, FillsOnlyGaps
      <3>4. PageInv'
        BY <2>2 DEF vars, InitInv, PageInv, NotServed
      <3> QED
        BY <3>1, <3>2, <3>3, <3>4 DEF InitInv
    <2> QED
      BY <2>1, <2>2
  <1> QED
    BY <1>1, <1>2, PTL DEF Spec

\* A run that reports success has left each key one line, and changed the value of
\* none but those that were blank, or all with --force (mergeEnvFile), whatever
\* earlier runs, interrupted or not, have made of the file.
THEOREM GapsAreFilled == Spec => []FillsOnlyGaps
  <1>1. InitInv => FillsOnlyGaps
    BY DEF InitInv
  <1> QED
    BY <1>1, InitCorrect, PTL

\* What init has put into the file is one App's, with at most one more App for
\* every write that was cut short, however many Apps, callbacks, runs and crashes
\* there were (runInit, mergeEnvFile).  Values that span lines stay whole unless a
\* write was cut short or --force replaced one.
THEOREM CredentialsOfOneApp == Spec => []OneAppsCredentials
  <1>1. InitInv => OneAppsCredentials
    BY DEF InitInv, FileInv
  <1> QED
    BY <1>1, InitCorrect, PTL

\* However many callbacks race: a run that reports success has filled the gaps with
\* the credentials of the App that its first page promised, and a run that reports
\* a failed callback has sent an error page first (handleInitCallback, runInit).
THEOREM PageTellsTheTruth == Spec => []FirstPageIsTrue
  <1>1. InitInv => FirstPageIsTrue
    <2> SUFFICES ASSUME PageInv, FillsOnlyGaps PROVE FirstPageIsTrue
      BY DEF InitInv
    <2>1. ASSUME main.exit = "ok"
          PROVE  /\ shown # <<>>
                 /\ \A k \in Key : Value(before, k) = Empty => Value(file, k) = shown[1]
      <3>1. shown # <<>> /\ main.app = shown[1]
        BY <2>1 DEF PageInv
      <3> QED
        BY <2>1, <3>1 DEF FillsOnlyGaps
    <2>2. main.exit = "error" => shown = <<>> \/ shown[1] = Error
      BY DEF PageInv, NotServed
    <2> QED
      BY <2>1, <2>2 DEF FirstPageIsTrue
  <1> QED
    BY <1>1, InitCorrect, PTL

=============================================================================
