--------------------------- MODULE PleBatchProofs ---------------------------
(***************************************************************************)
(* Proofs about PleBatch, for any requests, texts, window sizes, track     *)
(* interval and configurations: no chunk, graph, verification or cache hit *)
(* leaves a trace in the side states or in what is looked up.              *)
(***************************************************************************)
EXTENDS PleBatch, FiniteSetTheorems, SequenceTheorems, WellFoundedInduction,
        TLAPS

----------------------------------------------------------------------------
(* Numbers                                                                 *)

\* A nonempty set of naturals has a least element.
LEMMA LeastOf ==
    ASSUME NEW S \in SUBSET Nat, S # {}
    PROVE  \E m \in S : \A k \in S : m <= k
  <1>1. IsWellFoundedOn(OpToRel(<, Nat), Nat)
    BY NatLessThanWellFounded
  <1>2. PICK m \in S : \A k \in S : ~(<<k, m>> \in OpToRel(<, Nat))
    BY <1>1, WFMin
  <1>3. \A k \in S : ~(k < m)
    BY <1>2 DEF OpToRel
  <1> QED
    BY <1>3

\* A nonempty bounded set of naturals has a maximum.
LEMMA MaxOf ==
    ASSUME NEW S, NEW n \in Nat, S \subseteq 0 .. n, S # {}
    PROVE  Max(S) \in S /\ \A k \in S : k <= Max(S)
  <1> DEFINE Gaps == {n - m : m \in S}
  <1>1. Gaps \in SUBSET Nat /\ Gaps # {}
    <2>1. \A m \in S : n - m \in Nat
      OBVIOUS
    <2> QED
      BY <2>1
  <1> HIDE DEF Gaps
  <1>2. PICK x \in Gaps : \A y \in Gaps : x <= y
    BY <1>1, LeastOf
  <1>3. PICK m \in S : x = n - m
    BY <1>2 DEF Gaps
  <1>4. \A k \in S : m >= k
    <2> SUFFICES ASSUME NEW k \in S PROVE m >= k
      OBVIOUS
    <2>1. n - k \in Gaps
      BY DEF Gaps
    <2>2. n - m <= n - k
      BY <1>2, <1>3, <2>1
    <2> QED
      BY <2>2
  <1>5. Max(S) \in S /\ \A k \in S : Max(S) >= k
    BY <1>4 DEF Max
  <1>6. \A k \in S : k \in Nat
    OBVIOUS
  <1> QED
    BY <1>5, <1>6

LEMMA DivMod ==
    ASSUME NEW n \in Nat, NEW d \in Nat \ {0}
    PROVE  /\ n \div d \in Nat /\ n % d \in 0 .. d - 1
           /\ n = d * (n \div d) + (n % d)
  BY SMT

\* Quotient and remainder are determined by the number.
LEMMA DivUnique ==
    ASSUME NEW d \in Nat \ {0}, NEW q \in Nat, NEW r \in 0 .. d - 1
    PROVE  (d * q + r) \div d = q
  <1> DEFINE n == d * q + r
             u == n \div d
             v == n % d
  <1>1. n \in Nat
    BY SMT
  <1>2. u \in Nat /\ v \in 0 .. d - 1 /\ n = d * u + v
    BY <1>1, DivMod
  <1>3. d * (u - q) = r - v
    BY <1>2, SMT
  <1>4. CASE u > q
    <2>1. d * (u - q) >= d
      BY <1>2, <1>4, SMT
    <2> QED
      BY <1>2, <1>3, <2>1, SMT
  <1>5. CASE u < q
    <2>1. d * (q - u) >= d /\ d * (u - q) = 0 - d * (q - u)
      BY <1>2, <1>5, SMT
    <2> QED
      BY <1>2, <1>3, <2>1, SMT
  <1> QED
    BY <1>2, <1>4, <1>5

----------------------------------------------------------------------------
(* Sequences of any elements                                               *)

\* f is a sequence of length n.
IsSeq(f, n) == n \in Nat /\ f = [i \in 1 .. n |-> f[i]]

LEMMA SeqFacts ==
    ASSUME NEW f, NEW n, IsSeq(f, n)
    PROVE  DOMAIN f = 1 .. n /\ Len(f) = n /\ f \in Seq({f[i] : i \in 1 .. n})
  <1>1. DOMAIN f = 1 .. n /\ n \in Nat
    BY DEF IsSeq
  <1>2. f \in [1 .. n -> {f[i] : i \in 1 .. n}]
    BY DEF IsSeq
  <1> QED
    BY <1>1, <1>2

LEMMA SeqIs ==
    ASSUME NEW S, NEW f \in Seq(S)
    PROVE  IsSeq(f, Len(f))
  BY LenProperties DEF IsSeq

LEMMA SameSeq ==
    ASSUME NEW f, NEW g, NEW n, IsSeq(f, n), IsSeq(g, n), \A i \in 1 .. n : f[i] = g[i]
    PROVE  f = g
  BY DEF IsSeq

\* h is f, of length m, and g, of length n, behind it.
Joined(h, f, m, g, n) ==
    /\ IsSeq(h, m + n)
    /\ \A i \in 1 .. m : h[i] = f[i]
    /\ \A i \in 1 .. n : h[m + i] = g[i]

LEMMA ConcatIs ==
    ASSUME NEW f, NEW m, NEW g, NEW n, IsSeq(f, m), IsSeq(g, n)
    PROVE  Joined(f \o g, f, m, g, n)
  <1> DEFINE S == {f[i] : i \in 1 .. m} \cup {g[i] : i \in 1 .. n}
  <1>1. m \in Nat /\ n \in Nat /\ Len(f) = m /\ Len(g) = n
    BY SeqFacts DEF IsSeq
  <1>2. f \in Seq(S) /\ g \in Seq(S)
    <2>1. f \in Seq({f[i] : i \in 1 .. m}) /\ g \in Seq({g[i] : i \in 1 .. n})
      BY SeqFacts
    <2>2. {f[i] : i \in 1 .. m} \subseteq S /\ {g[i] : i \in 1 .. n} \subseteq S
      OBVIOUS
    <2> HIDE DEF S
    <2> QED
      BY <2>1, <2>2, SeqMonotonic
  <1> HIDE DEF S
  <1>3. /\ f \o g \in Seq(S) /\ Len(f \o g) = m + n
        /\ \A i \in 1 .. m + n : (f \o g)[i] = IF i <= m THEN f[i] ELSE g[i - m]
    BY <1>1, <1>2, ConcatProperties
  <1>4. IsSeq(f \o g, m + n)
    BY <1>3, SeqIs
  <1>5. \A i \in 1 .. m : (f \o g)[i] = f[i]
    BY <1>1, <1>3
  <1>6. ASSUME NEW i \in 1 .. n PROVE (f \o g)[m + i] = g[i]
    <2>1. m + i \in 1 .. m + n /\ ~(m + i <= m) /\ (m + i) - m = i
      BY <1>1
    <2>2. (f \o g)[m + i] = g[(m + i) - m]
      BY <1>3, <2>1
    <2> QED
      BY <2>1, <2>2
  <1> QED
    BY <1>4, <1>5, <1>6 DEF Joined

\* h is the part of f from m to n.
Part(h, f, m, n) ==
    /\ IsSeq(h, n - m + 1)
    /\ \A i \in 1 .. n - m + 1 : h[i] = f[(m + i) - 1]

LEMMA SubSeqIs ==
    ASSUME NEW f, NEW m \in Nat \ {0}, NEW n \in Nat, m <= n + 1
    PROVE  Part(SubSeq(f, m, n), f, m, n)
  <1> DEFINE S == {f[i] : i \in m .. n}
  <1>1. \A i \in m .. n : f[i] \in S
    OBVIOUS
  <1> HIDE DEF S
  <1>2. /\ SubSeq(f, m, n) \in Seq(S)
        /\ Len(SubSeq(f, m, n)) = IF m <= n THEN n - m + 1 ELSE 0
        /\ \A i \in 1 .. n - m + 1 : SubSeq(f, m, n)[i] = f[m + i - 1]
    BY <1>1, SubSeqProperties
  <1>3. Len(SubSeq(f, m, n)) = n - m + 1
    BY <1>2
  <1>4. IsSeq(SubSeq(f, m, n), n - m + 1)
    BY <1>2, <1>3, SeqIs
  <1>5. ASSUME NEW i \in 1 .. n - m + 1 PROVE SubSeq(f, m, n)[i] = f[(m + i) - 1]
    <2>1. m + i - 1 = (m + i) - 1
      OBVIOUS
    <2> QED
      BY <1>2, <2>1
  <1> QED
    BY <1>4, <1>5 DEF Part

----------------------------------------------------------------------------
(* Running sums and concatenations: recursive functions                    *)

LEMMA QueryStart ==
    ASSUME NEW lens \in Seq(Nat)
    PROVE  /\ QueryStartLoc(lens) \in [0 .. Len(lens) -> Nat]
           /\ QueryStartLoc(lens)[0] = 0
           /\ \A k \in 1 .. Len(lens) : QueryStartLoc(lens)[k] = QueryStartLoc(lens)[k - 1] + lens[k]
  <1> DEFINE n == Len(lens)
             Good(g, m) == g = [k \in 0 .. m |-> IF k = 0 THEN 0 ELSE g[k - 1] + lens[k]]
             Bad == {m \in 0 .. n : ~ \E g : Good(g, m)}
             s == QueryStartLoc(lens)
             Odd == {k \in 0 .. n : s[k] \notin Nat}
  <1> HIDE DEF Good
  <1>1. n \in Nat /\ \A k \in 1 .. n : lens[k] \in Nat
    BY LenProperties
  <1>2. ASSUME Bad # {} PROVE FALSE
    <2>1. Bad \in SUBSET Nat
      BY <1>1
    <2>2. PICK m \in Bad : \A k \in Bad : m <= k
      BY <1>2, <2>1, LeastOf
    <2>3. m \in 0 .. n /\ ~ \E g : Good(g, m)
      BY <2>2
    <2>4. Good([k \in 0 .. 0 |-> 0], 0)
      BY DEF Good
    <2>5. m # 0
      BY <2>3, <2>4
    <2>6. m - 1 \in 0 .. n /\ m - 1 \notin Bad
      BY <1>1, <2>2, <2>3, <2>5
    <2>7. PICK g : Good(g, m - 1)
      BY <2>6
    <2> DEFINE h == [k \in 0 .. m |-> IF k = m THEN g[m - 1] + lens[m] ELSE g[k]]
    <2>8. ASSUME NEW k \in 0 .. m PROVE h[k] = IF k = 0 THEN 0 ELSE h[k - 1] + lens[k]
      <3>1. CASE k = m
        <4>1. k - 1 \in 0 .. m /\ k - 1 # m /\ k # 0
          BY <2>3, <2>5, <3>1
        <4>2. h[k - 1] = g[m - 1]
          BY <3>1, <4>1
        <4> QED
          BY <3>1, <4>1, <4>2
      <3>2. CASE k # m
        <4>1. k \in 0 .. m - 1 /\ h[k] = g[k]
          BY <2>3, <3>2
        <4>2. k # 0 => k - 1 \in 0 .. m /\ k - 1 # m
          BY <2>3, <3>2
        <4>3. k # 0 => h[k - 1] = g[k - 1]
          BY <4>2
        <4> QED
          BY <2>7, <4>1, <4>3 DEF Good
      <3> QED
        BY <3>1, <3>2
    <2>9. Good(h, m)
      BY <2>8 DEF Good
    <2> QED
      BY <2>3, <2>9
  <1>3. n \in 0 .. n
    BY <1>1
  <1>4. PICK g : Good(g, n)
    BY <1>2, <1>3
  <1>5. Good(s, n)
    BY <1>4 DEF QueryStartLoc, Good
  <1> HIDE DEF s
  <1>6. /\ DOMAIN s = 0 .. n
        /\ \A k \in 0 .. n : s[k] = IF k = 0 THEN 0 ELSE s[k - 1] + lens[k]
    BY <1>5 DEF Good
  <1>7. ASSUME Odd # {} PROVE FALSE
    <2>1. Odd \in SUBSET Nat
      BY <1>1
    <2>2. PICK m \in Odd : \A k \in Odd : m <= k
      BY <1>7, <2>1, LeastOf
    <2>3. m \in 0 .. n /\ s[m] \notin Nat
      BY <2>2
    <2>4. m # 0
      BY <1>6, <2>3
    <2>5. m - 1 \in 0 .. n /\ m - 1 \notin Odd
      BY <1>1, <2>2, <2>3, <2>4
    <2>6. s[m - 1] \in Nat /\ lens[m] \in Nat
      BY <1>1, <2>3, <2>4, <2>5
    <2> QED
      BY <1>6, <2>3, <2>4, <2>6, SMTT(60)
  <1>8. \A k \in 0 .. n : s[k] \in Nat
    BY <1>7
  <1>9. s \in [0 .. n -> Nat] /\ s[0] = 0
    BY <1>3, <1>5, <1>6, <1>8, SMTT(60) DEF Good
  <1>10. ASSUME NEW k \in 1 .. n PROVE s[k] = s[k - 1] + lens[k]
    BY <1>6
  <1> QED
    BY <1>9, <1>10 DEF s

LEMMA StartMonotone ==
    ASSUME NEW lens \in Seq(Nat), NEW j \in 0 .. Len(lens), NEW k \in j .. Len(lens)
    PROVE  QueryStartLoc(lens)[j] <= QueryStartLoc(lens)[k]
  <1> DEFINE n == Len(lens)
             s == QueryStartLoc(lens)
             Bad == {m \in j .. n : ~(s[j] <= s[m])}
  <1>1. /\ n \in Nat /\ \A m \in 0 .. n : s[m] \in Nat
        /\ \A m \in 1 .. n : s[m] = s[m - 1] + lens[m] /\ lens[m] \in Nat
    BY LenProperties, QueryStart
  <1> HIDE DEF s
  <1>2. SUFFICES ASSUME Bad # {} PROVE FALSE
    BY DEF s
  <1>3. Bad \in SUBSET Nat
    BY <1>1
  <1>4. PICK m \in Bad : \A i \in Bad : m <= i
    BY <1>2, <1>3, LeastOf
  <1>5. m \in j .. n /\ ~(s[j] <= s[m])
    BY <1>4
  <1>6. m # j
    BY <1>1, <1>5
  <1>7. m - 1 \in j .. n /\ m - 1 \notin Bad /\ m \in 1 .. n
    BY <1>1, <1>4, <1>5, <1>6
  <1>8. s[j] <= s[m - 1] /\ s[m] = s[m - 1] + lens[m] /\ lens[m] \in Nat
    BY <1>1, <1>7
  <1>9. s[j] \in Nat /\ s[m - 1] \in Nat
    BY <1>1, <1>7
  <1> QED
    BY <1>5, <1>8, <1>9, SMTT(60)

LEMMA Flattened ==
    ASSUME NEW n, NEW parts, IsSeq(parts, n), NEW lens \in Seq(Nat), Len(lens) = n,
           \A k \in 1 .. n : IsSeq(parts[k], lens[k])
    PROVE  /\ IsSeq(FlattenSeq(parts), Total(lens))
           /\ \A k \in 1 .. n : \A i \in 1 .. lens[k] :
                 FlattenSeq(parts)[QueryStartLoc(lens)[k - 1] + i] = parts[k][i]
  <1> DEFINE s == QueryStartLoc(lens)
             Good(g, m) == g = [i \in 1 .. m |-> IF i = 1 THEN parts[i] ELSE g[i - 1] \o parts[i]]
             Bad == {m \in 0 .. n : ~ \E g : Good(g, m)}
             flat == CHOOSE g : Good(g, n)
             Flat(f, m) == /\ IsSeq(f, s[m])
                           /\ \A k \in 1 .. m : \A i \in 1 .. lens[k] : f[s[k - 1] + i] = parts[k][i]
             Odd == {m \in 1 .. n : ~Flat(flat[m], m)}
  <1> HIDE DEF Good
  <1>1. n \in Nat /\ Len(parts) = n /\ \A k \in 1 .. n : lens[k] \in Nat
    BY SeqFacts DEF IsSeq
  <1>2. /\ s[0] = 0 /\ \A m \in 0 .. n : s[m] \in Nat
        /\ \A m \in 1 .. n : s[m] = s[m - 1] + lens[m]
        /\ Total(lens) = s[n]
    BY QueryStart DEF Total
  <1> HIDE DEF s
  <1>3. ASSUME Bad # {} PROVE FALSE
    <2>1. Bad \in SUBSET Nat
      BY <1>1
    <2>2. PICK m \in Bad : \A k \in Bad : m <= k
      BY <1>3, <2>1, LeastOf
    <2>3. m \in 0 .. n /\ ~ \E g : Good(g, m)
      BY <2>2
    <2>4. Good([i \in 1 .. 0 |-> 0], 0)
      BY DEF Good
    <2>5. m # 0
      BY <2>3, <2>4
    <2>6. m - 1 \in 0 .. n /\ m - 1 \notin Bad
      BY <1>1, <2>2, <2>3, <2>5, SMTT(60)
    <2>7. PICK g : Good(g, m - 1)
      BY <2>6
    <2> DEFINE h == [i \in 1 .. m |-> IF i # m THEN g[i]
                                      ELSE IF i = 1 THEN parts[i] ELSE g[i - 1] \o parts[i]]
    <2>8. ASSUME NEW i \in 1 .. m PROVE h[i] = IF i = 1 THEN parts[i] ELSE h[i - 1] \o parts[i]
      <3>1. i # 1 => i - 1 \in 1 .. m /\ i - 1 # m
        BY <2>3
      <3>2. i # 1 => h[i - 1] = g[i - 1]
        BY <3>1
      <3>3. i # m => i \in 1 .. m - 1
        BY <2>3
      <3>4. i # m => g[i] = IF i = 1 THEN parts[i] ELSE g[i - 1] \o parts[i]
        BY <2>7, <3>3 DEF Good
      <3> QED
        BY <3>2, <3>4
    <2>9. Good(h, m)
      BY <2>8, ZenonT(60) DEF Good
    <2> QED
      BY <2>3, <2>9
  <1>4. n \in 0 .. n
    BY <1>1
  <1>5. PICK g : Good(g, n)
    BY <1>3, <1>4
  <1>6. Good(flat, n)
    BY <1>5
  <1>7. FlattenSeq(parts) = IF n = 0 THEN parts ELSE flat[n]
    BY <1>1 DEF FlattenSeq, Good
  <1> HIDE DEF flat
  <1>8. \A i \in 1 .. n : flat[i] = IF i = 1 THEN parts[i] ELSE flat[i - 1] \o parts[i]
    BY <1>6 DEF Good
  <1>9. ASSUME Odd # {} PROVE FALSE
    <2>1. Odd \in SUBSET Nat
      BY <1>1
    <2>2. PICK m \in Odd : \A k \in Odd : m <= k
      BY <1>9, <2>1, LeastOf
    <2>3. m \in 1 .. n /\ ~Flat(flat[m], m)
      BY <2>2
    <2>4. IsSeq(parts[m], lens[m]) /\ s[m] = s[m - 1] + lens[m]
      BY <1>2, <2>3
    <2>5. CASE m = 1
      <3>1. flat[m] = parts[m] /\ s[m - 1] = 0 /\ s[m] = lens[m]
        BY <1>1, <1>2, <1>8, <2>3, <2>4, <2>5
      <3>2. IsSeq(flat[m], s[m])
        BY <2>4, <3>1
      <3>3. ASSUME NEW k \in 1 .. m, NEW i \in 1 .. lens[k] PROVE flat[m][s[k - 1] + i] = parts[k][i]
        <4>1. k = m
          BY <2>5
        <4>2. s[k - 1] + i = i
          BY <3>1, <4>1
        <4> QED
          BY <3>1, <4>1, <4>2
      <3> QED
        BY <2>3, <3>2, <3>3
    <2>6. CASE m # 1
      <3>1. m - 1 \in 1 .. n /\ m - 1 \notin Odd
        BY <1>1, <2>2, <2>3, <2>6
      <3>2. Flat(flat[m - 1], m - 1)
        BY <3>1
      <3>3. flat[m] = flat[m - 1] \o parts[m]
        BY <1>8, <2>3, <2>6
      <3>4. IsSeq(flat[m - 1], s[m - 1])
        BY <3>2
      <3>5. Joined(flat[m], flat[m - 1], s[m - 1], parts[m], lens[m])
        BY <2>4, <3>3, <3>4, ConcatIs
      <3>6. /\ IsSeq(flat[m], s[m - 1] + lens[m])
            /\ \A i \in 1 .. s[m - 1] : flat[m][i] = flat[m - 1][i]
            /\ \A i \in 1 .. lens[m] : flat[m][s[m - 1] + i] = parts[m][i]
        BY <3>5 DEF Joined
      <3>7. ASSUME NEW k \in 1 .. m, NEW i \in 1 .. lens[k] PROVE flat[m][s[k - 1] + i] = parts[k][i]
        <4>1. CASE k = m
          BY <3>6, <4>1
        <4>2. CASE k # m
          <5>1. k \in 1 .. m - 1 /\ k \in 0 .. Len(lens) /\ m - 1 \in k .. Len(lens)
            BY <1>1, <2>3, <4>2
          <5>2. s[k] <= s[m - 1]
            BY <5>1, StartMonotone DEF s
          <5>3. s[k] = s[k - 1] + lens[k] /\ s[k - 1] \in Nat /\ lens[k] \in Nat /\ s[m - 1] \in Nat
            BY <1>1, <1>2, <2>3, <5>1
          <5>4. s[k - 1] + i \in 1 .. s[m - 1]
            BY <5>2, <5>3, SMTT(60)
          <5> QED
            BY <3>2, <3>6, <5>1, <5>4
        <4> QED
          BY <4>1, <4>2
      <3> QED
        BY <2>3, <2>4, <3>6, <3>7
    <2> QED
      BY <2>5, <2>6
  <1>10. CASE n = 0
    <2>1. IsSeq(parts, s[n])
      BY <1>2, <1>10
    <2> QED
      BY <1>2, <1>7, <1>10, <2>1
  <1>11. CASE n # 0
    <2>1. n \in 1 .. n
      BY <1>1, <1>11
    <2>2. Flat(flat[n], n)
      BY <1>9, <2>1
    <2> QED
      BY <1>2, <1>7, <1>11, <2>2 DEF s
  <1> QED
    BY <1>10, <1>11

----------------------------------------------------------------------------
(* Histories, the windows on them, and the state after them                *)

LEMMA SizeFacts ==
    /\ NgramSize \in Nat /\ NgramSize >= 2 /\ Kernel \in Nat \ {0} /\ Dilation = NgramSize
    /\ StateLen \in Nat /\ NumReqs \in Nat \ {0}
    /\ Stride \in Nat \ {0} /\ Interval \in Nat \ {0} /\ MaxChunk \in Nat \ {0}
  <1>1. /\ NgramSize \in Nat /\ NgramSize >= 2 /\ Kernel \in Nat \ {0} /\ NumReqs \in Nat \ {0}
        /\ Stride \in Nat \ {0} /\ Interval \in Nat \ {0} /\ MaxChunk \in Nat \ {0}
    BY SizeAssumption
  <1>2. Kernel - 1 \in Nat
    BY <1>1
  <1>3. StateLen \in Nat
    BY <1>1, <1>2, SMT DEF StateLen, Dilation
  <1> QED
    BY <1>1, <1>3 DEF Dilation

\* What a window has at position x of a history, x <= 0 being before its start.
TokenBefore(h, x) == IF x > 0 THEN h[x] ELSE Eos
InputBefore(h, x) == IF x > 0 THEN SubSeq(h, 1, x) ELSE Zero

\* Row a is the state after h followed by the tokens w; row b likewise.
NgramRow(a, h, w) ==
    \A i \in 1 .. NgramSize - 1 + Len(w) : a[i] = TokenBefore(h \o w, Len(h) - (NgramSize - 1) + i)
ConvRow(b, h, w) ==
    \A i \in 1 .. StateLen + Len(w) : b[i] = InputBefore(h \o w, Len(h) - StateLen + i)

LEMMA HistoryFacts ==
    ASSUME NEW h \in Seq(Tokens), NEW w \in Seq(Tokens)
    PROVE  /\ Len(h) \in Nat /\ Len(w) \in Nat /\ h \o w \in Seq(Tokens)
           /\ Len(h \o w) = Len(h) + Len(w)
           /\ \A x \in 1 .. Len(h) : (h \o w)[x] = h[x] /\ SubSeq(h \o w, 1, x) = SubSeq(h, 1, x)
           /\ \A x \in 1 .. Len(w) : (h \o w)[Len(h) + x] = w[x]
  <1>1. /\ Len(h) \in Nat /\ Len(w) \in Nat /\ h \o w \in Seq(Tokens)
        /\ Len(h \o w) = Len(h) + Len(w)
    BY LenProperties, ConcatProperties
  <1>2. Joined(h \o w, h, Len(h), w, Len(w))
    BY SeqIs, ConcatIs
  <1>3. ASSUME NEW x \in 1 .. Len(h) PROVE SubSeq(h \o w, 1, x) = SubSeq(h, 1, x)
    <2>1. 1 \in 1 .. Len(h)
      BY <1>1
    <2> QED
      BY <2>1, SubSeqOfConcat1
  <1> QED
    BY <1>1, <1>2, <1>3 DEF Joined

LEMMA PrefixFacts ==
    ASSUME NEW s \in Seq(Tokens), NEW n \in 0 .. Len(s)
    PROVE  /\ SubSeq(s, 1, n) \in Seq(Tokens) /\ Len(SubSeq(s, 1, n)) = n
           /\ \A x \in 1 .. n : /\ SubSeq(s, 1, n)[x] = s[x]
                                /\ SubSeq(SubSeq(s, 1, n), 1, x) = SubSeq(s, 1, x)
  <1>1. Len(s) \in Nat /\ \A i \in 1 .. n : s[i] \in Tokens
    BY LenProperties
  <1>2. /\ SubSeq(s, 1, n) \in Seq(Tokens)
        /\ Len(SubSeq(s, 1, n)) = IF 1 <= n THEN n - 1 + 1 ELSE 0
    BY <1>1, SubSeqProperties
  <1>3. Len(SubSeq(s, 1, n)) = n
    BY <1>1, <1>2
  <1>4. Part(SubSeq(s, 1, n), s, 1, n)
    BY <1>1, SubSeqIs
  <1>5. ASSUME NEW x \in 1 .. n PROVE SubSeq(s, 1, n)[x] = s[x]
    BY <1>1, <1>4 DEF Part
  <1>6. ASSUME NEW x \in 1 .. n PROVE SubSeq(SubSeq(s, 1, n), 1, x) = SubSeq(s, 1, x)
    <2>1. x \in Nat /\ 1 <= x + 1
      OBVIOUS
    <2>2. Part(SubSeq(SubSeq(s, 1, n), 1, x), SubSeq(s, 1, n), 1, x) /\ Part(SubSeq(s, 1, x), s, 1, x)
      BY <2>1, SubSeqIs
    <2>3. ASSUME NEW y \in 1 .. x PROVE SubSeq(SubSeq(s, 1, n), 1, x)[y] = SubSeq(s, 1, x)[y]
      <3>1. y \in 1 .. n /\ y \in 1 .. (x - 1) + 1 /\ (1 + y) - 1 = y
        BY <1>1
      <3> QED
        BY <1>5, <2>2, <3>1 DEF Part
    <2>4. IsSeq(SubSeq(SubSeq(s, 1, n), 1, x), x) /\ IsSeq(SubSeq(s, 1, x), x)
      <3>1. (x - 1) + 1 = x
        OBVIOUS
      <3> QED
        BY <2>2, <3>1 DEF Part
    <2> QED
      BY <2>3, <2>4, SameSeq
  <1> QED
    BY <1>2, <1>3, <1>5, <1>6

\* A row is laid out behind the state of its slot.
LEMMA NgramLaid ==
    ASSUME NEW h \in Seq(Tokens), NEW w \in Seq(Tokens), NEW p, NEW n, IsSeq(p, n), Len(w) <= n,
           \A c \in 1 .. Len(w) : p[c] = w[c]
    PROVE  NgramRow(StateAfter(h).ngram \o p, h, w)
  <1> DEFINE m == NgramSize - 1
             a == StateAfter(h).ngram
             e == Len(h)
  <1>1. m \in Nat /\ e \in Nat /\ Len(w) \in Nat /\ n \in Nat
    BY SizeFacts, LenProperties DEF IsSeq
  <1>2. a = [i \in 1 .. m |-> TokenBefore(h, e - m + i)]
    BY DEF StateAfter, TokenBefore
  <1>3. IsSeq(a, m)
    BY <1>1, <1>2 DEF IsSeq
  <1> HIDE DEF a, m, e
  <1>4. Joined(a \o p, a, m, p, n)
    BY <1>3, ConcatIs
  <1> SUFFICES ASSUME NEW i \in 1 .. m + Len(w)
               PROVE  (a \o p)[i] = TokenBefore(h \o w, e - m + i)
    BY DEF NgramRow, a, m, e
  <1>5. CASE i <= m
    <2>1. i \in 1 .. m
      BY <1>1, <1>5
    <2>2. (a \o p)[i] = TokenBefore(h, e - m + i)
      BY <1>2, <1>4, <2>1 DEF Joined
    <2>3. e - m + i \in Int /\ e - m + i <= e
      BY <1>1, <2>1
    <2>4. \A x \in 1 .. e : (h \o w)[x] = h[x]
      BY HistoryFacts DEF e
    <2> DEFINE y == e - m + i
    <2>5. y \in Int /\ y <= e
      BY <2>3
    <2> HIDE DEF y
    <2>6. TokenBefore(h \o w, y) = TokenBefore(h, y)
      <3>1. y > 0 => y \in 1 .. e
        BY ONLY <1>1, <2>5
      <3> QED
        BY ONLY <2>4, <3>1 DEF TokenBefore
    <2> QED
      BY <2>2, <2>6 DEF y
  <1>6. CASE i > m
    <2>1. i - m \in 1 .. Len(w) /\ i - m \in 1 .. n /\ m + (i - m) = i
      BY <1>1, <1>6
    <2>2. (a \o p)[i] = w[i - m]
      BY <1>4, <2>1 DEF Joined
    <2>3. (h \o w)[e + (i - m)] = w[i - m]
      BY <2>1, HistoryFacts DEF e
    <2>4. e - m + i = e + (i - m) /\ e - m + i > 0
      BY <1>1, <2>1
    <2> QED
      BY <2>2, <2>3, <2>4 DEF TokenBefore
  <1>7. i <= m \/ i > m
    BY <1>1
  <1> QED
    BY <1>5, <1>6, <1>7

LEMMA ConvLaid ==
    ASSUME NEW h \in Seq(Tokens), NEW w \in Seq(Tokens), NEW p, NEW n, IsSeq(p, n), Len(w) <= n,
           \A c \in 1 .. Len(w) : p[c] = SubSeq(h \o w, 1, Len(h) + c)
    PROVE  ConvRow(StateAfter(h).conv \o p, h, w)
  <1> DEFINE m == StateLen
             a == StateAfter(h).conv
             e == Len(h)
  <1>1. m \in Nat /\ e \in Nat /\ Len(w) \in Nat /\ n \in Nat
    BY SizeFacts, LenProperties DEF IsSeq
  <1>2. a = [i \in 1 .. m |-> InputBefore(h, e - m + i)]
    BY DEF StateAfter, InputBefore
  <1>3. IsSeq(a, m)
    BY <1>1, <1>2 DEF IsSeq
  <1> HIDE DEF a, m, e
  <1>4. Joined(a \o p, a, m, p, n)
    BY <1>3, ConcatIs
  <1> SUFFICES ASSUME NEW i \in 1 .. m + Len(w)
               PROVE  (a \o p)[i] = InputBefore(h \o w, e - m + i)
    BY DEF ConvRow, a, m, e
  <1>5. CASE i <= m
    <2>1. i \in 1 .. m
      BY <1>1, <1>5
    <2>2. (a \o p)[i] = InputBefore(h, e - m + i)
      BY <1>2, <1>4, <2>1 DEF Joined
    <2>3. e - m + i \in Int /\ e - m + i <= e
      BY <1>1, <2>1
    <2>4. \A x \in 1 .. e : SubSeq(h \o w, 1, x) = SubSeq(h, 1, x)
      BY HistoryFacts DEF e
    <2> DEFINE y == e - m + i
    <2>5. y \in Int /\ y <= e
      BY <2>3
    <2> HIDE DEF y
    <2>6. InputBefore(h \o w, y) = InputBefore(h, y)
      <3>1. y > 0 => y \in 1 .. e
        BY ONLY <1>1, <2>5
      <3> QED
        BY ONLY <2>4, <3>1 DEF InputBefore
    <2> QED
      BY <2>2, <2>6 DEF y
  <1>6. CASE i > m
    <2>1. i - m \in 1 .. Len(w) /\ i - m \in 1 .. n /\ m + (i - m) = i
      BY <1>1, <1>6
    <2>2. (a \o p)[i] = SubSeq(h \o w, 1, e + (i - m))
      BY <1>4, <2>1 DEF Joined, e
    <2>3. e - m + i = e + (i - m) /\ e - m + i > 0
      BY <1>1, <2>1
    <2> QED
      BY <2>2, <2>3 DEF InputBefore
  <1>7. i <= m \/ i > m
    BY <1>1
  <1> QED
    BY <1>5, <1>6, <1>7

\* A prefix looks like the whole up to its end.
LEMMA BeforeInPrefix ==
    ASSUME NEW s \in Seq(Tokens), NEW n \in 0 .. Len(s), NEW y \in Int, y <= n
    PROVE  /\ TokenBefore(SubSeq(s, 1, n), y) = TokenBefore(s, y)
           /\ InputBefore(SubSeq(s, 1, n), y) = InputBefore(s, y)
  <1>1. n \in Nat
    BY LenProperties
  <1>2. y > 0 => y \in 1 .. n
    BY <1>1
  <1>3. \A x \in 1 .. n : /\ SubSeq(s, 1, n)[x] = s[x]
                          /\ SubSeq(SubSeq(s, 1, n), 1, x) = SubSeq(s, 1, x)
    BY PrefixFacts
  <1> QED
    BY <1>2, <1>3 DEF TokenBefore, InputBefore

\* Cutting a row after n of its tokens gives the state after those.
LEMMA Gathered ==
    ASSUME NEW h \in Seq(Tokens), NEW w \in Seq(Tokens), NEW a, NEW b,
           NgramRow(a, h, w), ConvRow(b, h, w), NEW n \in 0 .. Len(w)
    PROVE  [ngram |-> SubSeq(a, n + 1, n + NgramSize - 1), conv |-> SubSeq(b, n + 1, n + StateLen)]
              = StateAfter(SubSeq(h \o w, 1, Len(h) + n))
  <1> DEFINE m == NgramSize - 1
             l == StateLen
             e == Len(h)
             g == SubSeq(h \o w, 1, e + n)
             A == SubSeq(a, n + 1, n + m)
             B == SubSeq(b, n + 1, n + l)
  <1>1. m \in Nat /\ l \in Nat /\ e \in Nat /\ Len(w) \in Nat /\ n \in Nat
    BY SizeFacts, LenProperties
  <1>2. h \o w \in Seq(Tokens) /\ e + n \in 0 .. Len(h \o w)
    <2>1. h \o w \in Seq(Tokens) /\ Len(h \o w) = e + Len(w)
      BY HistoryFacts
    <2> QED
      BY <1>1, <2>1
  <1>3. Len(g) = e + n
    BY <1>2, PrefixFacts
  <1>4. /\ \A i \in 1 .. m + Len(w) : a[i] = TokenBefore(h \o w, e - m + i)
        /\ \A i \in 1 .. l + Len(w) : b[i] = InputBefore(h \o w, e - l + i)
    BY DEF NgramRow, ConvRow
  <1>5. \A y \in Int : y <= e + n => /\ TokenBefore(g, y) = TokenBefore(h \o w, y)
                                     /\ InputBefore(g, y) = InputBefore(h \o w, y)
    BY <1>2, BeforeInPrefix
  <1>6. StateAfter(g) = [ngram |-> [i \in 1 .. m |-> TokenBefore(g, (e + n) - m + i)],
                         conv  |-> [i \in 1 .. l |-> InputBefore(g, (e + n) - l + i)]]
    <2> HIDE DEF g
    <2> QED
      BY <1>3 DEF StateAfter, TokenBefore, InputBefore
  <1>7. Part(A, a, n + 1, n + m) /\ Part(B, b, n + 1, n + l)
    BY <1>1, SubSeqIs
  <1>8. (n + m) - (n + 1) + 1 = m /\ (n + l) - (n + 1) + 1 = l
    BY <1>1
  <1> HIDE DEF m, l, e, g, A, B
  <1>9. IsSeq(A, m) /\ IsSeq(B, l)
    BY <1>7, <1>8 DEF Part
  <1>10. ASSUME NEW i \in 1 .. m PROVE A[i] = TokenBefore(g, (e + n) - m + i)
    <2> DEFINE y == (e + n) - m + i
    <2>1. /\ n + i \in 1 .. m + Len(w) /\ ((n + 1) + i) - 1 = n + i
          /\ e - m + (n + i) = y /\ y \in Int /\ y <= e + n
      BY <1>1
    <2>2. A[i] = a[n + i]
      BY <1>7, <1>8, <2>1 DEF Part
    <2>3. a[n + i] = TokenBefore(h \o w, e - m + (n + i))
      BY <1>4, <2>1
    <2> HIDE DEF y
    <2>4. TokenBefore(g, y) = TokenBefore(h \o w, y)
      BY <1>5, <2>1
    <2> QED
      BY <2>1, <2>2, <2>3, <2>4 DEF y
  <1>11. ASSUME NEW i \in 1 .. l PROVE B[i] = InputBefore(g, (e + n) - l + i)
    <2> DEFINE y == (e + n) - l + i
    <2>1. /\ n + i \in 1 .. l + Len(w) /\ ((n + 1) + i) - 1 = n + i
          /\ e - l + (n + i) = y /\ y \in Int /\ y <= e + n
      BY <1>1
    <2>2. B[i] = b[n + i]
      BY <1>7, <1>8, <2>1 DEF Part
    <2>3. b[n + i] = InputBefore(h \o w, e - l + (n + i))
      BY <1>4, <2>1
    <2> HIDE DEF y
    <2>4. InputBefore(g, y) = InputBefore(h \o w, y)
      BY <1>5, <2>1
    <2> QED
      BY <2>1, <2>2, <2>3, <2>4 DEF y
  <1>12. A = [i \in 1 .. m |-> TokenBefore(g, (e + n) - m + i)]
    BY <1>9, <1>10 DEF IsSeq
  <1>13. B = [i \in 1 .. l |-> InputBefore(g, (e + n) - l + i)]
    BY <1>9, <1>11 DEF IsSeq
  <1> QED
    BY <1>6, <1>12, <1>13 DEF m, l, e, g, A, B

\* The tokens an n-gram mixes: those before the last one, up to an end of text.
LEMMA ShiftTrue ==
    ASSUME NEW g \in Seq(Tokens), Len(g) > 0, NEW win, IsSeq(win, NgramSize),
           \A j \in 1 .. NgramSize : win[j] = TokenBefore(g, (Len(g) - NgramSize) + j),
           NEW n \in 0 .. NgramSize - 1
    PROVE  ShiftRight(win, n) = IF n < Len(g) /\ \A i \in Len(g) - n .. Len(g) - 1 : g[i] # Eos
                                THEN g[Len(g) - n] ELSE Eos
  <1> DEFINE N == NgramSize
             p == Len(g)
             S == {0} \cup {i \in 1 .. N - 1 : win[i] = Eos}
             M == Max(S)
             Clear == \A i \in p - n .. p - 1 : g[i] # Eos
  <1>1. N \in Nat /\ N >= 2 /\ p \in Nat /\ p > 0 /\ n \in Nat /\ n <= N - 1
    BY SizeFacts, LenProperties
  <1>2. Len(win) = N
    BY SeqFacts
  <1>3. M \in S /\ \A k \in S : k <= M
    <2>1. S \subseteq 0 .. N /\ S # {}
      BY <1>1
    <2> HIDE DEF S
    <2> QED
      BY <1>1, <2>1, MaxOf
  <1>4. M \in 0 .. N - 1
    BY <1>1, <1>3
  <1>5. ShiftRight(win, n) = IF N - (M + 1) >= n THEN win[N - n] ELSE Eos
    BY <1>2 DEF ShiftRight
  <1>6. win[N - n] = TokenBefore(g, p - n)
    <2>1. N - n \in 1 .. N /\ (p - N) + (N - n) = p - n
      BY <1>1
    <2> QED
      BY <2>1
  <1>7. \A j \in 1 .. N : win[j] = TokenBefore(g, (p - N) + j)
    OBVIOUS
  <1> HIDE DEF N, p, M
  <1>8. CASE n < p /\ Clear
    <2>1. N - (M + 1) >= n
      <3>1. SUFFICES ASSUME M >= N - n PROVE FALSE
        BY <1>1, <1>4
      <3>2. M \in 1 .. N - 1 /\ M \in 1 .. N
        BY <1>1, <1>4, <3>1
      <3>3. win[M] = Eos
        BY <1>3, <3>2
      <3> DEFINE i == (p - N) + M
      <3>4. i \in p - n .. p - 1 /\ i > 0
        BY <1>1, <1>8, <3>1, <3>2
      <3>5. win[M] = TokenBefore(g, i)
        BY <1>7, <3>2
      <3> HIDE DEF i
      <3> QED
        BY <1>8, <3>3, <3>4, <3>5 DEF TokenBefore
    <2>2. p - n > 0
      BY <1>1, <1>8
    <2>3. ShiftRight(win, n) = g[p - n]
      BY <1>5, <1>6, <2>1, <2>2 DEF TokenBefore
    <2> QED
      BY <1>8, <2>3 DEF p
  <1>9. CASE n >= p
    <2>1. ~(p - n > 0) /\ ~(n < p)
      BY <1>1, <1>9
    <2>2. ShiftRight(win, n) = Eos
      BY <1>5, <1>6, <2>1 DEF TokenBefore
    <2> QED
      BY <2>1, <2>2 DEF p
  <1>10. CASE n < p /\ ~Clear
    <2>1. PICK i \in p - n .. p - 1 : g[i] = Eos
      BY <1>10
    <2> DEFINE j == (N - p) + i
    <2>2. j \in 1 .. N - 1 /\ j \in 1 .. N /\ j >= N - n /\ (p - N) + j = i /\ i > 0
      BY <1>1, <1>10
    <2> HIDE DEF j
    <2>3. win[j] = Eos
      BY <1>7, <2>1, <2>2 DEF TokenBefore
    <2>4. j <= M
      BY <1>3, <2>2, <2>3
    <2>5. ~(N - (M + 1) >= n)
      BY <1>1, <1>4, <2>2, <2>4
    <2>6. ShiftRight(win, n) = Eos
      BY <1>5, <2>5
    <2> QED
      BY <1>10, <2>6 DEF p
  <1>11. n < p \/ n >= p
    BY <1>1
  <1> QED
    BY <1>8, <1>9, <1>10, <1>11

\* What a forward reads for a token, as if its whole history were one row.
LooksTrue(l) ==
    LET p == Len(l.hist)
    IN  /\ \A n \in 0 .. NgramSize - 1 :
             l.ids[n + 1] = IF n < p /\ \A i \in p - n .. p - 1 : l.hist[i] # Eos
                            THEN l.hist[p - n] ELSE Eos
        /\ \A j \in 0 .. Kernel - 1 :
             l.taps[Kernel - j] = IF j * Dilation < p THEN SubSeq(l.hist, 1, p - j * Dilation) ELSE Zero

LEMMA RowLooksTrue ==
    ASSUME NEW h \in Seq(Tokens), NEW w \in Seq(Tokens), NEW b, NEW k,
           NgramRow(b.ngram[k], h, w), ConvRow(b.conv[k], h, w), NEW o \in 0 .. Len(w) - 1
    PROVE  LooksTrue(Looked(b, k, o))
  <1> DEFINE N == NgramSize
             K == Kernel
             D == Dilation
             L == StateLen
             e == Len(h)
             hw == h \o w
             g == SubSeq(hw, 1, e + (o + 1))
             p == e + (o + 1)
             win == Window(b, k, o)
  <1>1. /\ N \in Nat /\ N >= 2 /\ K \in Nat \ {0} /\ D = N /\ L \in Nat /\ L = (K - 1) * D
        /\ e \in Nat /\ Len(w) \in Nat /\ o \in Nat /\ o < Len(w)
    BY SizeFacts, LenProperties DEF StateLen
  <1>2. hw \in Seq(Tokens) /\ p \in 0 .. Len(hw) /\ p \in Nat /\ p > 0
    <2>1. hw \in Seq(Tokens) /\ Len(hw) = e + Len(w)
      BY HistoryFacts
    <2> QED
      BY <1>1, <2>1
  <1>3. g \in Seq(Tokens) /\ Len(g) = p
    BY <1>2, PrefixFacts
  <1>4. \A y \in Int : y <= p => /\ TokenBefore(g, y) = TokenBefore(hw, y)
                                 /\ InputBefore(g, y) = InputBefore(hw, y)
    BY <1>2, BeforeInPrefix
  <1>5. /\ \A i \in 1 .. (N - 1) + Len(w) : b.ngram[k][i] = TokenBefore(hw, e - (N - 1) + i)
        /\ \A i \in 1 .. L + Len(w) : b.conv[k][i] = InputBefore(hw, e - L + i)
    BY DEF NgramRow, ConvRow
  <1> HIDE DEF hw, e
  <1>6. b.conv[k][L + o + 1] = g
    <2>1. L + o + 1 \in 1 .. L + Len(w) /\ e - L + (L + o + 1) = p
      BY <1>1
    <2>2. b.conv[k][L + o + 1] = InputBefore(hw, p)
      BY <1>5, <2>1
    <2> QED
      BY <1>2, <2>2 DEF InputBefore
  <1>7. Part(win, b.ngram[k], o + 1, o + N)
    <2>1. o + 1 \in Nat \ {0} /\ o + N \in Nat /\ o + 1 <= (o + N) + 1
      BY <1>1
    <2> QED
      BY <2>1, SubSeqIs DEF Window
  <1>8. IsSeq(win, N) /\ \A j \in 1 .. N : win[j] = TokenBefore(g, (p - N) + j)
    <2>1. (o + N) - (o + 1) + 1 = N
      BY <1>1
    <2>2. IsSeq(win, N)
      BY <1>7, <2>1 DEF Part
    <2> SUFFICES ASSUME NEW j \in 1 .. N PROVE win[j] = TokenBefore(g, (p - N) + j)
      BY <2>2
    <2> DEFINE y == (p - N) + j
    <2>3. /\ ((o + 1) + j) - 1 = o + j /\ o + j \in 1 .. (N - 1) + Len(w)
          /\ e - (N - 1) + (o + j) = y /\ y \in Int /\ y <= p
      BY <1>1
    <2>4. win[j] = b.ngram[k][o + j]
      BY <1>7, <2>1, <2>3 DEF Part
    <2>5. b.ngram[k][o + j] = TokenBefore(hw, e - (N - 1) + (o + j))
      BY <1>5, <2>3
    <2> HIDE DEF y
    <2>6. TokenBefore(g, y) = TokenBefore(hw, y)
      BY <1>4, <2>3
    <2> QED
      BY <2>3, <2>4, <2>5, <2>6 DEF y
  <1> DEFINE l == Looked(b, k, o)
  <1>9. l.hist = g /\ l.ids = NgramIds(win) /\ l.taps = Taps(b, k, o)
    BY <1>6 DEF Looked
  <1>10. ASSUME NEW n \in 0 .. N - 1
         PROVE  l.ids[n + 1] = IF n < p /\ \A i \in p - n .. p - 1 : g[i] # Eos THEN g[p - n] ELSE Eos
    <2>1. n + 1 \in 1 .. N /\ (n + 1) - 1 = n
      BY <1>1
    <2>2. l.ids[n + 1] = ShiftRight(win, n)
      BY <1>9, <2>1 DEF NgramIds
    <2> HIDE DEF g, win, p, l
    <2>3. Len(g) > 0 /\ Len(g) = p
      BY <1>2, <1>3
    <2>4. \A j \in 1 .. NgramSize : win[j] = TokenBefore(g, (Len(g) - NgramSize) + j)
      BY <1>8, <2>3
    <2>5. ShiftRight(win, n) = IF n < Len(g) /\ \A i \in Len(g) - n .. Len(g) - 1 : g[i] # Eos
                                THEN g[Len(g) - n] ELSE Eos
      BY <1>3, <1>8, <2>3, <2>4, ShiftTrue
    <2> QED
      BY <2>2, <2>3, <2>5
  <1>11. ASSUME NEW j \in 0 .. K - 1
         PROVE  l.taps[K - j] = IF j * D < p THEN SubSeq(g, 1, p - j * D) ELSE Zero
    <2> DEFINE x == j * D
               y == p - x
               i == o + (K - j - 1) * D + 1
    <2>1. K - j \in 1 .. K /\ l.taps[K - j] = b.conv[k][i]
      BY <1>1, <1>9 DEF Taps
    <2>2. (K - j - 1) * D = L - x /\ x \in Nat /\ x <= L
      <3>1. (K - 1) * D = (K - j - 1) * D + j * D
        BY <1>1, SMT
      <3>2. j * D \in Nat /\ (K - j - 1) * D \in Nat
        BY <1>1, SMT
      <3> QED
        BY <1>1, <3>1, <3>2
    <2>3. i = o + (L - x) + 1
      BY <2>2
    <2> HIDE DEF x, i
    <2>4. i \in 1 .. L + Len(w) /\ e - L + i = y /\ y \in Int /\ y <= p
      BY <1>1, <2>2, <2>3
    <2>5. b.conv[k][i] = InputBefore(hw, e - L + i)
      BY <1>5, <2>4
    <2>6. InputBefore(hw, y) = InputBefore(g, y)
      <3> HIDE DEF y
      <3> QED
        BY <1>4, <2>4
    <2>7. y > 0 <=> x < p
      BY <1>2, <2>2
    <2>8. l.taps[K - j] = IF x < p THEN SubSeq(g, 1, y) ELSE Zero
      BY <2>1, <2>4, <2>5, <2>6, <2>7 DEF InputBefore
    <2> QED
      BY <2>8 DEF x
  <1>12. l.hist = g /\ Len(l.hist) = p
    BY <1>3, <1>9
  <1> HIDE DEF l, g, p
  <1> QED
    BY <1>10, <1>11, <1>12 DEF LooksTrue, l

----------------------------------------------------------------------------
(* The layout of a forward                                                 *)

\* The tokens of a prefill land where they were cut.
LEMMA ExtendLanding ==
    ASSUME NEW fb, fb.mode = "extend", NEW lens \in Seq(Nat), fb.lens = lens,
           Processed(fb) \in Nat, Total(lens) <= Processed(fb),
           NEW k \in 1 .. Len(lens), NEW o \in 0 .. lens[k] - 1
    PROVE  Landing(fb, k, o) = {QueryStartLoc(lens)[k - 1] + (o + 1)}
  <1> DEFINE n == Len(lens)
             s == QueryStartLoc(lens)
             i == s[k - 1] + (o + 1)
  <1>1. /\ n \in Nat /\ \A j \in 0 .. n : s[j] \in Nat
        /\ \A j \in 1 .. n : s[j] = s[j - 1] + lens[j] /\ lens[j] \in Nat
        /\ Total(lens) = s[n]
    BY LenProperties, QueryStart, SMTT(60) DEF Total
  <1>2. k \in 1 .. n /\ k - 1 \in 0 .. n /\ k \in 0 .. n /\ n \in 0 .. n /\ lens[k] \in Nat
    BY <1>1
  <1>3. /\ \A j \in 0 .. k - 1 : s[j] <= s[k - 1]
        /\ \A j \in k .. n : s[k] <= s[j]
    <2>1. ASSUME NEW j \in 0 .. k - 1 PROVE s[j] <= s[k - 1]
      <3>1. j \in 0 .. Len(lens) /\ k - 1 \in j .. Len(lens)
        BY <1>1
      <3> QED
        BY <3>1, StartMonotone
    <2>2. ASSUME NEW j \in k .. n PROVE s[k] <= s[j]
      <3>1. k \in 0 .. Len(lens) /\ j \in k .. Len(lens)
        BY <1>1
      <3> QED
        BY <3>1, StartMonotone
    <2> QED
      BY <2>1, <2>2
  <1> HIDE DEF s
  <1>4. s[k - 1] \in Nat /\ s[k] = s[k - 1] + lens[k] /\ s[k] \in Nat /\ s[n] \in Nat
    BY <1>1, <1>2
  <1>5. i \in Nat /\ i - 1 = s[k - 1] + o /\ s[k - 1] <= i - 1 /\ i - 1 < s[k] /\ i >= 1
    BY <1>4, SMTT(60)
  <1>6. i \in 1 .. Processed(fb)
    <2>1. k \in k .. n /\ n \in k .. n
      BY <1>1
    <2>2. s[k] <= s[n]
      BY <1>3, <2>1
    <2> QED
      BY <1>1, <1>4, <1>5, <2>2
  <1>7. {j \in 0 .. n : s[j] <= i - 1} = 0 .. k - 1
    <2> HIDE DEF i
    <2>1. ASSUME NEW j \in 0 .. n, s[j] <= i - 1 PROVE j \in 0 .. k - 1
      <3>1. SUFFICES ASSUME j \in k .. n PROVE FALSE
        BY <1>2
      <3>2. s[k] <= s[j] /\ s[j] \in Nat
        BY <1>1, <1>3, <3>1
      <3> QED
        BY <1>4, <1>5, <2>1, <3>2, SMTT(60)
    <2>2. ASSUME NEW j \in 0 .. k - 1 PROVE j \in 0 .. n /\ s[j] <= i - 1
      <3>1. j \in 0 .. n /\ s[j] \in Nat /\ s[j] <= s[k - 1]
        BY <1>1, <1>2, <1>3, SMTT(60)
      <3> QED
        BY <1>4, <1>5, <3>1, SMTT(60)
    <2> QED
      BY <2>1, <2>2
  <1>8. Cardinality(0 .. k - 1) = k
    <2>1. Cardinality(0 .. k - 1) = IF 0 > k - 1 THEN 0 ELSE (k - 1) - 0 + 1
      BY <1>2, FS_Interval
    <2> QED
      BY <1>2, <2>1
  <1>9. RowOf(fb, i) = k
    <2>1. RowOf(fb, i) = Lesser(n, Cardinality({j \in 0 .. n : s[j] <= i - 1}))
      BY DEF RowOf, s
    <2>2. RowOf(fb, i) = Lesser(n, k)
      BY <1>7, <1>8, <2>1
    <2>3. Lesser(n, k) = k
      BY <1>2 DEF Lesser
    <2> QED
      BY <2>2, <2>3
  <1>10. \A x \in Nat : RowOf(fb, x) = k => OffsetOf(fb, x) = x - 1 - s[k - 1]
    BY DEF OffsetOf, s
  <1>11. \A x \in Nat : RowOf(fb, x) = k /\ OffsetOf(fb, x) = o => x = i
    BY <1>4, <1>10, SMTT(60)
  <1>12. OffsetOf(fb, i) = o
    BY <1>4, <1>5, <1>9, <1>10, SMTT(60)
  <1>13. 1 .. Processed(fb) \subseteq Nat
    OBVIOUS
  <1> HIDE DEF i
  <1>14. Landing(fb, k, o) = {i}
    BY <1>6, <1>9, <1>11, <1>12, <1>13 DEF Landing
  <1> QED
    BY <1>14 DEF i, s

\* So do those of rows of one width.
LEMMA UniformLanding ==
    ASSUME NEW fb, fb.mode # "extend", NEW d \in Nat \ {0}, RowWidth(fb) = d,
           NEW k \in Nat \ {0}, NEW o \in 0 .. d - 1,
           Processed(fb) \in Nat, (k - 1) * d + (o + 1) <= Processed(fb)
    PROVE  Landing(fb, k, o) = {(k - 1) * d + (o + 1)}
  <1> DEFINE a == (k - 1) * d
             i == a + (o + 1)
  <1>1. a \in Nat /\ a = d * (k - 1)
    BY SMT
  <1>2. i \in 1 .. Processed(fb) /\ i - 1 = d * (k - 1) + o /\ i - 1 = a + o
    <2>1. i <= Processed(fb)
      OBVIOUS
    <2> HIDE DEF a
    <2> QED
      BY <1>1, <2>1
  <1>3. \A x : RowOf(fb, x) = (x - 1) \div d + 1
    BY DEF RowOf
  <1>4. k - 1 \in Nat /\ (k - 1) + 1 = k
    OBVIOUS
  <1>5. (d * (k - 1) + o) \div d = k - 1
    BY <1>4, DivUnique
  <1> HIDE DEF a
  <1>6. RowOf(fb, i) = k
    BY <1>2, <1>3, <1>4, <1>5
  <1>7. \A x \in Nat : RowOf(fb, x) = k => OffsetOf(fb, x) = x - 1 - a
    BY DEF OffsetOf, a
  <1>8. \A x \in Nat : RowOf(fb, x) = k /\ OffsetOf(fb, x) = o => x = i
    BY <1>1, <1>7
  <1>9. OffsetOf(fb, i) = o
    BY <1>1, <1>2, <1>6, <1>7
  <1>10. 1 .. Processed(fb) \subseteq Nat
    OBVIOUS
  <1>11. Landing(fb, k, o) = {i}
    <2> HIDE DEF i
    <2> QED
      BY <1>2, <1>6, <1>8, <1>9, <1>10 DEF Landing
  <1> QED
    BY <1>11 DEF a

\* Row k of a forward feeds the tokens w.
Feeds(fb, k, w) ==
    /\ k \in DOMAIN Lengths(fb) /\ Lengths(fb)[k] = Len(w)
    /\ RowWidth(fb) \in Nat /\ Len(w) <= RowWidth(fb)
    /\ \A o \in 0 .. Len(w) - 1 : Landing(fb, k, o) # {} /\ TokenAt(fb, k, o) = w[o + 1]

LEMMA LongerPrefix ==
    ASSUME NEW h \in Seq(Tokens), NEW w \in Seq(Tokens), NEW c \in 1 .. Len(w)
    PROVE  h \o SubSeq(w, 1, c) = SubSeq(h \o w, 1, Len(h) + c)
  <1> DEFINE e == Len(h)
             a == h \o SubSeq(w, 1, c)
             b == SubSeq(h \o w, 1, e + c)
  <1>1. e \in Nat /\ c \in Nat /\ Len(w) \in Nat /\ c \in 0 .. Len(w)
    BY LenProperties
  <1>2. /\ SubSeq(w, 1, c) \in Seq(Tokens) /\ Len(SubSeq(w, 1, c)) = c
        /\ \A x \in 1 .. c : SubSeq(w, 1, c)[x] = w[x]
    BY <1>1, PrefixFacts
  <1>3. /\ a \in Seq(Tokens) /\ Len(a) = e + c
        /\ \A x \in 1 .. e : a[x] = h[x]
        /\ \A x \in 1 .. c : a[e + x] = SubSeq(w, 1, c)[x]
    BY <1>2, HistoryFacts
  <1>4. /\ h \o w \in Seq(Tokens) /\ e + c \in 0 .. Len(h \o w)
        /\ \A x \in 1 .. e : (h \o w)[x] = h[x]
        /\ \A x \in 1 .. Len(w) : (h \o w)[e + x] = w[x]
    <2>1. /\ h \o w \in Seq(Tokens) /\ Len(h \o w) = e + Len(w)
          /\ \A x \in 1 .. e : (h \o w)[x] = h[x]
          /\ \A x \in 1 .. Len(w) : (h \o w)[e + x] = w[x]
      BY HistoryFacts
    <2>2. e + c \in 0 .. e + Len(w)
      BY <1>1
    <2> QED
      BY <2>1, <2>2
  <1>5. /\ b \in Seq(Tokens) /\ Len(b) = e + c
        /\ \A x \in 1 .. e + c : b[x] = (h \o w)[x]
    BY <1>4, PrefixFacts
  <1> HIDE DEF a, b, e
  <1>6. ASSUME NEW x \in 1 .. e + c PROVE a[x] = b[x]
    <2>1. CASE x <= e
      <3>1. x \in 1 .. e
        BY <1>1, <2>1
      <3> QED
        BY <1>3, <1>4, <1>5, <3>1
    <2>2. CASE x > e
      <3>1. x - e \in 1 .. c /\ x - e \in 1 .. Len(w) /\ e + (x - e) = x
        BY <1>1, <2>2
      <3>2. a[x] = w[x - e]
        BY <1>2, <1>3, <3>1
      <3>3. b[x] = w[x - e]
        BY <1>4, <1>5, <3>1
      <3> QED
        BY <3>2, <3>3
    <2> QED
      BY <1>1, <2>1, <2>2
  <1>7. IsSeq(a, e + c) /\ IsSeq(b, e + c)
    BY <1>3, <1>5, SeqIs
  <1>8. a = b
    BY <1>6, <1>7, SameSeq
  <1> QED
    BY <1>8 DEF a, b, e

\* A row that reads a true state extends it by the tokens it feeds.
LEMMA Prepared ==
    ASSUME NEW fb, NEW k, NEW h \in Seq(Tokens), NEW w \in Seq(Tokens), Feeds(fb, k, w),
           fb.located[k], h = SubSeq(Text[fb.rows[k]], 1, req[fb.rows[k]].done),
           state[StateIndex(fb, k)] = StateAfter(h)
    PROVE  NgramRow(Prepare(fb).ngram[k], h, w) /\ ConvRow(Prepare(fb).conv[k], h, w)
  <1>1. /\ k \in DOMAIN Lengths(fb) /\ Lengths(fb)[k] = Len(w) /\ Len(w) \in Nat
        /\ RowWidth(fb) \in Nat /\ Len(w) <= RowWidth(fb)
        /\ \A o \in 0 .. Len(w) - 1 : Landing(fb, k, o) # {} /\ TokenAt(fb, k, o) = w[o + 1]
    BY LenProperties DEF Feeds
  <1>2. /\ Prepare(fb).ngram[k] = StateAfter(h).ngram \o PaddedRow(fb, k)
        /\ Prepare(fb).conv[k] = StateAfter(h).conv \o InputRow(fb, k)
    BY <1>1 DEF Prepare
  <1>3. IsSeq(PaddedRow(fb, k), RowWidth(fb)) /\ IsSeq(InputRow(fb, k), RowWidth(fb))
    BY <1>1, SMTT(60) DEF PaddedRow, InputRow, IsSeq
  <1>4. ASSUME NEW c \in 1 .. Len(w)
        PROVE  PaddedRow(fb, k)[c] = w[c] /\ InputRow(fb, k)[c] = SubSeq(h \o w, 1, Len(h) + c)
    <2>1. /\ c - 1 \in 0 .. Len(w) - 1 /\ (c - 1) + 1 = c /\ c \in 1 .. RowWidth(fb)
          /\ c - 1 < Lengths(fb)[k]
      BY <1>1
    <2>2. Landing(fb, k, c - 1) # {} /\ TokenAt(fb, k, c - 1) = w[c]
      BY <1>1, <2>1
    <2>3. PaddedRow(fb, k)[c] = w[c]
      BY <2>1, <2>2 DEF PaddedRow
    <2>4. [j \in 1 .. c |-> TokenAt(fb, k, j - 1)] = SubSeq(w, 1, c)
      <3>1. ASSUME NEW j \in 1 .. c PROVE TokenAt(fb, k, j - 1) = w[j]
        <4>1. j - 1 \in 0 .. Len(w) - 1 /\ (j - 1) + 1 = j
          BY <1>1
        <4> QED
          BY <1>1, <4>1
      <3>2. IsSeq(SubSeq(w, 1, c), c) /\ \A j \in 1 .. c : SubSeq(w, 1, c)[j] = w[j]
        <4>1. c \in 0 .. Len(w)
          BY <1>1
        <4> QED
          BY <4>1, PrefixFacts, SeqIs, ZenonT(60)
      <3> QED
        BY <3>1, <3>2 DEF IsSeq
    <2>5. InputRow(fb, k)[c] = h \o SubSeq(w, 1, c)
      BY <2>1, <2>2, <2>4 DEF InputRow
    <2> QED
      BY <2>3, <2>5, LongerPrefix
  <1>5. NgramRow(Prepare(fb).ngram[k], h, w)
    BY <1>1, <1>2, <1>3, <1>4, NgramLaid, ZenonT(60)
  <1>6. ConvRow(Prepare(fb).conv[k], h, w)
    BY <1>1, <1>2, <1>3, <1>4, ConvLaid
  <1> QED
    BY <1>5, <1>6

----------------------------------------------------------------------------
(* The inductive invariant                                                 *)

\* The committed tokens of a request.
Past(r) == SubSeq(Text[r], 1, req[r].done)

Shapes ==
    /\ config \in Configs
    /\ state = [s \in Slots |-> state[s]]
    /\ req \in [Reqs -> [done : Int, tracked : Int]]
    /\ \A r \in Reqs : req[r].done \in -1 .. Len(Text[r]) /\ req[r].tracked \in 0 .. Len(Text[r])
    /\ DOMAIN cache \subseteq Seq(Tokens)

\* A track slot not handed over yet holds the state after the tracked prefix.
TrackTrue ==
    \A r \in Reqs : req[r].tracked > 0 =>
        state[TrackSlot(r)] = StateAfter(SubSeq(Text[r], 1, req[r].tracked))

\* The states a verification keeps for row k are those after its drafts.
DraftsTrue(k) ==
    LET r == verify.rows[k]
    IN  /\ r \in Reqs /\ req[r].done \in 0 .. Len(Text[r]) - 1
        /\ \A j \in DOMAIN verify.rows : verify.rows[j] = r => j = k
        /\ verify.fed[k] \in Seq(Tokens) /\ verify.fed[k] # <<>>
        /\ verify.fed[k][1] = Text[r][req[r].done + 1]
        /\ \A i \in 1 .. Len(verify.fed[k]) :
               verify.states[k][i] = StateAfter(Past(r) \o SubSeq(verify.fed[k], 1, i))
VerifyTrue == verify # None => \A k \in DOMAIN verify.rows : DraftsTrue(k)

PleInv == Shapes /\ StateTrue /\ TrackTrue /\ VerifyTrue /\ CacheTrue

LEMMA SlotFacts ==
    ASSUME NEW r \in Reqs, NEW q \in Reqs
    PROVE  /\ Slot(r) \in Slots /\ Slot(r) # 0 /\ TrackSlot(r) \in Slots /\ TrackSlot(r) # 0
           /\ Slot(r) # TrackSlot(q) /\ TrackSlot(q) # Slot(r)
           /\ Slot(r) = Slot(q) => r = q
           /\ TrackSlot(r) = TrackSlot(q) => r = q
  <1>1. NumReqs \in Nat /\ r \in Nat /\ q \in Nat /\ r < NumReqs /\ q < NumReqs
    BY SizeFacts DEF Reqs
  <1> QED
    BY <1>1 DEF Slot, TrackSlot, Slots

LEMMA PastFacts ==
    ASSUME Shapes, NEW r \in Reqs, req[r].done >= 0
    PROVE  /\ Text[r] \in Seq(Tokens) /\ Len(Text[r]) \in Nat /\ req[r].done \in 0 .. Len(Text[r])
           /\ Past(r) \in Seq(Tokens) /\ Len(Past(r)) = req[r].done
  <1>1. Text[r] \in Seq(Tokens) /\ Len(Text[r]) \in Nat
    BY TextAssumption, LenProperties
  <1>2. req[r].done \in -1 .. Len(Text[r])
    BY DEF Shapes
  <1>3. req[r].done \in 0 .. Len(Text[r])
    BY <1>1, <1>2
  <1> QED
    BY <1>1, <1>3, PrefixFacts DEF Past

\* Tokens of the text behind a prefix of it make a longer prefix.
LEMMA Follows ==
    ASSUME NEW t \in Seq(Tokens), NEW d \in 0 .. Len(t), NEW w \in Seq(Tokens), NEW n \in 0 .. Len(w),
           d + n <= Len(t), \A i \in 1 .. n : w[i] = t[d + i]
    PROVE  SubSeq(SubSeq(t, 1, d) \o w, 1, d + n) = SubSeq(t, 1, d + n)
  <1> DEFINE h == SubSeq(t, 1, d)
             a == SubSeq(h \o w, 1, d + n)
             b == SubSeq(t, 1, d + n)
  <1>1. d \in Nat /\ n \in Nat /\ Len(t) \in Nat /\ Len(w) \in Nat /\ n <= Len(w) /\ d + n \in 0 .. Len(t)
    BY LenProperties
  <1>2. h \in Seq(Tokens) /\ Len(h) = d /\ \A x \in 1 .. d : h[x] = t[x]
    BY PrefixFacts
  <1> HIDE DEF h
  <1>3. /\ h \o w \in Seq(Tokens) /\ Len(h \o w) = d + Len(w)
        /\ \A x \in 1 .. d : (h \o w)[x] = h[x]
        /\ \A x \in 1 .. Len(w) : (h \o w)[d + x] = w[x]
    BY <1>2, HistoryFacts, ZenonT(60)
  <1>4. d + n \in 0 .. Len(h \o w)
    BY <1>1, <1>3
  <1>5. a \in Seq(Tokens) /\ Len(a) = d + n /\ \A x \in 1 .. d + n : a[x] = (h \o w)[x]
    BY <1>3, <1>4, PrefixFacts
  <1>6. b \in Seq(Tokens) /\ Len(b) = d + n /\ \A x \in 1 .. d + n : b[x] = t[x]
    BY <1>1, PrefixFacts
  <1> HIDE DEF a, b
  <1>7. ASSUME NEW x \in 1 .. d + n PROVE a[x] = b[x]
    <2>1. CASE x <= d
      <3>1. x \in 1 .. d
        BY <1>1, <2>1
      <3> QED
        BY <1>2, <1>3, <1>5, <1>6, <3>1
    <2>2. CASE x > d
      <3>1. x - d \in 1 .. n /\ x - d \in 1 .. Len(w) /\ d + (x - d) = x
        BY <1>1, <2>2
      <3> QED
        BY <1>3, <1>5, <1>6, <3>1, ZenonT(60)
    <2> QED
      BY <1>1, <2>1, <2>2
  <1>8. IsSeq(a, d + n) /\ IsSeq(b, d + n)
    BY <1>5, <1>6, SeqIs
  <1>9. a = b
    BY <1>7, <1>8, SameSeq
  <1> QED
    BY <1>9 DEF a, b, h

\* The next n tokens of a request.
Chunk(r, n) == SubSeq(Text[r], req[r].done + 1, req[r].done + n)

LEMMA ChunkFacts ==
    ASSUME Shapes, NEW r \in Reqs, req[r].done >= 0, NEW n \in Nat, req[r].done + n <= Len(Text[r])
    PROVE  /\ Chunk(r, n) \in Seq(Tokens) /\ Len(Chunk(r, n)) = n
           /\ \A i \in 1 .. n : Chunk(r, n)[i] = Text[r][req[r].done + i]
  <1> DEFINE d == req[r].done
             t == Text[r]
  <1>1. t \in Seq(Tokens) /\ Len(t) \in Nat /\ d \in Nat
    BY PastFacts
  <1>2. \A i \in d + 1 .. d + n : t[i] \in Tokens
    BY <1>1, LenProperties
  <1> HIDE DEF d, t
  <1>3. d + 1 \in Nat \ {0} /\ d + n \in Nat /\ d + 1 <= (d + n) + 1 /\ (d + n) - (d + 1) + 1 = n
    BY <1>1
  <1>4. Part(Chunk(r, n), t, d + 1, d + n)
    BY <1>3, SubSeqIs DEF Chunk, d, t
  <1>5. IsSeq(Chunk(r, n), n) /\ \A i \in 1 .. n : Chunk(r, n)[i] = t[((d + 1) + i) - 1]
    BY <1>3, <1>4 DEF Part
  <1>6. \A i \in 1 .. n : ((d + 1) + i) - 1 = d + i
    BY <1>1
  <1>7. Chunk(r, n) \in Seq(Tokens)
    <2>1. Chunk(r, n) = [i \in 1 .. n |-> t[d + i]]
      BY <1>5, <1>6 DEF IsSeq
    <2>2. \A i \in 1 .. n : t[d + i] \in Tokens
      BY <1>1, <1>2
    <2> QED
      BY <2>1, <2>2
  <1> QED
    BY <1>5, <1>6, <1>7, SeqFacts DEF d, t

\* Row k feeds w to the state of its request.
Reading(fb, k, w) ==
    /\ w \in Seq(Tokens) /\ Feeds(fb, k, w)
    /\ fb.located[k] /\ fb.rows[k] \in Running
    /\ StateIndex(fb, k) = Slot(fb.rows[k])

LEMMA ReadTrue ==
    ASSUME Shapes, StateTrue, NEW fb, NEW k, NEW w, Reading(fb, k, w)
    PROVE  /\ NgramRow(Prepare(fb).ngram[k], Past(fb.rows[k]), w)
           /\ ConvRow(Prepare(fb).conv[k], Past(fb.rows[k]), w)
  <1> DEFINE r == fb.rows[k]
  <1>1. r \in Reqs /\ req[r].done >= 0 /\ state[Slot(r)] = StateAfter(Past(r))
    BY DEF Reading, Running, StateTrue, Past
  <1>2. Past(r) \in Seq(Tokens) /\ Past(r) = SubSeq(Text[r], 1, req[r].done)
    BY <1>1, PastFacts DEF Past
  <1>3. state[StateIndex(fb, k)] = StateAfter(Past(r))
    BY <1>1 DEF Reading
  <1> QED
    BY <1>2, <1>3, Prepared DEF Reading

LEMMA GatherTrue ==
    ASSUME Shapes, StateTrue, NEW fb, NEW k, NEW w, Reading(fb, k, w), NEW n \in 0 .. Len(w)
    PROVE  GatherAt(Prepare(fb), k, n)
             = StateAfter(SubSeq(Past(fb.rows[k]) \o w, 1, req[fb.rows[k]].done + n))
  <1> DEFINE r == fb.rows[k]
  <1>1. r \in Reqs /\ req[r].done >= 0 /\ w \in Seq(Tokens)
    BY DEF Reading, Running
  <1>2. Past(r) \in Seq(Tokens) /\ Len(Past(r)) = req[r].done
    BY <1>1, PastFacts
  <1>3. NgramRow(Prepare(fb).ngram[k], Past(r), w) /\ ConvRow(Prepare(fb).conv[k], Past(r), w)
    BY ReadTrue
  <1> QED
    BY <1>1, <1>2, <1>3, Gathered, ZenonT(60) DEF GatherAt

\* After n tokens of the text, a row holds the state of the longer prefix.
LEMMA ChunkGathered ==
    ASSUME Shapes, StateTrue, NEW fb, NEW k, NEW w, Reading(fb, k, w), NEW n \in 0 .. Len(w),
           req[fb.rows[k]].done + n <= Len(Text[fb.rows[k]]),
           \A i \in 1 .. n : w[i] = Text[fb.rows[k]][req[fb.rows[k]].done + i]
    PROVE  GatherAt(Prepare(fb), k, n) = StateAfter(SubSeq(Text[fb.rows[k]], 1, req[fb.rows[k]].done + n))
  <1> DEFINE r == fb.rows[k]
  <1>1. r \in Reqs /\ req[r].done >= 0 /\ w \in Seq(Tokens)
    BY DEF Reading, Running
  <1>2. Text[r] \in Seq(Tokens) /\ req[r].done \in 0 .. Len(Text[r])
    BY <1>1, PastFacts, SMTT(60)
  <1>3. SubSeq(Past(r) \o w, 1, req[r].done + n) = SubSeq(Text[r], 1, req[r].done + n)
    BY <1>1, <1>2, Follows DEF Past
  <1>4. GatherAt(Prepare(fb), k, n) = StateAfter(SubSeq(Past(r) \o w, 1, req[r].done + n))
    BY GatherTrue
  <1> QED
    BY <1>3, <1>4

----------------------------------------------------------------------------
(* Commit                                                                  *)

\* Row k moves its request on by n tokens of its text; its snapshot, if it has
\* one, is taken m tokens into them.
Moves(fb, k, n, m) ==
    /\ n \in Nat /\ req[fb.rows[k]].done + n <= Len(Text[fb.rows[k]])
    /\ Reading(fb, k, Chunk(fb.rows[k], n))
    /\ FastPath(fb) => RowWidth(fb) = n
    /\ fb.track[k] => m \in 0 .. n /\ TrackOffset(fb, Prepare(fb), k) = m

\* Row k writes nothing that is kept.
Silent(fb, k) == StateIndex(fb, k) = 0 /\ ~fb.track[k]

\* A forward that moves the requests in rows, and nothing else.
Serves(fb, rows, lens, mask, aligned) ==
    /\ DOMAIN rows \subseteq DOMAIN Lengths(fb)
    /\ \A k \in DOMAIN rows :
          /\ rows[k] \in Running /\ fb.rows[k] = rows[k]
          /\ \A j \in DOMAIN rows : rows[j] = rows[k] => j = k
          /\ mask[k] \in BOOLEAN /\ fb.track[k] = mask[k]
    /\ \A k \in DOMAIN Lengths(fb) :
          \/ k \in DOMAIN rows /\ Moves(fb, k, lens[k], aligned[k])
          \/ k \in DOMAIN rows /\ lens[k] = 0 /\ Silent(fb, k)
          \/ k \notin DOMAIN rows /\ Silent(fb, k)

LEMMA PrepareShape ==
    ASSUME NEW fb
    PROVE  /\ DOMAIN Prepare(fb).lens = DOMAIN Lengths(fb) /\ Prepare(fb).lens = Lengths(fb)
           /\ \A k \in DOMAIN Lengths(fb) : Prepare(fb).slots[k] = StateIndex(fb, k)
  BY DEF Prepare

\* What a row that moves writes to the slot of its request.
LEMMA Advanced ==
    ASSUME Shapes, StateTrue, NEW fb, NEW k, NEW n, NEW m, Moves(fb, k, n, m)
    PROVE  NextState(fb, Prepare(fb), k)
             = StateAfter(SubSeq(Text[fb.rows[k]], 1, req[fb.rows[k]].done + n))
  <1> DEFINE r == fb.rows[k]
             w == Chunk(r, n)
  <1>1. r \in Reqs /\ req[r].done >= 0 /\ n \in Nat /\ req[r].done + n <= Len(Text[r])
    BY DEF Moves, Reading, Running
  <1>2. w \in Seq(Tokens) /\ Len(w) = n /\ \A i \in 1 .. n : w[i] = Text[r][req[r].done + i]
    BY <1>1, ChunkFacts
  <1>3. Reading(fb, k, w)
    BY DEF Moves
  <1>4. Prepare(fb).lens[k] = n
    BY <1>2, <1>3, PrepareShape DEF Reading, Feeds
  <1>5. NextState(fb, Prepare(fb), k) = GatherAt(Prepare(fb), k, n)
    BY <1>4 DEF NextState, Moves
  <1> HIDE DEF w
  <1>6. n \in 0 .. Len(w)
    BY <1>1, <1>2
  <1>7. GatherAt(Prepare(fb), k, n) = StateAfter(SubSeq(Text[r], 1, req[r].done + n))
    BY <1>1, <1>2, <1>3, <1>6, ChunkGathered
  <1> QED
    BY <1>5, <1>7

\* What it writes to the track slot.
LEMMA Snapped ==
    ASSUME Shapes, StateTrue, NEW fb, NEW k, NEW n, NEW m, Moves(fb, k, n, m), fb.track[k]
    PROVE  /\ GatherAt(Prepare(fb), k, TrackOffset(fb, Prepare(fb), k))
                = StateAfter(SubSeq(Text[fb.rows[k]], 1, req[fb.rows[k]].done + m))
           /\ req[fb.rows[k]].done + m \in 0 .. Len(Text[fb.rows[k]])
  <1> DEFINE r == fb.rows[k]
             w == Chunk(r, n)
  <1>1. r \in Reqs /\ req[r].done >= 0 /\ n \in Nat /\ req[r].done + n <= Len(Text[r])
    BY DEF Moves, Reading, Running
  <1>2. w \in Seq(Tokens) /\ Len(w) = n /\ \A i \in 1 .. n : w[i] = Text[r][req[r].done + i]
    BY <1>1, ChunkFacts
  <1>3. Reading(fb, k, w)
    BY DEF Moves
  <1>4. m \in 0 .. n /\ TrackOffset(fb, Prepare(fb), k) = m
    BY DEF Moves
  <1> HIDE DEF w
  <1>5. req[r].done \in 0 .. Len(Text[r]) /\ Len(Text[r]) \in Nat
    BY <1>1, PastFacts
  <1>6. m \in 0 .. Len(w) /\ req[r].done + m \in 0 .. Len(Text[r]) /\ req[r].done + m <= Len(Text[r])
    BY <1>1, <1>2, <1>4, <1>5, SMTT(60)
  <1>7. \A i \in 1 .. m : w[i] = Text[r][req[r].done + i]
    BY <1>1, <1>2, <1>4
  <1>8. GatherAt(Prepare(fb), k, m) = StateAfter(SubSeq(Text[r], 1, req[r].done + m))
    BY <1>3, <1>6, <1>7, ChunkGathered, SMTT(60)
  <1> QED
    BY <1>4, <1>6, <1>8

\* The slot and the track slot of r after a commit.
LEMMA Committed ==
    ASSUME Shapes, StateTrue, TrackTrue, NEW fb, NEW rows, NEW lens, NEW mask, NEW aligned,
           Serves(fb, rows, lens, mask, aligned), Commit(fb, Prepare(fb)),
           Advance(rows, lens, mask, aligned), NEW r \in Reqs
    PROVE  /\ req'[r] = [done |-> req'[r].done, tracked |-> req'[r].tracked]
           /\ req'[r].done \in -1 .. Len(Text[r]) /\ req'[r].tracked \in 0 .. Len(Text[r])
           /\ req'[r].done >= 0 => state'[Slot(r)] = StateAfter(SubSeq(Text[r], 1, req'[r].done))
           /\ req'[r].tracked > 0 => state'[TrackSlot(r)] = StateAfter(SubSeq(Text[r], 1, req'[r].tracked))
  <1> DEFINE b == Prepare(fb)
             K == DOMAIN Lengths(fb)
             Q == DOMAIN rows
  <1>1. /\ DOMAIN b.lens = K /\ \A k \in K : b.slots[k] = StateIndex(fb, k)
    BY PrepareShape
  <1>2. /\ Slot(r) \in Slots /\ Slot(r) # 0 /\ TrackSlot(r) \in Slots /\ TrackSlot(r) # 0
        /\ \A q \in Reqs : /\ Slot(q) # TrackSlot(r) /\ TrackSlot(q) # Slot(r)
                           /\ Slot(q) = Slot(r) => q = r
                           /\ TrackSlot(q) = TrackSlot(r) => q = r
    BY SlotFacts
  <1>3. \A k \in K :
          \/ k \in Q /\ rows[k] \in Reqs /\ fb.rows[k] = rows[k] /\ Moves(fb, k, lens[k], aligned[k])
             /\ b.slots[k] = Slot(rows[k])
          \/ k \in Q /\ lens[k] = 0 /\ b.slots[k] = 0 /\ ~fb.track[k]
          \/ k \notin Q /\ b.slots[k] = 0 /\ ~fb.track[k]
    BY <1>1 DEF Serves, Silent, Moves, Reading, Running
  <1>4. \A k \in Q : /\ k \in K /\ rows[k] \in Reqs /\ req[rows[k]].done >= 0 /\ fb.rows[k] = rows[k]
                     /\ fb.track[k] = mask[k] /\ mask[k] \in BOOLEAN
                     /\ \A j \in Q : rows[j] = rows[k] => j = k
    BY DEF Serves, Running
  <1>5. /\ req[r].done \in -1 .. Len(Text[r]) /\ req[r].tracked \in 0 .. Len(Text[r])
        /\ req[r] \in [done : Int, tracked : Int] /\ Len(Text[r]) \in Nat
    BY TextAssumption, LenProperties DEF Shapes
  <1>6. \A k \in K : TrackIndex(fb, k) = IF fb.track[k] THEN TrackSlot(fb.rows[k]) ELSE 0
    BY DEF TrackIndex
  <1>7. \A s \in Slots : state'[s] =
          IF s = 0 THEN Dummy
          ELSE IF \E k \in K : TrackIndex(fb, k) = s
               THEN GatherAt(b, CHOOSE k \in K : TrackIndex(fb, k) = s,
                             TrackOffset(fb, b, CHOOSE k \in K : TrackIndex(fb, k) = s))
          ELSE IF \E k \in K : b.slots[k] = s
               THEN NextState(fb, b, CHOOSE k \in K : b.slots[k] = s)
          ELSE state[s]
    BY <1>1 DEF Commit
  <1>8. req'[r] =
          IF \E k \in Q : rows[k] = r
          THEN [done |-> req[r].done + lens[CHOOSE k \in Q : rows[k] = r],
                tracked |-> IF mask[CHOOSE k \in Q : rows[k] = r]
                            THEN req[r].done + aligned[CHOOSE k \in Q : rows[k] = r] ELSE req[r].tracked]
          ELSE req[r]
    BY DEF Advance
  <1> HIDE DEF b, K, Q
  <1>9. \A k \in K : TrackIndex(fb, k) # Slot(r)
    BY <1>2, <1>3, <1>4, <1>6
  <1>10. \A k \in K : b.slots[k] # TrackSlot(r)
    BY <1>2, <1>3, <1>4
  <1>11. CASE ~ \E k \in Q : rows[k] = r
    <2>1. req'[r] = req[r]
      BY <1>8, <1>11
    <2>2. \A k \in K : b.slots[k] # Slot(r)
      BY <1>2, <1>3, <1>11
    <2>3. \A k \in K : TrackIndex(fb, k) # TrackSlot(r)
      BY <1>2, <1>3, <1>4, <1>6, <1>11
    <2>4. state'[Slot(r)] = state[Slot(r)] /\ state'[TrackSlot(r)] = state[TrackSlot(r)]
      BY <1>2, <1>7, <1>9, <1>10, <2>2, <2>3
    <2> QED
      BY <1>5, <2>1, <2>4 DEF StateTrue, TrackTrue, Running
  <1>12. ASSUME NEW k \in Q, rows[k] = r PROVE
           /\ req'[r] = [done |-> req'[r].done, tracked |-> req'[r].tracked]
           /\ req'[r].done \in -1 .. Len(Text[r]) /\ req'[r].tracked \in 0 .. Len(Text[r])
           /\ req'[r].done >= 0 => state'[Slot(r)] = StateAfter(SubSeq(Text[r], 1, req'[r].done))
           /\ req'[r].tracked > 0 => state'[TrackSlot(r)] = StateAfter(SubSeq(Text[r], 1, req'[r].tracked))
    <2>1. k \in K /\ fb.rows[k] = r /\ fb.track[k] = mask[k] /\ mask[k] \in BOOLEAN /\ req[r].done >= 0
      BY <1>4, <1>12
    <2>2. \A j \in Q : rows[j] = r => j = k
      BY <1>4, <1>12
    <2>3. (CHOOSE j \in Q : rows[j] = r) = k
      BY <1>12, <2>2
    <2>4. req'[r] = [done |-> req[r].done + lens[k],
                     tracked |-> IF mask[k] THEN req[r].done + aligned[k] ELSE req[r].tracked]
      BY <1>8, <1>12, <2>3
    <2>5. \A j \in K : j # k => b.slots[j] # Slot(r) /\ TrackIndex(fb, j) # TrackSlot(r)
      BY <1>2, <1>3, <1>4, <1>6, <2>2
    <2>6. CASE Moves(fb, k, lens[k], aligned[k]) /\ b.slots[k] = Slot(r)
      <3>1. (CHOOSE j \in K : b.slots[j] = Slot(r)) = k
        BY <2>1, <2>5, <2>6
      <3>2. state'[Slot(r)] = NextState(fb, b, k)
        BY <1>2, <1>7, <1>9, <2>1, <2>6, <3>1
      <3>3. NextState(fb, b, k) = StateAfter(SubSeq(Text[r], 1, req[r].done + lens[k]))
        BY <2>1, <2>6, Advanced DEF b
      <3>4. req[r].done + lens[k] \in 0 .. Len(Text[r])
        BY <1>5, <2>1, <2>6 DEF Moves
      <3>5. CASE mask[k]
        <4>1. TrackIndex(fb, k) = TrackSlot(r)
          BY <1>6, <2>1, <3>5
        <4>2. (CHOOSE j \in K : TrackIndex(fb, j) = TrackSlot(r)) = k
          BY <2>1, <2>5, <4>1
        <4>3. state'[TrackSlot(r)] = GatherAt(b, k, TrackOffset(fb, b, k))
          BY <1>2, <1>7, <2>1, <4>1, <4>2
        <4>4. /\ GatherAt(b, k, TrackOffset(fb, b, k)) = StateAfter(SubSeq(Text[r], 1, req[r].done + aligned[k]))
              /\ req[r].done + aligned[k] \in 0 .. Len(Text[r])
          BY <2>1, <2>6, <3>5, Snapped, ZenonT(60) DEF b
        <4> QED
          BY <1>5, <2>4, <3>2, <3>3, <3>4, <3>5, <4>3, <4>4
      <3>6. CASE ~mask[k]
        <4>1. TrackIndex(fb, k) = 0
          BY <1>6, <2>1, <3>6
        <4>2. \A j \in K : TrackIndex(fb, j) # TrackSlot(r)
          BY <1>2, <2>5, <4>1
        <4>3. state'[TrackSlot(r)] = state[TrackSlot(r)]
          BY <1>2, <1>7, <1>10, <4>2
        <4> QED
          BY <1>5, <2>4, <3>2, <3>3, <3>4, <3>6, <4>3 DEF TrackTrue
      <3> QED
        BY <2>1, <3>5, <3>6
    <2>7. CASE lens[k] = 0 /\ b.slots[k] = 0 /\ ~fb.track[k]
      <3>1. req'[r].done = req[r].done /\ req'[r].tracked = req[r].tracked
        BY <1>5, <2>1, <2>4, <2>7
      <3>2. TrackIndex(fb, k) = 0
        BY <1>6, <2>1, <2>7
      <3>3. \A j \in K : b.slots[j] # Slot(r) /\ TrackIndex(fb, j) # TrackSlot(r)
        BY <1>2, <2>5, <2>7, <3>2
      <3>4. state'[Slot(r)] = state[Slot(r)] /\ state'[TrackSlot(r)] = state[TrackSlot(r)]
        BY <1>2, <1>7, <1>9, <1>10, <3>3
      <3> QED
        BY <1>5, <2>4, <3>1, <3>4 DEF StateTrue, TrackTrue, Running
    <2> QED
      BY <1>3, <1>12, <2>1, <2>6, <2>7
  <1> QED
    BY <1>11, <1>12

LEMMA CommitKeeps ==
    ASSUME PleInv, verify = None, NEW fb, NEW rows, NEW lens, NEW mask, NEW aligned,
           Serves(fb, rows, lens, mask, aligned), Commit(fb, Prepare(fb)),
           Advance(rows, lens, mask, aligned), UNCHANGED <<config, verify, cache>>
    PROVE  PleInv'
  <1>1. Shapes /\ StateTrue /\ TrackTrue /\ CacheTrue
    BY DEF PleInv
  <1>2. ASSUME NEW r \in Reqs
        PROVE  /\ req'[r] = [done |-> req'[r].done, tracked |-> req'[r].tracked]
               /\ req'[r].done \in -1 .. Len(Text[r]) /\ req'[r].tracked \in 0 .. Len(Text[r])
               /\ req'[r].done >= 0 => state'[Slot(r)] = StateAfter(SubSeq(Text[r], 1, req'[r].done))
               /\ req'[r].tracked > 0 =>
                    state'[TrackSlot(r)] = StateAfter(SubSeq(Text[r], 1, req'[r].tracked))
    BY <1>1, Committed
  <1>3. req' \in [Reqs -> [done : Int, tracked : Int]]
    <2>1. req' = [r \in Reqs |-> req'[r]]
      BY DEF Advance
    <2>2. ASSUME NEW r \in Reqs PROVE req'[r] \in [done : Int, tracked : Int]
      <3>1. Len(Text[r]) \in Nat
        BY TextAssumption, LenProperties
      <3>2. req'[r].done \in -1 .. Len(Text[r]) /\ req'[r].tracked \in 0 .. Len(Text[r])
        BY <1>2
      <3>3. req'[r].done \in Int /\ req'[r].tracked \in Int
        BY <3>1, <3>2
      <3>4. [done |-> req'[r].done, tracked |-> req'[r].tracked] \in [done : Int, tracked : Int]
        BY <3>3
      <3>5. req'[r] = [done |-> req'[r].done, tracked |-> req'[r].tracked]
        BY <1>2
      <3> QED
        BY <3>4, <3>5
    <2> QED
      BY <2>1, <2>2
  <1>4. state' = [s \in Slots |-> state'[s]]
    BY DEF Commit
  <1>5. Shapes'
    BY <1>1, <1>2, <1>3, <1>4 DEF Shapes
  <1>6. StateTrue' /\ TrackTrue'
    BY <1>2 DEF StateTrue, TrackTrue, Running
  <1>7. CacheTrue' /\ VerifyTrue'
    BY <1>1 DEF CacheTrue, VerifyTrue
  <1> QED
    BY <1>5, <1>6, <1>7 DEF PleInv

\* A forward whose located rows read true states looks up what is true.
LEMMA LookUpTrue ==
    ASSUME Shapes, StateTrue, NEW fb, RowWidth(fb) \in Nat,
           \A k \in DOMAIN Lengths(fb) : fb.located[k] =>
               \/ Lengths(fb)[k] = 0
               \/ \E w : Reading(fb, k, w),
           NEW l \in LookUp(fb, Prepare(fb))
    PROVE  LooksTrue(l)
  <1> DEFINE b == Prepare(fb)
  <1>1. PICK k \in DOMAIN b.lens : /\ fb.located[k]
                                   /\ l \in {Looked(b, k, o) : o \in {o \in 0 .. RowWidth(fb) - 1 : o < b.lens[k]}}
    BY DEF LookUp
  <1>2. k \in DOMAIN Lengths(fb) /\ b.lens[k] = Lengths(fb)[k]
    BY <1>1, PrepareShape
  <1>3. PICK o \in 0 .. RowWidth(fb) - 1 : o < b.lens[k] /\ l = Looked(b, k, o)
    BY <1>1
  <1>4. Lengths(fb)[k] # 0
    BY <1>2, <1>3
  <1>5. PICK w : Reading(fb, k, w)
    BY <1>1, <1>2, <1>4
  <1>6. w \in Seq(Tokens) /\ Lengths(fb)[k] = Len(w) /\ Len(w) \in Nat
    BY <1>5, LenProperties DEF Reading, Feeds
  <1>7. o \in 0 .. Len(w) - 1
    BY <1>2, <1>3, <1>6
  <1>8. fb.rows[k] \in Reqs /\ req[fb.rows[k]].done >= 0
    BY <1>5 DEF Reading, Running
  <1>9. Past(fb.rows[k]) \in Seq(Tokens)
    BY <1>8, PastFacts
  <1>10. NgramRow(b.ngram[k], Past(fb.rows[k]), w) /\ ConvRow(b.conv[k], Past(fb.rows[k]), w)
    BY <1>5, ReadTrue
  <1> HIDE DEF b
  <1>11. LooksTrue(Looked(b, k, o))
    BY <1>6, <1>7, <1>9, <1>10, RowLooksTrue
  <1> QED
    BY <1>3, <1>11

----------------------------------------------------------------------------
(* Prefill                                                                 *)

LEMMA AlignedBound ==
    ASSUME Shapes, NEW r \in Reqs, req[r].done >= 0, NEW n \in Nat
    PROVE  Aligned(r, n) \in Int /\ Aligned(r, n) <= n
  <1> DEFINE x == req[r].done + n
             q == x \div Interval
             y == q * Interval
  <1>1. req[r].done \in Nat
    BY PastFacts, LenProperties
  <1>2. x \in Nat
    BY <1>1
  <1>3. Interval \in Nat \ {0}
    BY SizeFacts
  <1>4. q \in Nat /\ x % Interval \in 0 .. Interval - 1 /\ x = Interval * q + (x % Interval)
    <2> HIDE DEF x
    <2> QED
      BY <1>2, <1>3, DivMod
  <1>5. y \in Nat /\ y = Interval * q
    <2> HIDE DEF q
    <2> QED
      BY <1>3, <1>4, SMT
  <1>6. y <= x
    <2> HIDE DEF y, x, q
    <2>1. x % Interval >= 0 /\ x % Interval \in Int /\ Interval * q \in Nat
      BY <1>3, <1>4, <1>5
    <2> QED
      BY <1>2, <1>4, <1>5, <2>1
  <1>7. Aligned(r, n) = y - req[r].done
    BY DEF Aligned
  <1> HIDE DEF y, q
  <1> QED
    BY <1>1, <1>5, <1>6, <1>7

\* The marks of a prefill and the batch it makes.
Bounds(rows, lens) == [k \in DOMAIN rows |-> Aligned(rows[k], lens[k])]
Marks(rows, lens) == [k \in DOMAIN rows |-> Bounds(rows, lens)[k] > 0]
Chunks(rows, lens) == [k \in DOMAIN rows |-> Chunk(rows[k], lens[k])]
ExtendBatch(rows, lens, pad) ==
    [mode |-> "extend", rows |-> rows, lens |-> lens,
     ids |-> FlattenSeq(Chunks(rows, lens)) \o Pad(pad), nonPadded |-> Total(lens),
     located |-> [k \in DOMAIN rows |-> TRUE],
     track |-> Marks(rows, lens), aligned |-> Bounds(rows, lens)]

\* Requests in rows take their chunks of lens, within their prompts.
Chunked(rows, lens) ==
    /\ rows = [k \in 1 .. Len(rows) |-> rows[k]] /\ Len(rows) \in Nat
    /\ lens \in Seq(Nat) /\ Len(lens) = Len(rows)
    /\ \A k \in 1 .. Len(rows) :
          /\ rows[k] \in Prefilling
          /\ \A j \in 1 .. Len(rows) : rows[j] = rows[k] => j = k
          /\ lens[k] <= MaxChunk /\ lens[k] <= PromptLen[rows[k]] - req[rows[k]].done
    /\ \E k \in 1 .. Len(rows) : lens[k] > 0

LEMMA ExtendShape ==
    ASSUME NEW rows, NEW lens, NEW pad, Chunked(rows, lens)
    PROVE  LET fb == ExtendBatch(rows, lens, pad)
           IN  /\ fb.mode = "extend" /\ fb.rows = rows /\ fb.lens = lens
               /\ fb.ids = FlattenSeq(Chunks(rows, lens)) \o Pad(pad)
               /\ fb.nonPadded = Total(lens)
               /\ \A k \in 1 .. Len(rows) : /\ fb.located[k] /\ fb.aligned[k] = Aligned(rows[k], lens[k])
                                            /\ fb.track[k] = (Aligned(rows[k], lens[k]) > 0)
                                            /\ fb.track[k] = Marks(rows, lens)[k]
                                            /\ Bounds(rows, lens)[k] = Aligned(rows[k], lens[k])
               /\ Lengths(fb) = lens /\ DOMAIN Lengths(fb) = 1 .. Len(rows) /\ DOMAIN rows = 1 .. Len(rows)
               /\ ~FastPath(fb)
  <1> DEFINE fb == ExtendBatch(rows, lens, pad)
  <1>1. /\ fb.mode = "extend" /\ fb.rows = rows /\ fb.lens = lens
        /\ fb.ids = FlattenSeq(Chunks(rows, lens)) \o Pad(pad)
        /\ fb.nonPadded = Total(lens)
        /\ fb.located = [k \in DOMAIN rows |-> TRUE]
        /\ fb.track = Marks(rows, lens) /\ fb.aligned = Bounds(rows, lens)
    BY DEF ExtendBatch
  <1> HIDE DEF fb
  <1>2. DOMAIN rows = 1 .. Len(rows)
    BY DEF Chunked
  <1>3. \A k \in 1 .. Len(rows) : /\ fb.located[k] /\ fb.aligned[k] = Aligned(rows[k], lens[k])
                                  /\ fb.track[k] = (Aligned(rows[k], lens[k]) > 0)
                                  /\ fb.track[k] = Marks(rows, lens)[k]
                                  /\ Bounds(rows, lens)[k] = Aligned(rows[k], lens[k])
    BY <1>1, <1>2 DEF Marks, Bounds
  <1>4. Lengths(fb) = lens
    BY <1>1 DEF Lengths
  <1>5. DOMAIN lens = 1 .. Len(rows)
    BY LenProperties DEF Chunked
  <1>6. ~FastPath(fb)
    BY <1>1 DEF FastPath
  <1> QED
    BY <1>1, <1>2, <1>3, <1>4, <1>5, <1>6 DEF fb

LEMMA ChunkedFacts ==
    ASSUME Shapes, NEW rows, NEW lens, Chunked(rows, lens), NEW k \in 1 .. Len(rows)
    PROVE  /\ rows[k] \in Reqs /\ rows[k] \in Running /\ req[rows[k]].done >= 0 /\ req[rows[k]].done \in Nat
           /\ lens[k] \in Nat /\ req[rows[k]].done + lens[k] <= Len(Text[rows[k]])
           /\ Chunk(rows[k], lens[k]) \in Seq(Tokens) /\ Len(Chunk(rows[k], lens[k])) = lens[k]
           /\ Aligned(rows[k], lens[k]) \in Int /\ Aligned(rows[k], lens[k]) <= lens[k]
  <1> DEFINE r == rows[k]
  <1>1. r \in Reqs /\ r \in Running /\ req[r].done >= 0
    BY DEF Chunked, Prefilling, Running
  <1>2. req[r].done \in Nat /\ Len(Text[r]) \in Nat /\ PromptLen[r] \in 1 .. Len(Text[r])
    BY <1>1, PastFacts, TextAssumption, LenProperties
  <1>3. lens[k] \in Nat /\ lens[k] <= PromptLen[r] - req[r].done
    BY LenProperties DEF Chunked
  <1> HIDE DEF r
  <1>4. req[r].done + lens[k] <= Len(Text[r])
    BY <1>2, <1>3
  <1>5. Chunk(r, lens[k]) \in Seq(Tokens) /\ Len(Chunk(r, lens[k])) = lens[k]
    BY <1>1, <1>3, <1>4, ChunkFacts
  <1>6. Aligned(r, lens[k]) \in Int /\ Aligned(r, lens[k]) <= lens[k]
    BY <1>1, <1>3, AlignedBound
  <1> QED
    BY <1>1, <1>2, <1>3, <1>4, <1>5, <1>6 DEF r

\* The tokens a prefill is laid out from, and how many of them it processes.
LEMMA ExtendSize ==
    ASSUME Shapes, NEW rows, NEW lens, NEW pad \in 0 .. 1, Chunked(rows, lens)
    PROVE  LET fb == ExtendBatch(rows, lens, pad)
           IN  /\ Total(lens) \in Nat
               /\ Processed(fb) \in Nat /\ Total(lens) <= Processed(fb)
               /\ \A k \in 1 .. Len(rows) : \A i \in 1 .. lens[k] :
                     fb.ids[QueryStartLoc(lens)[k - 1] + i] = Chunk(rows[k], lens[k])[i]
  <1> DEFINE fb == ExtendBatch(rows, lens, pad)
             n == Len(rows)
             f == FlattenSeq(Chunks(rows, lens))
             s == QueryStartLoc(lens)
             t == Total(lens)
  <1>1. /\ fb.mode = "extend" /\ fb.lens = lens /\ fb.ids = f \o Pad(pad) /\ fb.nonPadded = t
        /\ DOMAIN rows = 1 .. n
    BY ExtendShape
  <1>2. lens \in Seq(Nat) /\ Len(lens) = n /\ n \in Nat
    BY DEF Chunked
  <1>3. /\ s[0] = 0 /\ \A k \in 0 .. n : s[k] \in Nat
        /\ \A k \in 1 .. n : s[k] = s[k - 1] + lens[k] /\ lens[k] \in Nat
        /\ t = s[n]
    BY <1>2, QueryStart, LenProperties, ZenonT(60) DEF Total
  <1>4. IsSeq(Chunks(rows, lens), n) /\ \A k \in 1 .. n : Chunks(rows, lens)[k] = Chunk(rows[k], lens[k])
    BY <1>1, <1>2 DEF Chunks, IsSeq
  <1>5. \A k \in 1 .. n : IsSeq(Chunks(rows, lens)[k], lens[k])
    <2> SUFFICES ASSUME NEW k \in 1 .. n PROVE IsSeq(Chunks(rows, lens)[k], lens[k])
      OBVIOUS
    <2>1. Chunk(rows[k], lens[k]) \in Seq(Tokens) /\ Len(Chunk(rows[k], lens[k])) = lens[k]
      BY ChunkedFacts
    <2>2. IsSeq(Chunk(rows[k], lens[k]), lens[k])
      BY <2>1, SeqIs
    <2> QED
      BY <1>4, <2>2
  <1>6. /\ IsSeq(f, t)
        /\ \A k \in 1 .. n : \A i \in 1 .. lens[k] : f[s[k - 1] + i] = Chunks(rows, lens)[k][i]
    BY <1>2, <1>4, <1>5, Flattened
  <1>7. IsSeq(Pad(pad), pad)
    BY DEF Pad, IsSeq
  <1> HIDE DEF fb, f, s, t, n
  <1>8. Joined(fb.ids, f, t, Pad(pad), pad)
    BY <1>1, <1>6, <1>7, ConcatIs
  <1>9. t \in Nat /\ IsSeq(fb.ids, t + pad)
    BY <1>2, <1>3, <1>8 DEF Joined
  <1>10. Len(fb.ids) = t + pad
    BY <1>9, SeqFacts
  <1>11. Processed(fb) \in {t, t + pad}
    BY <1>1, <1>10 DEF Processed, t
  <1>12. Processed(fb) \in Nat /\ t <= Processed(fb)
    BY <1>9, <1>11
  <1>13. ASSUME NEW k \in 1 .. n, NEW i \in 1 .. lens[k]
         PROVE  fb.ids[s[k - 1] + i] = Chunk(rows[k], lens[k])[i]
    <2>1. k - 1 \in 0 .. n /\ k \in 0 .. n /\ k \in 0 .. Len(lens) /\ n \in k .. Len(lens)
      BY <1>2
    <2>2. s[k] <= s[n]
      BY <1>2, <2>1, StartMonotone DEF s
    <2>3. s[k - 1] \in Nat /\ s[k] = s[k - 1] + lens[k] /\ lens[k] \in Nat /\ s[n] = t
      BY <1>3, <2>1
    <2>4. s[k - 1] + i \in 1 .. t
      BY <1>9, <2>2, <2>3
    <2>5. fb.ids[s[k - 1] + i] = f[s[k - 1] + i]
      BY <1>8, <2>4 DEF Joined
    <2> QED
      BY <1>4, <1>6, <2>5
  <1> QED
    BY <1>9, <1>12, <1>13 DEF fb, s, t, n

LEMMA ExtendWidth ==
    ASSUME Shapes, NEW rows, NEW lens, NEW pad \in 0 .. 1, Chunked(rows, lens)
    PROVE  LET fb == ExtendBatch(rows, lens, pad)
           IN  RowWidth(fb) \in Nat /\ \A k \in 1 .. Len(rows) : lens[k] <= RowWidth(fb)
  <1> DEFINE fb == ExtendBatch(rows, lens, pad)
             n == Len(rows)
             S == {lens[k] : k \in 1 .. n}
             s == QueryStartLoc(lens)
  <1>1. fb.mode = "extend" /\ fb.lens = lens /\ DOMAIN lens = 1 .. n
    <2>1. fb.mode = "extend" /\ fb.lens = lens
      BY ExtendShape
    <2>2. DOMAIN lens = 1 .. n
      BY LenProperties DEF Chunked
    <2> QED
      BY <2>1, <2>2
  <1>2. lens \in Seq(Nat) /\ Len(lens) = n /\ n \in Nat /\ \A k \in 1 .. n : lens[k] \in Nat
    BY LenProperties DEF Chunked
  <1> HIDE DEF fb
  <1>3. RowWidth(fb) = IF config.cpuLens THEN Max(S) ELSE Processed(fb)
    <2>1. {fb.lens[k] : k \in DOMAIN fb.lens} = S
      BY <1>1
    <2> HIDE DEF S
    <2> QED
      BY <1>1, <2>1 DEF RowWidth
  <1>4. MaxChunk \in Nat
    BY SizeFacts
  <1>5. S \subseteq 0 .. MaxChunk /\ S # {}
    BY <1>2, <1>4 DEF Chunked
  <1> HIDE DEF S
  <1>6. Max(S) \in S /\ \A x \in S : x <= Max(S)
    BY <1>4, <1>5, MaxOf
  <1>7. CASE config.cpuLens
    <2>1. RowWidth(fb) = Max(S) /\ Max(S) \in Nat
      <3>1. Max(S) \in 0 .. MaxChunk
        BY <1>5, <1>6
      <3>2. Max(S) \in Nat
        BY <1>4, <3>1
      <3> QED
        BY <1>3, <1>7, <3>2
    <2>2. \A k \in 1 .. n : lens[k] \in S
      BY DEF S
    <2> QED
      BY <1>6, <2>1, <2>2 DEF fb
  <1>8. CASE ~config.cpuLens
    <2>1. RowWidth(fb) = Processed(fb) /\ Processed(fb) \in Nat /\ Total(lens) \in Nat /\ Total(lens) <= Processed(fb)
      BY <1>3, <1>8, ExtendSize DEF fb
    <2>2. ASSUME NEW k \in 1 .. n PROVE lens[k] <= Total(lens)
      <3>1. k \in 0 .. Len(lens) /\ n \in k .. Len(lens) /\ k - 1 \in 0 .. Len(lens) /\ n \in 0 .. Len(lens)
        BY <1>2
      <3>2. s[k] <= s[n]
        BY <1>2, <3>1, StartMonotone
      <3>3. s[k] = s[k - 1] + lens[k] /\ s[k - 1] \in Nat /\ s[n] = Total(lens)
        BY <1>2, <3>1, QueryStart DEF Total
      <3> QED
        BY <1>2, <2>1, <3>2, <3>3
    <2> QED
      BY <1>2, <2>1, <2>2 DEF fb
  <1> QED
    BY <1>7, <1>8

\* A row with tokens feeds its chunk.
LEMMA ExtendReads ==
    ASSUME Shapes, NEW rows, NEW lens, NEW pad \in 0 .. 1, Chunked(rows, lens),
           NEW k \in 1 .. Len(rows), lens[k] # 0
    PROVE  Reading(ExtendBatch(rows, lens, pad), k, Chunk(rows[k], lens[k]))
  <1> DEFINE fb == ExtendBatch(rows, lens, pad)
             w == Chunk(rows[k], lens[k])
  <1>1. /\ fb.mode = "extend" /\ fb.lens = lens /\ fb.rows = rows /\ fb.located[k]
        /\ Lengths(fb) = lens /\ DOMAIN Lengths(fb) = 1 .. Len(rows)
    BY ExtendShape
  <1>2. w \in Seq(Tokens) /\ Len(w) = lens[k] /\ rows[k] \in Running /\ lens[k] \in Nat
    BY ChunkedFacts
  <1>3. lens \in Seq(Nat) /\ Len(lens) = Len(rows)
    BY DEF Chunked
  <1>4. /\ Processed(fb) \in Nat /\ Total(lens) <= Processed(fb)
        /\ \A i \in 1 .. lens[k] : fb.ids[QueryStartLoc(lens)[k - 1] + i] = w[i]
    BY ExtendSize
  <1>5. RowWidth(fb) \in Nat /\ lens[k] <= RowWidth(fb)
    BY ExtendWidth
  <1> HIDE DEF fb, w
  <1>6. ASSUME NEW o \in 0 .. lens[k] - 1
        PROVE  Landing(fb, k, o) # {} /\ TokenAt(fb, k, o) = w[o + 1]
    <2>1. Landing(fb, k, o) = {QueryStartLoc(lens)[k - 1] + (o + 1)}
      <3>1. k \in 1 .. Len(lens)
        BY <1>3
      <3>2. o \in 0 .. lens[k] - 1
        OBVIOUS
      <3>3. lens \in Seq(Nat) /\ Processed(fb) \in Nat /\ Total(lens) <= Processed(fb)
        BY <1>3, <1>4
      <3>4. fb.mode = "extend" /\ fb.lens = lens
        BY <1>1
      <3> QED
        BY ONLY <3>1, <3>2, <3>3, <3>4, ExtendLanding, SMTT(60)
    <2>2. TokenAt(fb, k, o) = fb.ids[QueryStartLoc(lens)[k - 1] + (o + 1)]
      BY <2>1 DEF TokenAt
    <2>3. o + 1 \in 1 .. lens[k]
      BY <1>2
    <2> QED
      BY <1>4, <2>1, <2>2, <2>3
  <1>7. Feeds(fb, k, w)
    BY <1>1, <1>2, <1>5, <1>6 DEF Feeds
  <1>8. StateIndex(fb, k) = Slot(rows[k])
    BY <1>1 DEF StateIndex
  <1>9. Reading(fb, k, w)
    BY <1>1, <1>2, <1>7, <1>8 DEF Reading
  <1> QED
    BY <1>9 DEF fb, w

LEMMA LesserIs ==
    ASSUME NEW a \in Int, NEW b \in Int, a <= b
    PROVE  Lesser(a, b) = a
  BY DEF Lesser

\* A prefill moves each request by its chunk, and snapshots the last boundary.
LEMMA ExtendServes ==
    ASSUME Shapes, NEW rows, NEW lens, NEW pad \in 0 .. 1, Chunked(rows, lens)
    PROVE  Serves(ExtendBatch(rows, lens, pad), rows, lens, Marks(rows, lens), Bounds(rows, lens))
  <1> DEFINE fb == ExtendBatch(rows, lens, pad)
             mask == Marks(rows, lens)
             aligned == Bounds(rows, lens)
  <1>1. /\ fb.mode = "extend" /\ fb.lens = lens /\ fb.rows = rows
        /\ Lengths(fb) = lens /\ DOMAIN Lengths(fb) = 1 .. Len(rows) /\ DOMAIN rows = 1 .. Len(rows)
        /\ ~FastPath(fb)
        /\ \A k \in 1 .. Len(rows) : /\ fb.aligned[k] = Aligned(rows[k], lens[k])
                                     /\ fb.track[k] = (Aligned(rows[k], lens[k]) > 0)
                                     /\ fb.track[k] = mask[k]
                                     /\ aligned[k] = Aligned(rows[k], lens[k])
    BY ExtendShape
  <1> HIDE DEF fb, mask, aligned
  <1>2. ASSUME NEW k \in 1 .. Len(rows)
        PROVE  /\ rows[k] \in Running /\ fb.rows[k] = rows[k]
               /\ \A j \in 1 .. Len(rows) : rows[j] = rows[k] => j = k
               /\ mask[k] \in BOOLEAN /\ fb.track[k] = mask[k]
    <2>1. rows[k] \in Running
      BY ChunkedFacts
    <2>2. \A j \in 1 .. Len(rows) : rows[j] = rows[k] => j = k
      BY DEF Chunked
    <2>3. (Aligned(rows[k], lens[k]) > 0) \in BOOLEAN
      OBVIOUS
    <2>4. mask[k] = (Aligned(rows[k], lens[k]) > 0)
      BY <1>1
    <2>5. mask[k] \in BOOLEAN
      BY ONLY <2>3, <2>4
    <2> QED
      BY <1>1, <2>1, <2>2, <2>5
  <1>3. ASSUME NEW k \in 1 .. Len(rows), lens[k] # 0 PROVE Moves(fb, k, lens[k], aligned[k])
    <2>1. Reading(fb, k, Chunk(rows[k], lens[k]))
      BY <1>3, ExtendReads DEF fb
    <2>2. /\ lens[k] \in Nat /\ req[rows[k]].done + lens[k] <= Len(Text[rows[k]])
          /\ Aligned(rows[k], lens[k]) \in Int /\ Aligned(rows[k], lens[k]) <= lens[k]
      BY ChunkedFacts
    <2>3. ASSUME fb.track[k] PROVE aligned[k] \in 0 .. lens[k] /\ TrackOffset(fb, Prepare(fb), k) = aligned[k]
      <3>1. aligned[k] > 0 /\ aligned[k] \in Int /\ aligned[k] <= lens[k] /\ fb.aligned[k] = aligned[k]
        BY <1>1, <2>2, <2>3
      <3>2. TrackOffset(fb, Prepare(fb), k) = Lesser(aligned[k], lens[k])
        <4>1. Prepare(fb).lens[k] = lens[k] /\ ~(aligned[k] < 0) /\ fb.mode # "decode"
          BY <1>1, <3>1, PrepareShape
        <4> QED
          BY <3>1, <4>1 DEF TrackOffset
      <3>3. Lesser(aligned[k], lens[k]) = aligned[k]
        BY <2>2, <3>1, LesserIs
      <3> QED
        BY <2>2, <3>1, <3>2, <3>3
    <2> QED
      BY <1>1, <2>1, <2>2, <2>3 DEF Moves
  <1>4. ASSUME NEW k \in 1 .. Len(rows), lens[k] = 0 PROVE Silent(fb, k)
    <2>1. StateIndex(fb, k) = 0
      BY <1>1, <1>4 DEF StateIndex
    <2>2. Aligned(rows[k], lens[k]) \in Int /\ Aligned(rows[k], lens[k]) <= lens[k]
      BY ChunkedFacts
    <2>3. ~(Aligned(rows[k], lens[k]) > 0)
      BY <1>4, <2>2
    <2> QED
      BY <1>1, <2>1, <2>3 DEF Silent
  <1>5. Serves(fb, rows, lens, mask, aligned)
    BY <1>1, <1>2, <1>3, <1>4 DEF Serves
  <1> QED
    BY <1>5 DEF fb, mask, aligned

\* Sequences without repetition of elements of a finite set.
LEMMA Permuted ==
    ASSUME NEW S, IsFiniteSet(S), NEW f \in SetToAllKPermutations(S)
    PROVE  /\ f = [k \in 1 .. Len(f) |-> f[k]] /\ Len(f) \in Nat
           /\ \A k \in 1 .. Len(f) : f[k] \in S /\ \A j \in 1 .. Len(f) : f[j] = f[k] => j = k
  <1>1. PICK s \in SUBSET S : f \in SetToSeqs(s)
    BY DEF SetToAllKPermutations
  <1> DEFINE n == Cardinality(s)
  <1>2. IsFiniteSet(s) /\ n \in Nat
    BY FS_Subset, FS_CardinalityType
  <1>3. f \in [1 .. n -> s] /\ \A i, j \in 1 .. n : i # j => f[i] # f[j]
    BY <1>1 DEF SetToSeqs
  <1> HIDE DEF n
  <1>4. Len(f) = n
    BY <1>2, <1>3
  <1> QED
    BY <1>2, <1>3, <1>4

LEMMA ReqsFinite == IsFiniteSet(Reqs)
  <1>1. NumReqs - 1 \in Int
    BY SizeFacts
  <1> QED
    BY <1>1, FS_Interval DEF Reqs

LEMMA ExtendStep ==
    ASSUME PleInv, Extend
    PROVE  PleInv' /\ LookupTrue'
  <1>1. Shapes /\ StateTrue
    BY DEF PleInv
  <1>2. /\ verify = None
        /\ \E rows \in SetToAllKPermutations(Prefilling) : \E pad \in 0 .. 1 :
           \E lens \in [DOMAIN rows -> 0 .. MaxChunk] :
             /\ \A k \in DOMAIN rows : lens[k] <= PromptLen[rows[k]] - req[rows[k]].done
             /\ \E k \in DOMAIN rows : lens[k] > 0
             /\ Commit(ExtendBatch(rows, lens, pad), Prepare(ExtendBatch(rows, lens, pad)))
             /\ looked' = LookUp(ExtendBatch(rows, lens, pad), Prepare(ExtendBatch(rows, lens, pad)))
             /\ Advance(rows, lens, Marks(rows, lens), Bounds(rows, lens))
        /\ UNCHANGED <<config, verify, cache>>
    BY DEF Extend, ExtendBatch, Marks, Bounds, Chunks, Chunk
  <1>3. PICK rows \in SetToAllKPermutations(Prefilling) : \E pad \in 0 .. 1 :
           \E lens \in [DOMAIN rows -> 0 .. MaxChunk] :
             /\ \A k \in DOMAIN rows : lens[k] <= PromptLen[rows[k]] - req[rows[k]].done
             /\ \E k \in DOMAIN rows : lens[k] > 0
             /\ Commit(ExtendBatch(rows, lens, pad), Prepare(ExtendBatch(rows, lens, pad)))
             /\ looked' = LookUp(ExtendBatch(rows, lens, pad), Prepare(ExtendBatch(rows, lens, pad)))
             /\ Advance(rows, lens, Marks(rows, lens), Bounds(rows, lens))
    BY <1>2
  <1>4. PICK pad \in 0 .. 1 : \E lens \in [DOMAIN rows -> 0 .. MaxChunk] :
             /\ \A k \in DOMAIN rows : lens[k] <= PromptLen[rows[k]] - req[rows[k]].done
             /\ \E k \in DOMAIN rows : lens[k] > 0
             /\ Commit(ExtendBatch(rows, lens, pad), Prepare(ExtendBatch(rows, lens, pad)))
             /\ looked' = LookUp(ExtendBatch(rows, lens, pad), Prepare(ExtendBatch(rows, lens, pad)))
             /\ Advance(rows, lens, Marks(rows, lens), Bounds(rows, lens))
    BY <1>3
  <1>5. PICK lens \in [DOMAIN rows -> 0 .. MaxChunk] :
             /\ \A k \in DOMAIN rows : lens[k] <= PromptLen[rows[k]] - req[rows[k]].done
             /\ \E k \in DOMAIN rows : lens[k] > 0
             /\ Commit(ExtendBatch(rows, lens, pad), Prepare(ExtendBatch(rows, lens, pad)))
             /\ looked' = LookUp(ExtendBatch(rows, lens, pad), Prepare(ExtendBatch(rows, lens, pad)))
             /\ Advance(rows, lens, Marks(rows, lens), Bounds(rows, lens))
    BY <1>4
  <1> DEFINE fb == ExtendBatch(rows, lens, pad)
  <1>6. Chunked(rows, lens)
    <2>1. IsFiniteSet(Prefilling)
      <3>1. Prefilling \in SUBSET Reqs
        BY DEF Prefilling, Running
      <3> QED
        BY <3>1, ReqsFinite, FS_Subset
    <2>2. /\ rows = [k \in 1 .. Len(rows) |-> rows[k]] /\ Len(rows) \in Nat
          /\ \A k \in 1 .. Len(rows) : /\ rows[k] \in Prefilling
                                       /\ \A j \in 1 .. Len(rows) : rows[j] = rows[k] => j = k
      BY <2>1, Permuted
    <2>3. DOMAIN rows = 1 .. Len(rows)
      BY <2>2
    <2>4. MaxChunk \in Nat
      BY SizeFacts
    <2>5. lens \in [1 .. Len(rows) -> 0 .. MaxChunk]
      BY <2>3
    <2>6. lens \in [1 .. Len(rows) -> Nat] /\ \A k \in 1 .. Len(rows) : lens[k] <= MaxChunk
      BY <2>4, <2>5
    <2>7. lens \in Seq(Nat) /\ Len(lens) = Len(rows)
      BY <2>2, <2>6
    <2> QED
      BY <1>5, <2>2, <2>3, <2>6, <2>7 DEF Chunked
  <1>7. Serves(fb, rows, lens, Marks(rows, lens), Bounds(rows, lens))
    BY <1>1, <1>6, ExtendServes
  <1>8. PleInv'
    BY <1>2, <1>5, <1>7, CommitKeeps
  <1>9. RowWidth(fb) \in Nat
    BY <1>1, <1>6, ExtendWidth
  <1>10. /\ Lengths(fb) = lens /\ DOMAIN Lengths(fb) = 1 .. Len(rows)
    BY <1>6, ExtendShape
  <1>11. \A k \in 1 .. Len(rows) : lens[k] # 0 => Reading(fb, k, Chunk(rows[k], lens[k]))
    BY <1>1, <1>6, ExtendReads
  <1>12. looked' = LookUp(fb, Prepare(fb))
    BY <1>5
  <1> HIDE DEF fb
  <1>13. \A l \in LookUp(fb, Prepare(fb)) : LooksTrue(l)
    BY <1>1, <1>9, <1>10, <1>11, LookUpTrue
  <1>14. \A l \in looked' : LooksTrue(l)
    BY <1>12, <1>13
  <1> QED
    BY <1>8, <1>14 DEF LookupTrue, LooksTrue

----------------------------------------------------------------------------
(* Decode                                                                  *)

LEMMA Sequenced ==
    ASSUME NEW S, IsFiniteSet(S), S # {}
    PROVE  /\ SetToSeq(S) = [k \in 1 .. Len(SetToSeq(S)) |-> SetToSeq(S)[k]]
           /\ Len(SetToSeq(S)) \in Nat \ {0}
           /\ \A k \in 1 .. Len(SetToSeq(S)) :
                 /\ SetToSeq(S)[k] \in S
                 /\ \A j \in 1 .. Len(SetToSeq(S)) : SetToSeq(S)[j] = SetToSeq(S)[k] => j = k
  <1> DEFINE n == Cardinality(S)
             f == SetToSeq(S)
  <1>1. n \in Nat /\ ExistsBijection(1 .. n, S)
    BY FS_CardinalityType
  <1>2. n # 0
    BY FS_EmptySet
  <1>3. PICK g : g \in [1 .. n -> S] /\ IsInjective(g)
    BY <1>1 DEF ExistsBijection, Bijection, Injection
  <1>4. f \in [1 .. n -> S] /\ IsInjective(f)
    BY <1>3 DEF SetToSeq
  <1> HIDE DEF f, n
  <1>5. Len(f) = n /\ DOMAIN f = 1 .. n
    BY <1>1, <1>4
  <1>6. \A k \in 1 .. n : f[k] \in S /\ \A j \in 1 .. n : f[j] = f[k] => j = k
    BY <1>4, <1>5 DEF IsInjective
  <1> QED
    BY <1>1, <1>2, <1>4, <1>5, <1>6 DEF f

\* The batch of a decode of the requests in rows, with pad rows to spare.
AllRows(rows, pad) == rows \o [i \in 1 .. pad |-> 0]
Ones(rows, pad) == [k \in 1 .. Len(rows) + pad |-> 1]
DecodeMarks(rows, pad) ==
    [k \in 1 .. Len(rows) + pad |-> k <= Len(rows) /\ Aligned(AllRows(rows, pad)[k], 1) = 1]
NextTokens(rows) == [k \in 1 .. Len(rows) |-> Text[rows[k]][req[rows[k]].done + 1]]
DecodeBatch(rows, pad) ==
    [mode |-> "decode", rows |-> AllRows(rows, pad), lens |-> Ones(rows, pad),
     ids |-> NextTokens(rows) \o Pad(pad), nonPadded |-> Len(rows),
     located |-> [k \in 1 .. Len(rows) + pad |-> k <= Len(rows)],
     track |-> DecodeMarks(rows, pad), aligned |-> Ones(rows, pad)]

\* Distinct requests that have tokens to decode.
Decoded(rows) ==
    /\ rows = [k \in 1 .. Len(rows) |-> rows[k]] /\ Len(rows) \in Nat \ {0}
    /\ \A k \in 1 .. Len(rows) :
          /\ rows[k] \in Decoding
          /\ \A j \in 1 .. Len(rows) : rows[j] = rows[k] => j = k

LEMMA DecodedFacts ==
    ASSUME Shapes, NEW rows, Decoded(rows), NEW k \in 1 .. Len(rows)
    PROVE  /\ rows[k] \in Reqs /\ rows[k] \in Running /\ req[rows[k]].done \in Nat
           /\ req[rows[k]].done + 1 <= Len(Text[rows[k]]) /\ Len(Text[rows[k]]) \in Nat
  <1>1. rows[k] \in Reqs /\ rows[k] \in Running /\ req[rows[k]].done >= 0 /\ req[rows[k]].done < Len(Text[rows[k]])
    BY DEF Decoded, Decoding, Running
  <1>2. req[rows[k]].done \in Nat /\ Len(Text[rows[k]]) \in Nat
    BY <1>1, PastFacts
  <1> QED
    BY <1>1, <1>2

LEMMA PaddedRows ==
    ASSUME NEW rows, Decoded(rows), NEW pad \in 0 .. 1
    PROVE  Joined(AllRows(rows, pad), rows, Len(rows), [i \in 1 .. pad |-> 0], pad)
  <1>1. IsSeq(rows, Len(rows)) /\ IsSeq([i \in 1 .. pad |-> 0], pad)
    BY DEF Decoded, IsSeq
  <1> QED
    BY <1>1, ConcatIs DEF AllRows

LEMMA DecodeShape ==
    ASSUME NEW rows, Decoded(rows), NEW pad \in 0 .. 1
    PROVE  LET fb == DecodeBatch(rows, pad)
           IN  /\ fb.mode = "decode" /\ RowWidth(fb) = 1
               /\ \A k \in 1 .. Len(rows) : fb.rows[k] = rows[k] /\ fb.ids[k] = Text[rows[k]][req[rows[k]].done + 1]
               /\ Processed(fb) \in {Len(rows), Len(rows) + pad}
               /\ Lengths(fb) = [k \in 1 .. Processed(fb) |-> 1]
               /\ \A k \in 1 .. Len(rows) + pad :
                     /\ fb.located[k] = (k <= Len(rows)) /\ fb.track[k] = DecodeMarks(rows, pad)[k]
                     /\ DecodeMarks(rows, pad)[k] = (k <= Len(rows) /\ Aligned(AllRows(rows, pad)[k], 1) = 1)
                     /\ Ones(rows, pad)[k] = 1
  <1> DEFINE fb == DecodeBatch(rows, pad)
             n == Len(rows)
  <1>1. /\ fb.mode = "decode" /\ fb.rows = AllRows(rows, pad) /\ fb.ids = NextTokens(rows) \o Pad(pad)
        /\ fb.nonPadded = n /\ fb.located = [k \in 1 .. n + pad |-> k <= n]
        /\ fb.track = DecodeMarks(rows, pad)
    BY DEF DecodeBatch
  <1>2. n \in Nat
    BY DEF Decoded
  <1>3. Joined(fb.rows, rows, n, [i \in 1 .. pad |-> 0], pad)
    BY <1>1, PaddedRows
  <1>4. IsSeq(NextTokens(rows), n) /\ IsSeq(Pad(pad), pad)
    BY <1>2 DEF NextTokens, Pad, IsSeq
  <1>5. Joined(fb.ids, NextTokens(rows), n, Pad(pad), pad)
    BY <1>1, <1>4, ConcatIs
  <1> HIDE DEF fb
  <1>6. IsSeq(fb.ids, n + pad)
    BY <1>5 DEF Joined
  <1>7. Len(fb.ids) = n + pad
    BY <1>6, SeqFacts
  <1>8. Processed(fb) \in {n, n + pad}
    BY <1>1, <1>7 DEF Processed
  <1>9. RowWidth(fb) = 1 /\ Lengths(fb) = [k \in 1 .. Processed(fb) |-> 1]
    BY <1>1 DEF RowWidth, Lengths
  <1>10. \A k \in 1 .. n : fb.rows[k] = rows[k] /\ fb.ids[k] = Text[rows[k]][req[rows[k]].done + 1]
    BY <1>3, <1>5 DEF Joined, NextTokens
  <1>11. \A k \in 1 .. n + pad :
            /\ fb.located[k] = (k <= n) /\ fb.track[k] = DecodeMarks(rows, pad)[k]
            /\ DecodeMarks(rows, pad)[k] = (k <= n /\ Aligned(AllRows(rows, pad)[k], 1) = 1)
            /\ Ones(rows, pad)[k] = 1
    BY <1>1 DEF DecodeMarks, Ones
  <1> QED
    BY <1>1, <1>8, <1>9, <1>10, <1>11 DEF fb

LEMMA DecodeReads ==
    ASSUME Shapes, NEW rows, Decoded(rows), NEW pad \in 0 .. 1, NEW k \in 1 .. Len(rows)
    PROVE  Reading(DecodeBatch(rows, pad), k, Chunk(rows[k], 1))
  <1> DEFINE fb == DecodeBatch(rows, pad)
             w == Chunk(rows[k], 1)
             n == Len(rows)
  <1>1. /\ fb.mode = "decode" /\ RowWidth(fb) = 1
        /\ fb.rows[k] = rows[k] /\ fb.ids[k] = Text[rows[k]][req[rows[k]].done + 1]
        /\ Processed(fb) \in {n, n + pad}
        /\ Lengths(fb) = [j \in 1 .. Processed(fb) |-> 1]
    BY DecodeShape
  <1>2. rows[k] \in Reqs /\ rows[k] \in Running /\ req[rows[k]].done \in Nat /\ req[rows[k]].done + 1 <= Len(Text[rows[k]])
    BY DecodedFacts
  <1>3. w \in Seq(Tokens) /\ Len(w) = 1 /\ w[1] = Text[rows[k]][req[rows[k]].done + 1]
    <2>1. 1 \in Nat /\ 1 \in 1 .. 1 /\ req[rows[k]].done >= 0
      BY <1>2
    <2>2. /\ w \in Seq(Tokens) /\ Len(w) = 1
          /\ \A i \in 1 .. 1 : w[i] = Text[rows[k]][req[rows[k]].done + i]
      BY <1>2, <2>1, ChunkFacts
    <2> QED
      BY <2>1, <2>2
  <1>4. n \in Nat /\ k \in Nat \ {0} /\ k <= n
    BY DEF Decoded
  <1> HIDE DEF n
  <1>5. k \in 1 .. n + pad
    BY <1>4
  <1>6. fb.located[k]
    BY <1>4, <1>5, DecodeShape DEF n
  <1> HIDE DEF fb, w
  <1>7. Processed(fb) \in Nat /\ k \in 1 .. Processed(fb) /\ k <= Processed(fb)
    BY <1>1, <1>4
  <1>8. Landing(fb, k, 0) = {k}
    <2>1. (k - 1) * 1 + (0 + 1) = k
      BY <1>4
    <2>2. (k - 1) * 1 + (0 + 1) <= Processed(fb)
      BY <1>7, <2>1
    <2>3. 1 \in Nat \ {0} /\ 0 \in 0 .. 1 - 1 /\ fb.mode # "extend" /\ RowWidth(fb) = 1
          /\ k \in Nat \ {0} /\ Processed(fb) \in Nat
      BY <1>1, <1>4, <1>7
    <2>4. Landing(fb, k, 0) = {(k - 1) * 1 + (0 + 1)}
      BY ONLY <2>2, <2>3, UniformLanding
    <2> QED
      BY <2>1, <2>4
  <1>9. Landing(fb, k, 0) # {} /\ TokenAt(fb, k, 0) = w[0 + 1]
    <2>1. TokenAt(fb, k, 0) = fb.ids[k]
      BY <1>8 DEF TokenAt
    <2>2. 0 + 1 = 1
      OBVIOUS
    <2> QED
      BY <1>1, <1>3, <1>8, <2>1, <2>2
  <1>10. Lengths(fb)[k] = 1 /\ k \in DOMAIN Lengths(fb)
    BY <1>1, <1>7
  <1>11. Feeds(fb, k, w)
    <2>1. 0 .. Len(w) - 1 = {0}
      BY <1>3
    <2> QED
      BY <1>1, <1>3, <1>9, <1>10, <2>1 DEF Feeds
  <1>12. StateIndex(fb, k) = Slot(rows[k])
    BY <1>1, <1>6 DEF StateIndex
  <1>13. Reading(fb, k, w)
    BY <1>1, <1>2, <1>3, <1>6, <1>11, <1>12 DEF Reading
  <1> QED
    BY <1>13 DEF fb, w

LEMMA DecodeServes ==
    ASSUME Shapes, NEW rows, Decoded(rows), NEW pad \in 0 .. 1
    PROVE  Serves(DecodeBatch(rows, pad), rows, Ones(rows, pad), DecodeMarks(rows, pad), Ones(rows, pad))
  <1> DEFINE fb == DecodeBatch(rows, pad)
             n == Len(rows)
             one == Ones(rows, pad)
             mask == DecodeMarks(rows, pad)
  <1>1. /\ fb.mode = "decode" /\ RowWidth(fb) = 1
        /\ \A k \in 1 .. n : fb.rows[k] = rows[k]
        /\ Processed(fb) \in {n, n + pad}
        /\ Lengths(fb) = [k \in 1 .. Processed(fb) |-> 1]
        /\ \A k \in 1 .. n + pad :
             /\ fb.located[k] = (k <= n) /\ fb.track[k] = mask[k]
             /\ mask[k] = (k <= n /\ Aligned(AllRows(rows, pad)[k], 1) = 1)
             /\ one[k] = 1
    BY DecodeShape
  <1>2. n \in Nat /\ DOMAIN rows = 1 .. n
    BY DEF Decoded
  <1>3. \A k \in 1 .. n : rows[k] \in Running /\ \A j \in 1 .. n : rows[j] = rows[k] => j = k
    BY DecodedFacts DEF Decoded
  <1>4. \A k \in 1 .. n : req[rows[k]].done + 1 <= Len(Text[rows[k]]) /\ Reading(fb, k, Chunk(rows[k], 1))
    BY DecodedFacts, DecodeReads
  <1> HIDE DEF fb, n, one, mask
  <1>5. DOMAIN Lengths(fb) = 1 .. Processed(fb) /\ 1 .. n \subseteq 1 .. n + pad
        /\ 1 .. n \subseteq 1 .. Processed(fb) /\ 1 .. Processed(fb) \subseteq 1 .. n + pad
    BY <1>1, <1>2
  <1>6. \A k \in 1 .. n + pad : mask[k] \in BOOLEAN /\ (mask[k] => k <= n)
    <2> SUFFICES ASSUME NEW k \in 1 .. n + pad PROVE mask[k] \in BOOLEAN /\ (mask[k] => k <= n)
      OBVIOUS
    <2>1. mask[k] = (k <= n /\ Aligned(AllRows(rows, pad)[k], 1) = 1)
      BY <1>1
    <2>2. (k <= n /\ Aligned(AllRows(rows, pad)[k], 1) = 1) \in BOOLEAN
      OBVIOUS
    <2>3. mask[k] \in BOOLEAN
      BY ONLY <2>1, <2>2
    <2> QED
      BY <2>1, <2>3
  <1>7. ASSUME NEW k \in 1 .. n PROVE Moves(fb, k, one[k], one[k])
    <2>1. one[k] = 1 /\ k \in DOMAIN Lengths(fb) /\ Lengths(fb)[k] = 1 /\ fb.rows[k] = rows[k]
      BY <1>1, <1>5
    <2>2. TrackOffset(fb, Prepare(fb), k) = 1
      BY <1>1, <2>1, PrepareShape DEF TrackOffset
    <2>3. 1 \in Nat /\ 1 \in 0 .. 1
      OBVIOUS
    <2> QED
      BY <1>1, <1>4, <2>1, <2>2, <2>3 DEF Moves
  <1>8. ASSUME NEW k \in 1 .. Processed(fb), k \notin 1 .. n PROVE Silent(fb, k)
    <2>1. k \in 1 .. n + pad /\ ~(k <= n)
      BY <1>2, <1>5, <1>8
    <2>2. ~fb.located[k] /\ ~fb.track[k]
      BY <1>1, <1>6, <2>1
    <2>3. StateIndex(fb, k) = 0
      BY <1>1, <2>2 DEF StateIndex
    <2> QED
      BY <2>2, <2>3 DEF Silent
  <1>9. /\ DOMAIN rows \subseteq DOMAIN Lengths(fb)
        /\ \A k \in DOMAIN rows :
              /\ rows[k] \in Running /\ fb.rows[k] = rows[k]
              /\ \A j \in DOMAIN rows : rows[j] = rows[k] => j = k
              /\ mask[k] \in BOOLEAN /\ fb.track[k] = mask[k]
    BY <1>1, <1>2, <1>3, <1>5, <1>6
  <1>10. \A k \in DOMAIN Lengths(fb) :
              \/ k \in DOMAIN rows /\ Moves(fb, k, one[k], one[k])
              \/ k \notin DOMAIN rows /\ Silent(fb, k)
    BY <1>2, <1>5, <1>7, <1>8
  <1>11. Serves(fb, rows, one, mask, one)
    BY <1>9, <1>10 DEF Serves
  <1> QED
    BY <1>11 DEF fb, one, mask

LEMMA DecodeStep ==
    ASSUME PleInv, Decode
    PROVE  PleInv' /\ LookupTrue'
  <1>1. Shapes /\ StateTrue
    BY DEF PleInv
  <1>2. /\ verify = None
        /\ \E rs \in (SUBSET Decoding) \ {{}} : \E pad \in 0 .. 1 :
             LET rows == SetToSeq(rs)
                 fb == DecodeBatch(rows, pad)
             IN  /\ Commit(fb, Prepare(fb))
                 /\ looked' = LookUp(fb, Prepare(fb))
                 /\ Advance(rows, Ones(rows, pad), DecodeMarks(rows, pad), Ones(rows, pad))
        /\ UNCHANGED <<config, verify, cache>>
    BY DEF Decode, DecodeBatch, AllRows, Ones, DecodeMarks, NextTokens
  <1>3. PICK rs \in (SUBSET Decoding) \ {{}} : \E pad \in 0 .. 1 :
             LET rows == SetToSeq(rs)
                 fb == DecodeBatch(rows, pad)
             IN  /\ Commit(fb, Prepare(fb))
                 /\ looked' = LookUp(fb, Prepare(fb))
                 /\ Advance(rows, Ones(rows, pad), DecodeMarks(rows, pad), Ones(rows, pad))
    BY <1>2
  <1> DEFINE rows == SetToSeq(rs)
  <1>4. PICK pad \in 0 .. 1 :
             /\ Commit(DecodeBatch(rows, pad), Prepare(DecodeBatch(rows, pad)))
             /\ looked' = LookUp(DecodeBatch(rows, pad), Prepare(DecodeBatch(rows, pad)))
             /\ Advance(rows, Ones(rows, pad), DecodeMarks(rows, pad), Ones(rows, pad))
    BY <1>3
  <1> DEFINE fb == DecodeBatch(rows, pad)
  <1>5. Decoded(rows)
    <2>1. IsFiniteSet(rs) /\ rs # {} /\ rs \subseteq Decoding
      <3>1. rs # {} /\ rs \subseteq Decoding
        OBVIOUS
      <3>2. rs \in SUBSET Reqs
        BY <3>1 DEF Decoding, Running
      <3>3. IsFiniteSet(rs)
        BY <3>2, ReqsFinite, FS_Subset
      <3> QED
        BY <3>1, <3>3
    <2> QED
      BY <2>1, Sequenced DEF Decoded
  <1> HIDE DEF rows
  <1>6. Serves(fb, rows, Ones(rows, pad), DecodeMarks(rows, pad), Ones(rows, pad))
    BY <1>1, <1>5, DecodeServes
  <1>7. PleInv'
    BY <1>2, <1>4, <1>6, CommitKeeps
  <1>8. /\ RowWidth(fb) = 1 /\ Lengths(fb) = [k \in 1 .. Processed(fb) |-> 1]
        /\ Processed(fb) \in {Len(rows), Len(rows) + pad}
        /\ \A k \in 1 .. Len(rows) + pad : fb.located[k] = (k <= Len(rows))
    BY <1>5, DecodeShape
  <1>9. \A k \in 1 .. Len(rows) : Reading(fb, k, Chunk(rows[k], 1))
    BY <1>1, <1>5, DecodeReads
  <1>10. Len(rows) \in Nat
    BY <1>5 DEF Decoded
  <1> HIDE DEF fb
  <1>11. \A k \in DOMAIN Lengths(fb) : fb.located[k] => \E w : Reading(fb, k, w)
    <2> SUFFICES ASSUME NEW k \in DOMAIN Lengths(fb), fb.located[k] PROVE \E w : Reading(fb, k, w)
      OBVIOUS
    <2>1. k \in 1 .. Processed(fb) /\ k \in 1 .. Len(rows) + pad
      BY <1>8, <1>10
    <2>2. k <= Len(rows)
      <3>1. fb.located[k] = (k <= Len(rows))
        BY <1>8, <2>1
      <3> QED
        BY <3>1
    <2>3. k \in 1 .. Len(rows)
      BY <1>10, <2>1, <2>2
    <2> QED
      BY <1>9, <2>3
  <1>12. \A l \in LookUp(fb, Prepare(fb)) : LooksTrue(l)
    <2>1. RowWidth(fb) \in Nat
      BY <1>8
    <2> QED
      BY <1>1, <1>11, <2>1, LookUpTrue
  <1>13. looked' = LookUp(fb, Prepare(fb))
    BY <1>4 DEF fb
  <1>14. \A l \in looked' : LooksTrue(l)
    BY <1>12, <1>13
  <1> QED
    BY <1>7, <1>14, SMTT(60) DEF LookupTrue, LooksTrue

----------------------------------------------------------------------------
(* The steps of the scheduler and of the prefix cache                      *)

LEMMA FreshIs == Fresh = StateAfter(<<>>)
  <1>1. NgramSize - 1 \in Nat /\ StateLen \in Nat
    BY SizeFacts
  <1>2. Len(<<>>) = 0
    OBVIOUS
  <1> DEFINE e == Len(<<>>)
             m == NgramSize - 1
             l == StateLen
  <1>3. \A i \in 1 .. m : ~(e - m + i > 0)
    BY <1>1, <1>2
  <1>4. \A i \in 1 .. l : ~(e - l + i > 0)
    BY <1>1, <1>2
  <1>5. StateAfter(<<>>) =
          [ngram |-> [i \in 1 .. m |-> IF e - m + i > 0 THEN <<>>[e - m + i] ELSE Eos],
           conv  |-> [i \in 1 .. l |-> IF e - l + i > 0 THEN SubSeq(<<>>, 1, e - l + i) ELSE Zero]]
    BY DEF StateAfter
  <1>6. Fresh = [ngram |-> [i \in 1 .. m |-> Eos], conv |-> [i \in 1 .. l |-> Zero]]
    BY DEF Fresh
  <1> HIDE DEF e, m, l
  <1> QED
    BY <1>3, <1>4, <1>5, <1>6

LEMMA PrefixIs ==
    ASSUME NEW t \in Seq(Tokens), NEW p \in Seq(Tokens), IsPrefix(p, t)
    PROVE  p = SubSeq(t, 1, Len(p)) /\ Len(p) \in 0 .. Len(t)
  <1> DEFINE n == Len(p)
  <1>1. n \in Nat /\ Len(t) \in Nat /\ n <= Len(t) /\ SubSeq(p, 1, n) = SubSeq(t, 1, n)
    BY LenProperties DEF IsPrefix
  <1>2. n \in 0 .. Len(p)
    BY <1>1
  <1>3. IsSeq(p, n) /\ SubSeq(p, 1, n) \in Seq(Tokens) /\ Len(SubSeq(p, 1, n)) = n
        /\ \A x \in 1 .. n : SubSeq(p, 1, n)[x] = p[x]
    BY <1>2, PrefixFacts, SeqIs
  <1>4. IsSeq(SubSeq(p, 1, n), n)
    BY <1>3, SeqIs
  <1>5. SubSeq(p, 1, n) = p
    BY <1>3, <1>4, SameSeq
  <1> QED
    BY <1>1, <1>5

\* An admitted request starts from the state of the prefix it is found with.
LEMMA AdmitStep ==
    ASSUME PleInv, NEW r \in Reqs, Admit(r)
    PROVE  PleInv' /\ LookupTrue'
  <1>1. Shapes /\ StateTrue /\ TrackTrue /\ CacheTrue /\ verify = None
    BY DEF PleInv, Admit
  <1>2. PICK p \in {<<>>} \cup DOMAIN cache :
          /\ IsPrefix(p, Text[r]) /\ Len(p) < PromptLen[r]
          /\ state' = [state EXCEPT ![Slot(r)] = IF p = <<>> THEN Fresh ELSE cache[p]]
          /\ req' = [req EXCEPT ![r] = [done |-> Len(p), tracked |-> 0]]
    BY DEF Admit
  <1>3. looked' = {} /\ UNCHANGED <<config, verify, cache>>
    BY DEF Admit
  <1>4. p \in Seq(Tokens) /\ Text[r] \in Seq(Tokens)
    <2>1. <<>> \in Seq(Tokens)
      OBVIOUS
    <2>2. Text[r] \in Seq(Tokens)
      BY TextAssumption
    <2>3. DOMAIN cache \subseteq Seq(Tokens)
      BY <1>1 DEF Shapes
    <2> QED
      BY <2>1, <2>2, <2>3
  <1>5. p = SubSeq(Text[r], 1, Len(p)) /\ Len(p) \in 0 .. Len(Text[r])
    BY <1>2, <1>4, PrefixIs
  <1>6. (IF p = <<>> THEN Fresh ELSE cache[p]) = StateAfter(p)
    BY <1>1, FreshIs DEF CacheTrue
  <1> DEFINE q == [done |-> Len(p), tracked |-> 0]
  <1>7. /\ req'[r] = q /\ \A o \in Reqs : o # r => req'[o] = req[o]
        /\ req' = [o \in Reqs |-> IF o = r THEN q ELSE req[o]]
    BY <1>1, <1>2 DEF Shapes
  <1>8. /\ state'[Slot(r)] = StateAfter(p) /\ \A s \in Slots : s # Slot(r) => state'[s] = state[s]
        /\ state' = [s \in Slots |-> state'[s]]
    BY <1>1, <1>2, <1>6, SlotFacts DEF Shapes
  <1>9. Len(Text[r]) \in Nat /\ q.done = Len(p) /\ q.tracked = 0 /\ q.done \in -1 .. Len(Text[r])
        /\ q.tracked \in 0 .. Len(Text[r]) /\ q.done \in Int /\ q \in [done : Int, tracked : Int]
    <2>1. Len(Text[r]) \in Nat
      BY <1>4, LenProperties
    <2>2. Len(p) \in Int /\ Len(p) \in -1 .. Len(Text[r])
      BY <1>5, <2>1
    <2> QED
      BY <2>1, <2>2
  <1> HIDE DEF q
  <1>10. Shapes'
    <2>1. req' \in [Reqs -> [done : Int, tracked : Int]]
      BY <1>1, <1>7, <1>9 DEF Shapes
    <2>2. \A o \in Reqs : req'[o].done \in -1 .. Len(Text[o]) /\ req'[o].tracked \in 0 .. Len(Text[o])
      BY <1>1, <1>7, <1>9 DEF Shapes
    <2> QED
      BY <1>1, <1>3, <1>8, <2>1, <2>2 DEF Shapes
  <1>11. StateTrue'
    <2> SUFFICES ASSUME NEW o \in Reqs, req'[o].done >= 0
                 PROVE  state'[Slot(o)] = StateAfter(SubSeq(Text[o], 1, req'[o].done))
      BY DEF StateTrue, Running
    <2>1. CASE o = r
      BY <1>5, <1>7, <1>8, <1>9, <2>1
    <2>2. CASE o # r
      <3>1. Slot(o) # Slot(r) /\ Slot(o) \in Slots
        BY <2>2, SlotFacts
      <3> QED
        BY <1>1, <1>7, <1>8, <2>2, <3>1 DEF StateTrue, Running
    <2> QED
      BY <2>1, <2>2
  <1>12. TrackTrue'
    <2> SUFFICES ASSUME NEW o \in Reqs, req'[o].tracked > 0
                 PROVE  state'[TrackSlot(o)] = StateAfter(SubSeq(Text[o], 1, req'[o].tracked))
      BY DEF TrackTrue
    <2>1. o # r
      BY <1>7, <1>9
    <2>2. TrackSlot(o) # Slot(r) /\ TrackSlot(o) \in Slots
      BY SlotFacts
    <2> QED
      BY <1>1, <1>7, <1>8, <2>1, <2>2 DEF TrackTrue
  <1>13. VerifyTrue' /\ CacheTrue' /\ LookupTrue'
    BY <1>1, <1>3 DEF VerifyTrue, CacheTrue, LookupTrue
  <1> QED
    BY <1>10, <1>11, <1>12, <1>13 DEF PleInv

\* What is donated is the state of the prefix it is filed under.
LEMMA DonateStep ==
    ASSUME PleInv, NEW r \in Reqs, Donate(r)
    PROVE  PleInv' /\ LookupTrue'
  <1>1. Shapes /\ StateTrue /\ TrackTrue /\ CacheTrue /\ verify = None /\ req[r].tracked > 0
    BY DEF PleInv, Donate
  <1> DEFINE p == SubSeq(Text[r], 1, req[r].tracked)
  <1>2. cache' = [x \in DOMAIN cache \cup {p} |-> IF x \in DOMAIN cache THEN cache[x] ELSE state[TrackSlot(r)]]
    BY DEF Donate
  <1>3. req' = [req EXCEPT ![r].tracked = 0] /\ looked' = {} /\ UNCHANGED <<config, state, verify>>
    BY DEF Donate
  <1>4. Text[r] \in Seq(Tokens) /\ Len(Text[r]) \in Nat /\ req[r].tracked \in 0 .. Len(Text[r])
    BY <1>1, TextAssumption, LenProperties DEF Shapes
  <1>5. p \in Seq(Tokens)
    BY <1>4, PrefixFacts
  <1>6. state[TrackSlot(r)] = StateAfter(p)
    BY <1>1 DEF TrackTrue
  <1> HIDE DEF p
  <1>7. DOMAIN cache' = DOMAIN cache \cup {p}
        /\ \A x \in DOMAIN cache' : cache'[x] = IF x \in DOMAIN cache THEN cache[x] ELSE StateAfter(p)
    BY <1>2, <1>6
  <1>8. CacheTrue' /\ DOMAIN cache' \subseteq Seq(Tokens)
    BY <1>1, <1>5, <1>7 DEF CacheTrue, Shapes
  <1>9. /\ req' \in [Reqs -> [done : Int, tracked : Int]]
        /\ \A o \in Reqs : req'[o].done = req[o].done
        /\ \A o \in Reqs : req'[o].tracked = IF o = r THEN 0 ELSE req[o].tracked
    <2>1. req \in [Reqs -> [done : Int, tracked : Int]]
      BY <1>1 DEF Shapes
    <2> QED
      BY <1>3, <2>1
  <1>10. Shapes'
    <2>1. ASSUME NEW o \in Reqs
          PROVE  req'[o].done \in -1 .. Len(Text[o]) /\ req'[o].tracked \in 0 .. Len(Text[o])
      <3>1. req[o].done \in -1 .. Len(Text[o]) /\ req[o].tracked \in 0 .. Len(Text[o])
        BY <1>1 DEF Shapes
      <3>2. 0 \in 0 .. Len(Text[r])
        BY <1>4
      <3> QED
        BY <1>9, <3>1, <3>2
    <2> QED
      BY <1>1, <1>3, <1>8, <1>9, <2>1 DEF Shapes
  <1>11. StateTrue' /\ TrackTrue'
    BY <1>1, <1>3, <1>9 DEF StateTrue, TrackTrue, Running
  <1>12. VerifyTrue' /\ LookupTrue'
    BY <1>1, <1>3 DEF VerifyTrue, LookupTrue
  <1> QED
    BY <1>8, <1>10, <1>11, <1>12 DEF PleInv

LEMMA FinishStep ==
    ASSUME PleInv, NEW r \in Reqs, Finish(r)
    PROVE  PleInv' /\ LookupTrue'
  <1>1. /\ Shapes /\ StateTrue /\ TrackTrue /\ CacheTrue /\ VerifyTrue
        /\ req[r].done = Len(Text[r])
    BY DEF PleInv, Finish
  <1>2. req' = [req EXCEPT ![r].done = -1] /\ looked' = {} /\ UNCHANGED <<config, state, verify, cache>>
    BY DEF Finish
  <1>3. /\ req' \in [Reqs -> [done : Int, tracked : Int]]
        /\ \A o \in Reqs : req'[o].tracked = req[o].tracked
        /\ \A o \in Reqs : req'[o].done = IF o = r THEN -1 ELSE req[o].done
    <2>1. req \in [Reqs -> [done : Int, tracked : Int]]
      BY <1>1 DEF Shapes
    <2> QED
      BY <1>2, <2>1
  <1>4. Shapes'
    <2>1. ASSUME NEW o \in Reqs
          PROVE  req'[o].done \in -1 .. Len(Text[o]) /\ req'[o].tracked \in 0 .. Len(Text[o])
      <3>1. req[o].done \in -1 .. Len(Text[o]) /\ req[o].tracked \in 0 .. Len(Text[o])
        BY <1>1 DEF Shapes
      <3>2. -1 \in -1 .. Len(Text[o])
        <4>1. Len(Text[o]) \in Nat
          BY TextAssumption, LenProperties
        <4> QED
          BY <4>1
      <3> QED
        BY <1>3, <3>1, <3>2
    <2> QED
      BY <1>1, <1>2, <1>3, <2>1 DEF Shapes
  <1>5. StateTrue' /\ TrackTrue'
    <2>1. \A o \in Reqs : req'[o].done >= 0 => o # r /\ req'[o].done = req[o].done
      BY <1>3, SMTT(60)
    <2> QED
      BY <1>1, <1>2, <1>3, <2>1 DEF StateTrue, TrackTrue, Running
  <1>6. VerifyTrue'
    <2> SUFFICES ASSUME verify # None, NEW k \in DOMAIN verify.rows PROVE DraftsTrue(k)'
      BY <1>2 DEF VerifyTrue
    <2>1. DraftsTrue(k)
      BY <1>1 DEF VerifyTrue
    <2> DEFINE o == verify.rows[k]
    <2>2. o \in Reqs /\ req[o].done \in 0 .. Len(Text[o]) - 1
      BY <2>1 DEF DraftsTrue
    <2>3. Len(Text[o]) \in Nat
      BY <2>2, TextAssumption, LenProperties
    <2>4. o # r
      BY <1>1, <2>2, <2>3
    <2>5. req'[o].done = req[o].done
      BY <1>3, <2>2, <2>4
    <2> QED
      BY <1>2, <2>1, <2>5 DEF DraftsTrue, Past
  <1>7. CacheTrue' /\ LookupTrue'
    BY <1>1, <1>2 DEF CacheTrue, LookupTrue
  <1> QED
    BY <1>4, <1>5, <1>6, <1>7 DEF PleInv

\* How many of the tokens fed to row k are kept: the longest match.
Matches(k) ==
    {n \in 1 .. Len(verify.fed[k]) :
        /\ req[verify.rows[k]].done + n <= Len(Text[verify.rows[k]])
        /\ \A i \in 1 .. n : verify.fed[k][i] = Text[verify.rows[k]][req[verify.rows[k]].done + i]}

LEMMA KeptTrue ==
    ASSUME Shapes, NEW k, DraftsTrue(k)
    PROVE  LET r == verify.rows[k]
               n == Max(Matches(k))
           IN  /\ r \in Reqs /\ n \in Nat /\ req[r].done + n \in 0 .. Len(Text[r])
               /\ verify.states[k][n] = StateAfter(SubSeq(Text[r], 1, req[r].done + n))
  <1> DEFINE r == verify.rows[k]
             w == verify.fed[k]
             S == Matches(k)
             n == Max(S)
             d == req[r].done
  <1>1. /\ r \in Reqs /\ d \in 0 .. Len(Text[r]) - 1 /\ w \in Seq(Tokens) /\ w # <<>>
        /\ w[1] = Text[r][d + 1]
        /\ \A i \in 1 .. Len(w) : verify.states[k][i] = StateAfter(Past(r) \o SubSeq(w, 1, i))
    BY DEF DraftsTrue
  <1>2. Text[r] \in Seq(Tokens) /\ Len(Text[r]) \in Nat /\ Len(w) \in Nat \ {0} /\ d \in Nat
    <2>1. Text[r] \in Seq(Tokens) /\ Len(Text[r]) \in Nat
      BY <1>1, TextAssumption, LenProperties
    <2>2. Len(w) \in Nat /\ Len(w) # 0
      BY <1>1, LenProperties, EmptySeq
    <2> QED
      BY <1>1, <2>1, <2>2
  <1>3. S = {m \in 1 .. Len(w) : d + m <= Len(Text[r]) /\ \A i \in 1 .. m : w[i] = Text[r][d + i]}
    BY DEF Matches
  <1>4. Past(r) \in Seq(Tokens) /\ Len(Past(r)) = d /\ Past(r) = SubSeq(Text[r], 1, d)
    BY <1>1, <1>2, PastFacts DEF Past
  <1> HIDE DEF r, w, S, d
  <1>5. 1 \in S
    BY <1>1, <1>2, <1>3
  <1>6. S \subseteq 0 .. Len(w) /\ S # {} /\ Len(w) \in Nat
    BY <1>2, <1>3, <1>5
  <1>7. n \in S
    BY <1>6, MaxOf
  <1> HIDE DEF n
  <1>8. n \in 1 .. Len(w) /\ d + n <= Len(Text[r]) /\ \A i \in 1 .. n : w[i] = Text[r][d + i]
    BY <1>3, <1>7
  <1>9. n \in Nat /\ n \in 0 .. Len(w) /\ d \in 0 .. Len(Text[r]) /\ d + n \in 0 .. Len(Text[r])
    BY <1>2, <1>8
  <1>10. verify.states[k][n] = StateAfter(Past(r) \o SubSeq(w, 1, n))
    BY <1>1, <1>8
  <1>11. Past(r) \o SubSeq(w, 1, n) = SubSeq(Past(r) \o w, 1, d + n)
    BY <1>1, <1>4, <1>8, LongerPrefix
  <1>12. SubSeq(SubSeq(Text[r], 1, d) \o w, 1, d + n) = SubSeq(Text[r], 1, d + n)
    BY <1>1, <1>2, <1>8, <1>9, Follows, SMTT(60)
  <1>13. verify.states[k][n] = StateAfter(SubSeq(Text[r], 1, d + n))
    BY <1>4, <1>10, <1>11, <1>12
  <1> QED
    BY <1>1, <1>9, <1>13 DEF r, n, S, d

RowOfRequest(r) == CHOOSE k \in DOMAIN verify.rows : verify.rows[k] = r
Verified == {verify.rows[k] : k \in DOMAIN verify.rows}

LEMMA AcceptStep ==
    ASSUME PleInv, Accept
    PROVE  PleInv' /\ LookupTrue'
  <1>1. /\ Shapes /\ StateTrue /\ TrackTrue /\ CacheTrue
        /\ \A k \in DOMAIN verify.rows : DraftsTrue(k)
    BY ZenonT(60) DEF PleInv, Accept, VerifyTrue
  <1> DEFINE row(r) == RowOfRequest(r)
             kept(r) == Max(Matches(row(r)))
  <1>2. /\ state' = [s \in Slots |-> IF s - 1 \in Verified THEN verify.states[row(s - 1)][kept(s - 1)] ELSE state[s]]
        /\ req' = [r \in Reqs |-> IF r \in Verified THEN [req[r] EXCEPT !.done = @ + kept(r)] ELSE req[r]]
        /\ verify' = None /\ looked' = {} /\ UNCHANGED <<config, cache>>
    BY DEF Accept, Verified, RowOfRequest, Matches, Range
  <1>3. ASSUME NEW r \in Verified
        PROVE  /\ r \in Reqs /\ kept(r) \in Nat /\ req[r].done + kept(r) \in 0 .. Len(Text[r])
               /\ verify.states[row(r)][kept(r)] = StateAfter(SubSeq(Text[r], 1, req[r].done + kept(r)))
    <2>1. row(r) \in DOMAIN verify.rows /\ verify.rows[row(r)] = r
      BY DEF Verified, RowOfRequest
    <2> HIDE DEF row
    <2>2. DraftsTrue(row(r))
      BY <1>1, <2>1
    <2> QED
      BY <1>1, <2>1, <2>2, KeptTrue
  <1> HIDE DEF row, kept
  <1>4. ASSUME NEW r \in Reqs
        PROVE  /\ req'[r] \in [done : Int, tracked : Int]
               /\ req'[r].done \in -1 .. Len(Text[r]) /\ req'[r].tracked \in 0 .. Len(Text[r])
               /\ req'[r].tracked = req[r].tracked
               /\ req'[r].done = IF r \in Verified THEN req[r].done + kept(r) ELSE req[r].done
    <2>1. /\ req[r] \in [done : Int, tracked : Int] /\ req[r].done \in -1 .. Len(Text[r])
          /\ req[r].tracked \in 0 .. Len(Text[r]) /\ Len(Text[r]) \in Nat
      BY <1>1, TextAssumption, LenProperties DEF Shapes
    <2>2. CASE r \in Verified
      <3>1. req'[r] = [req[r] EXCEPT !.done = @ + kept(r)]
        BY <1>2, <2>2
      <3>2. req[r].done + kept(r) \in 0 .. Len(Text[r])
        BY <1>3, <2>2
      <3>3. req[r].done + kept(r) \in Int /\ req[r].done + kept(r) \in -1 .. Len(Text[r])
        BY <2>1, <3>2
      <3>4. req'[r].done = req[r].done + kept(r) /\ req'[r].tracked = req[r].tracked
            /\ req'[r] \in [done : Int, tracked : Int]
        BY <2>1, <3>1, <3>3
      <3> QED
        BY <2>1, <2>2, <3>3, <3>4
    <2>3. CASE r \notin Verified
      BY <1>2, <2>1, <2>3
    <2> QED
      BY <2>2, <2>3
  <1>5. Shapes'
    <2>1. req' = [r \in Reqs |-> req'[r]] /\ state' = [s \in Slots |-> state'[s]]
      BY <1>2
    <2>2. req' \in [Reqs -> [done : Int, tracked : Int]]
      BY <1>4, <2>1
    <2> QED
      BY <1>1, <1>2, <1>4, <2>1, <2>2 DEF Shapes
  <1>6. StateTrue'
    <2> SUFFICES ASSUME NEW r \in Reqs, req'[r].done >= 0
                 PROVE  state'[Slot(r)] = StateAfter(SubSeq(Text[r], 1, req'[r].done))
      BY DEF StateTrue, Running
    <2>1. Slot(r) \in Slots /\ Slot(r) - 1 = r
      <3>1. r \in Int
        BY DEF Reqs
      <3> QED
        BY <3>1, SlotFacts DEF Slot
    <2>2. state'[Slot(r)] = IF r \in Verified THEN verify.states[row(r)][kept(r)] ELSE state[Slot(r)]
      BY <1>2, <2>1
    <2>3. CASE r \in Verified
      BY <1>3, <1>4, <2>2, <2>3
    <2>4. CASE r \notin Verified
      BY <1>1, <1>4, <2>2, <2>4 DEF StateTrue, Running
    <2> QED
      BY <2>3, <2>4
  <1>7. TrackTrue'
    <2> SUFFICES ASSUME NEW r \in Reqs, req'[r].tracked > 0
                 PROVE  state'[TrackSlot(r)] = StateAfter(SubSeq(Text[r], 1, req'[r].tracked))
      BY DEF TrackTrue
    <2>1. TrackSlot(r) \in Slots
      BY SlotFacts
    <2>2. TrackSlot(r) - 1 \notin Reqs
      <3>1. NumReqs \in Nat /\ r \in Nat
        BY SizeFacts DEF Reqs
      <3> QED
        BY <3>1 DEF TrackSlot, Reqs
    <2>3. TrackSlot(r) - 1 \notin Verified
      BY <1>3, <2>2
    <2>4. state'[TrackSlot(r)] = state[TrackSlot(r)]
      BY <1>2, <2>1, <2>3
    <2> QED
      BY <1>1, <1>4, <2>4 DEF TrackTrue
  <1>8. VerifyTrue' /\ CacheTrue' /\ LookupTrue'
    BY <1>1, <1>2 DEF VerifyTrue, CacheTrue, LookupTrue
  <1> QED
    BY <1>5, <1>6, <1>7, <1>8, SMTT(60) DEF PleInv

----------------------------------------------------------------------------
(* Verification                                                            *)

\* Rows of one width begin at its multiples.
LEMMA EvenStart ==
    ASSUME NEW n \in Nat, NEW d \in Nat
    PROVE  LET lens == [k \in 1 .. n |-> d]
           IN  /\ lens \in Seq(Nat) /\ Len(lens) = n /\ Total(lens) = n * d
               /\ \A k \in 0 .. n : QueryStartLoc(lens)[k] = k * d
  <1> DEFINE lens == [k \in 1 .. n |-> d]
             s == QueryStartLoc(lens)
             Bad == {k \in 0 .. n : s[k] # k * d}
  <1>1. lens \in Seq(Nat) /\ Len(lens) = n /\ \A k \in 1 .. n : lens[k] = d
    OBVIOUS
  <1>2. s[0] = 0 /\ \A k \in 1 .. n : s[k] = s[k - 1] + d
    <2> HIDE DEF lens
    <2> QED
      BY <1>1, QueryStart
  <1> HIDE DEF s
  <1>3. ASSUME Bad # {} PROVE FALSE
    <2>1. Bad \in SUBSET Nat
      OBVIOUS
    <2>2. PICK m \in Bad : \A k \in Bad : m <= k
      BY <1>3, <2>1, LeastOf
    <2>3. m \in 0 .. n /\ s[m] # m * d
      BY <2>2
    <2>4. 0 * d = 0
      BY SMT
    <2>5. m # 0
      BY <1>2, <2>3, <2>4
    <2>6. m \in 1 .. n /\ m - 1 \in 0 .. n /\ m - 1 \notin Bad
      BY <2>2, <2>3, <2>5
    <2>7. s[m] = s[m - 1] + d /\ s[m - 1] = (m - 1) * d
      BY <1>2, <2>6
    <2>8. (m - 1) * d + d = m * d
      BY <2>3, SMT
    <2> QED
      BY <2>3, <2>7, <2>8
  <1>4. \A k \in 0 .. n : s[k] = k * d
    BY <1>3
  <1>5. Total(lens) = n * d
    BY <1>1, <1>4 DEF Total, s
  <1> QED
    BY <1>1, <1>4, <1>5 DEF s

\* The tokens of a verification and the batch it makes.
Fed(rows, drafts, k) == <<Text[rows[k]][req[rows[k]].done + 1]>> \o drafts[k]
VerifyBatch(rows, pad, drafts, lens) ==
    [mode |-> "verify", rows |-> AllRows(rows, pad), lens |-> lens \o [i \in 1 .. pad |-> Stride],
     ids |-> FlattenSeq([k \in 1 .. Len(rows) |-> Fed(rows, drafts, k)]) \o Pad(pad * Stride),
     nonPadded |-> Len(rows) * Stride,
     located |-> [k \in 1 .. Len(rows) + pad |-> k <= Len(rows)]]
Drafted(rows, drafts, lens) ==
    /\ Decoded(rows)
    /\ drafts \in [1 .. Len(rows) -> [1 .. Stride - 1 -> Tokens]]
    /\ lens \in [1 .. Len(rows) -> 1 .. Stride]

LEMMA FedFacts ==
    ASSUME Shapes, NEW rows, NEW drafts, NEW lens, Drafted(rows, drafts, lens), NEW k \in 1 .. Len(rows)
    PROVE  /\ Fed(rows, drafts, k) \in Seq(Tokens) /\ Len(Fed(rows, drafts, k)) = Stride
           /\ Fed(rows, drafts, k)[1] = Text[rows[k]][req[rows[k]].done + 1]
           /\ lens[k] \in 1 .. Stride /\ Stride \in Nat \ {0}
  <1> DEFINE x == Text[rows[k]][req[rows[k]].done + 1]
             d == drafts[k]
  <1>1. Stride \in Nat \ {0} /\ Stride - 1 \in Nat
    BY SizeFacts
  <1>2. x \in Tokens
    <2>1. rows[k] \in Reqs /\ req[rows[k]].done + 1 \in 1 .. Len(Text[rows[k]])
      <3>1. /\ rows[k] \in Reqs /\ req[rows[k]].done \in Nat
            /\ req[rows[k]].done + 1 <= Len(Text[rows[k]]) /\ Len(Text[rows[k]]) \in Nat
        BY DecodedFacts DEF Drafted
      <3> QED
        BY <3>1
    <2> QED
      BY <2>1, TextAssumption, LenProperties
  <1>3. d \in [1 .. Stride - 1 -> Tokens] /\ lens[k] \in 1 .. Stride
    BY DEF Drafted
  <1>4. d \in Seq(Tokens) /\ Len(d) = Stride - 1
    BY <1>1, <1>3
  <1> HIDE DEF x, d
  <1>5. <<x>> \in Seq(Tokens) /\ Len(<<x>>) = 1 /\ <<x>>[1] = x
    BY <1>2
  <1>6. /\ <<x>> \o d \in Seq(Tokens) /\ Len(<<x>> \o d) = Len(<<x>>) + Len(d)
        /\ \A i \in 1 .. Len(<<x>>) : (<<x>> \o d)[i] = <<x>>[i]
    BY <1>4, <1>5, HistoryFacts
  <1>7. Len(<<x>> \o d) = Stride /\ (<<x>> \o d)[1] = x
    BY <1>1, <1>4, <1>5, <1>6
  <1> QED
    BY <1>1, <1>3, <1>6, <1>7 DEF Fed, x, d

LEMMA VerifyShape ==
    ASSUME Shapes, NEW rows, NEW pad \in 0 .. 1, NEW drafts, NEW lens, Drafted(rows, drafts, lens)
    PROVE  LET fb == VerifyBatch(rows, pad, drafts, lens)
               n == Len(rows)
           IN  /\ fb.mode = "verify" /\ RowWidth(fb) = Stride
               /\ \A k \in 1 .. n : fb.rows[k] = rows[k] /\ fb.lens[k] = lens[k]
               /\ \A k \in 1 .. n : \A i \in 1 .. Stride :
                     fb.ids[(k - 1) * Stride + i] = Fed(rows, drafts, k)[i]
               /\ Processed(fb) \in {n * Stride, n * Stride + pad * Stride}
               /\ \A k \in 1 .. n + pad : fb.located[k] = (k <= n)
  <1> DEFINE fb == VerifyBatch(rows, pad, drafts, lens)
             n == Len(rows)
             parts == [k \in 1 .. n |-> Fed(rows, drafts, k)]
             even == [k \in 1 .. n |-> Stride]
             f == FlattenSeq(parts)
             m == n * Stride
             p == pad * Stride
  <1>1. /\ fb.mode = "verify" /\ fb.rows = AllRows(rows, pad)
        /\ fb.lens = lens \o [i \in 1 .. pad |-> Stride] /\ fb.ids = f \o Pad(p)
        /\ fb.nonPadded = m /\ fb.located = [k \in 1 .. n + pad |-> k <= n]
    BY DEF VerifyBatch
  <1>2. n \in Nat /\ Stride \in Nat \ {0} /\ pad \in Nat /\ Decoded(rows)
    BY SizeFacts DEF Decoded, Drafted
  <1>3. m \in Nat /\ p \in Nat
    BY <1>2, SMT
  <1>4. IsSeq(parts, n) /\ \A k \in 1 .. n : parts[k] = Fed(rows, drafts, k)
    BY <1>2 DEF IsSeq
  <1>5. \A k \in 1 .. n : IsSeq(parts[k], Stride)
    <2> SUFFICES ASSUME NEW k \in 1 .. n PROVE IsSeq(parts[k], Stride)
      OBVIOUS
    <2>1. Fed(rows, drafts, k) \in Seq(Tokens) /\ Len(Fed(rows, drafts, k)) = Stride
      BY FedFacts
    <2> QED
      BY <1>4, <2>1, SeqIs
  <1>6. /\ even \in Seq(Nat) /\ Len(even) = n /\ Total(even) = m
        /\ \A k \in 0 .. n : QueryStartLoc(even)[k] = k * Stride
    BY <1>2, EvenStart
  <1>7. \A k \in 1 .. n : even[k] = Stride
    OBVIOUS
  <1> HIDE DEF parts, even, fb, n
  <1>8. /\ IsSeq(f, Total(even))
        /\ \A k \in 1 .. n : \A i \in 1 .. even[k] : f[QueryStartLoc(even)[k - 1] + i] = parts[k][i]
    BY <1>4, <1>5, <1>6, <1>7, Flattened
  <1> HIDE DEF f, m, p
  <1>9. IsSeq(f, m)
    BY <1>6, <1>8
  <1>10. IsSeq(Pad(p), p)
    BY <1>3 DEF Pad, IsSeq
  <1>11. Joined(fb.ids, f, m, Pad(p), p)
    BY <1>1, <1>9, <1>10, ConcatIs
  <1>12. IsSeq(fb.ids, m + p)
    BY <1>11 DEF Joined
  <1>13. Len(fb.ids) = m + p
    BY <1>12, SeqFacts
  <1>14. Processed(fb) \in {m, m + p}
    BY <1>1, <1>13 DEF Processed
  <1>15. RowWidth(fb) = Stride
    BY <1>1 DEF RowWidth
  <1>16. Joined(fb.rows, rows, n, [i \in 1 .. pad |-> 0], pad)
    BY <1>1, <1>2, PaddedRows DEF n
  <1>17. Joined(fb.lens, lens, n, [i \in 1 .. pad |-> Stride], pad)
    <2>1. IsSeq(lens, n) /\ IsSeq([i \in 1 .. pad |-> Stride], pad)
      BY <1>2 DEF IsSeq, Drafted, n
    <2> QED
      BY <1>1, <2>1, ConcatIs
  <1>18. \A k \in 1 .. n : fb.rows[k] = rows[k] /\ fb.lens[k] = lens[k]
    BY <1>16, <1>17 DEF Joined
  <1>19. ASSUME NEW k \in 1 .. n, NEW i \in 1 .. Stride
         PROVE  fb.ids[(k - 1) * Stride + i] = Fed(rows, drafts, k)[i]
    <2> DEFINE a == (k - 1) * Stride
    <2>1. k - 1 \in 0 .. n /\ k - 1 \in Nat /\ i \in 1 .. even[k]
      BY <1>2, <1>7
    <2>2. QueryStartLoc(even)[k - 1] = a
      BY <1>6, <2>1
    <2>3. a \in Nat /\ a + Stride <= m
      <3>1. a \in Nat
        BY <1>2, <2>1, SMT
      <3>2. a + Stride = k * Stride
        BY <1>2, SMT
      <3>3. k * Stride <= n * Stride
        BY <1>2, SMT
      <3> QED
        BY <3>1, <3>2, <3>3 DEF m
    <2> HIDE DEF a
    <2>4. a + i \in 1 .. m
      BY <1>2, <1>3, <2>3
    <2>5. f[a + i] = Fed(rows, drafts, k)[i]
      BY <1>4, <1>8, <2>1, <2>2
    <2>6. fb.ids[a + i] = f[a + i]
      BY <1>11, <2>4 DEF Joined
    <2> QED
      BY <2>5, <2>6 DEF a
  <1>20. \A k \in 1 .. n + pad : fb.located[k] = (k <= n)
    BY <1>1
  <1> QED
    BY <1>1, <1>14, <1>15, <1>18, <1>19, <1>20 DEF fb, n, m, p

\* A verification has a row for each of its requests, of all tokens fed or of
\* the valid ones.
LEMMA VerifyLengths ==
    ASSUME Shapes, NEW rows, NEW pad \in 0 .. 1, NEW drafts, NEW lens, Drafted(rows, drafts, lens)
    PROVE  LET fb == VerifyBatch(rows, pad, drafts, lens)
               n == Len(rows)
           IN  /\ Processed(fb) \in Nat /\ n * Stride <= Processed(fb)
               /\ DOMAIN Lengths(fb) \in {1 .. n, 1 .. n + pad}
               /\ \A k \in 1 .. n : Lengths(fb)[k] \in {Stride, lens[k]}
  <1> DEFINE fb == VerifyBatch(rows, pad, drafts, lens)
             n == Len(rows)
             d == Stride
  <1>1. /\ fb.mode = "verify" /\ Processed(fb) \in {n * d, n * d + pad * d}
        /\ \A k \in 1 .. n : fb.lens[k] = lens[k]
    <2>1. fb.mode = "verify" /\ \A k \in 1 .. n : fb.lens[k] = lens[k]
      BY VerifyShape
    <2>2. Processed(fb) \in {n * d, n * d + pad * d}
      BY VerifyShape, Zenon
    <2> QED
      BY <2>1, <2>2
  <1>2. n \in Nat /\ d \in Nat \ {0} /\ pad \in Nat
    BY SizeFacts DEF Decoded, Drafted
  <1> HIDE DEF fb, n, d
  <1>3. n * d \in Nat /\ pad * d \in Nat /\ n * d + pad * d = (n + pad) * d
    BY <1>2, SMT
  <1>4. Processed(fb) \in Nat /\ n * d <= Processed(fb)
    <2> DEFINE a == n * d
               b == pad * d
    <2>1. a \in Nat /\ b \in Nat /\ Processed(fb) \in {a, a + b}
      BY <1>1, <1>3
    <2> HIDE DEF a, b
    <2>2. Processed(fb) \in Nat /\ a <= Processed(fb)
      BY <2>1
    <2> QED
      BY <2>2 DEF a
  <1>5. \A q \in Nat : (q * d) \div d = q
    <2> SUFFICES ASSUME NEW q \in Nat PROVE (q * d) \div d = q
      OBVIOUS
    <2>1. 0 \in 0 .. d - 1
      BY <1>2
    <2>2. (d * q + 0) \div d = q
      BY <1>2, <2>1, DivUnique
    <2>3. d * q + 0 = q * d
      BY <1>2, SMT
    <2> QED
      BY <2>2, <2>3
  <1>6. Processed(fb) \div d \in {n, n + pad}
    <2>1. Processed(fb) \in {n * d, (n + pad) * d}
      BY <1>1, <1>3
    <2>2. n + pad \in Nat
      BY <1>2
    <2>3. (n * d) \div d = n /\ ((n + pad) * d) \div d = n + pad
      BY <1>2, <1>5, <2>2
    <2> QED
      BY <2>1, <2>3
  <1>7. Lengths(fb) = [k \in 1 .. Processed(fb) \div d |-> IF config.dp THEN d ELSE fb.lens[k]]
    BY <1>1 DEF Lengths, d
  <1>8. DOMAIN Lengths(fb) \in {1 .. n, 1 .. n + pad}
    BY <1>6, <1>7
  <1>9. ASSUME NEW k \in 1 .. n PROVE Lengths(fb)[k] \in {d, lens[k]}
    <2>1. k \in 1 .. Processed(fb) \div d
      BY <1>2, <1>6
    <2> QED
      BY <1>1, <1>7, <2>1
  <1> QED
    BY <1>4, <1>8, <1>9 DEF fb, n, d

\* The tokens row k of a verification feeds.
Given(rows, pad, drafts, lens, k) ==
    SubSeq(Fed(rows, drafts, k), 1, Lengths(VerifyBatch(rows, pad, drafts, lens))[k])

LEMMA VerifyReads ==
    ASSUME Shapes, NEW rows, NEW pad \in 0 .. 1, NEW drafts, NEW lens, Drafted(rows, drafts, lens),
           NEW k \in 1 .. Len(rows)
    PROVE  Reading(VerifyBatch(rows, pad, drafts, lens), k, Given(rows, pad, drafts, lens, k))
  <1> DEFINE fb == VerifyBatch(rows, pad, drafts, lens)
             n == Len(rows)
             d == Stride
             z == Fed(rows, drafts, k)
             l == Lengths(fb)[k]
             w == Given(rows, pad, drafts, lens, k)
  <1>1. /\ fb.mode = "verify" /\ RowWidth(fb) = d
        /\ fb.rows[k] = rows[k]
        /\ \A i \in 1 .. d : fb.ids[(k - 1) * d + i] = z[i]
        /\ \A j \in 1 .. n + pad : fb.located[j] = (j <= n)
    BY VerifyShape
  <1>2. /\ Processed(fb) \in Nat /\ n * d <= Processed(fb)
        /\ DOMAIN Lengths(fb) \in {1 .. n, 1 .. n + pad} /\ l \in {d, lens[k]}
    BY VerifyLengths
  <1>3. z \in Seq(Tokens) /\ Len(z) = d /\ lens[k] \in 1 .. d /\ d \in Nat \ {0}
    BY FedFacts
  <1>4. rows[k] \in Running /\ n \in Nat /\ pad \in Nat
    <2>1. Decoded(rows)
      BY DEF Drafted
    <2> QED
      BY <2>1, DecodedFacts DEF Decoded
  <1>5. w = SubSeq(z, 1, l)
    BY DEF Given
  <1>6. k \in 1 .. n
    OBVIOUS
  <1> HIDE DEF fb, n, d, z, l, w
  <1>7. l \in 1 .. d /\ l \in 0 .. Len(z) /\ l \in Nat
    BY <1>2, <1>3
  <1>8. w \in Seq(Tokens) /\ Len(w) = l /\ \A x \in 1 .. l : w[x] = z[x]
    BY <1>3, <1>5, <1>7, PrefixFacts
  <1>9. k \in DOMAIN Lengths(fb) /\ fb.located[k]
    <2>1. k \in 1 .. n + pad /\ k <= n
      BY <1>4, <1>6
    <2> QED
      BY <1>1, <1>2, <1>6, <2>1
  <1>10. k \in Nat \ {0} /\ (k - 1) * d + d <= Processed(fb) /\ (k - 1) * d \in Nat
    <2>1. k \in Nat \ {0} /\ k <= n
      BY <1>4, <1>6
    <2>2. (k - 1) * d + d = k * d /\ k * d <= n * d /\ k * d \in Nat /\ n * d \in Nat /\ (k - 1) * d \in Nat
      BY <1>3, <1>4, <2>1, SMT
    <2> QED
      BY <1>2, <2>1, <2>2
  <1>11. ASSUME NEW o \in 0 .. l - 1 PROVE Landing(fb, k, o) # {} /\ TokenAt(fb, k, o) = w[o + 1]
    <2>1. o \in 0 .. d - 1 /\ o + 1 \in 1 .. d /\ o + 1 \in 1 .. l
      BY <1>3, <1>7
    <2>2. (k - 1) * d + (o + 1) <= Processed(fb)
      <3> DEFINE a == (k - 1) * d
      <3>1. a \in Nat /\ a + d <= Processed(fb)
        BY <1>10
      <3> HIDE DEF a
      <3>2. a + (o + 1) <= Processed(fb)
        BY <1>2, <1>3, <2>1, <3>1
      <3> QED
        BY <3>2 DEF a
    <2>3. fb.mode # "extend"
      BY <1>1
    <2>4. Landing(fb, k, o) = {(k - 1) * d + (o + 1)}
      <3>1. /\ k \in Nat \ {0} /\ o \in 0 .. d - 1 /\ d \in Nat \ {0} /\ RowWidth(fb) = d
            /\ Processed(fb) \in Nat
        BY <1>1, <1>2, <1>3, <1>10, <2>1
      <3> QED
        BY ONLY <2>2, <2>3, <3>1, UniformLanding
    <2>5. TokenAt(fb, k, o) = fb.ids[(k - 1) * d + (o + 1)]
      BY <2>4 DEF TokenAt
    <2> QED
      BY <1>1, <1>8, <2>1, <2>4, <2>5
  <1>12. Feeds(fb, k, w)
    <2>1. RowWidth(fb) \in Nat /\ Len(w) <= RowWidth(fb) /\ Lengths(fb)[k] = Len(w)
      BY <1>1, <1>3, <1>7, <1>8 DEF l
    <2> QED
      BY <1>8, <1>9, <1>11, <2>1 DEF Feeds
  <1>13. StateIndex(fb, k) = Slot(rows[k])
    BY <1>1, <1>9 DEF StateIndex
  <1>14. Reading(fb, k, w)
    BY <1>1, <1>4, <1>8, <1>9, <1>12, <1>13 DEF Reading
  <1> QED
    BY <1>14 DEF fb, w

\* The record kept for the acceptance.
Pending(rows, drafts, lens, b) ==
    [rows |-> rows,
     fed |-> [k \in 1 .. Len(rows) |-> SubSeq(Fed(rows, drafts, k), 1, lens[k])],
     states |-> SubSeq(Intermediate(b), 1, Len(rows))]

\* Every state kept for a draft is the one after the tokens up to it.
LEMMA PendingTrue ==
    ASSUME Shapes, StateTrue, NEW rows, NEW pad \in 0 .. 1, NEW drafts, NEW lens,
           Drafted(rows, drafts, lens), NEW k \in 1 .. Len(rows)
    PROVE  LET fb == VerifyBatch(rows, pad, drafts, lens)
               v == Pending(rows, drafts, lens, Prepare(fb))
           IN  /\ v.rows[k] = rows[k]
               /\ v.fed[k] \in Seq(Tokens) /\ v.fed[k] # <<>>
               /\ v.fed[k][1] = Text[rows[k]][req[rows[k]].done + 1]
               /\ \A i \in 1 .. Len(v.fed[k]) :
                      v.states[k][i] = StateAfter(Past(rows[k]) \o SubSeq(v.fed[k], 1, i))
  <1> DEFINE fb == VerifyBatch(rows, pad, drafts, lens)
             b == Prepare(fb)
             v == Pending(rows, drafts, lens, b)
             n == Len(rows)
             d == Stride
             z == Fed(rows, drafts, k)
             l == Lengths(fb)[k]
             w == Given(rows, pad, drafts, lens, k)
             m == lens[k]
             r == rows[k]
  <1>1. /\ v.rows[k] = r /\ v.fed[k] = SubSeq(z, 1, m) /\ v.states = SubSeq(Intermediate(b), 1, n)
    BY DEF Pending
  <1>2. /\ z \in Seq(Tokens) /\ Len(z) = d /\ z[1] = Text[r][req[r].done + 1]
        /\ m \in 1 .. d /\ d \in Nat \ {0}
    BY FedFacts
  <1>3. l \in {d, m} /\ DOMAIN Lengths(fb) \in {1 .. n, 1 .. n + pad}
    BY VerifyLengths
  <1>4. n \in Nat /\ pad \in Nat /\ r \in Reqs /\ req[r].done \in Nat
    <2>1. Decoded(rows)
      BY DEF Drafted
    <2> QED
      BY <2>1, DecodedFacts DEF Decoded
  <1>5. w = SubSeq(z, 1, l) /\ Reading(fb, k, w) /\ fb.rows[k] = r
    BY VerifyReads, VerifyShape DEF Given
  <1>6. DOMAIN b.lens = DOMAIN Lengths(fb) /\ b.lens[k] = l
    BY PrepareShape
  <1>7. k \in 1 .. n
    OBVIOUS
  <1> HIDE DEF fb, b, v, n, d, z, l, w, m, r
  <1>8. m \in 0 .. Len(z) /\ l \in 0 .. Len(z) /\ m <= l /\ l <= d /\ m \in Nat /\ l \in Nat /\ 1 \in 1 .. m
    BY <1>2, <1>3
  <1>9. /\ SubSeq(z, 1, m) \in Seq(Tokens) /\ Len(SubSeq(z, 1, m)) = m
        /\ \A x \in 1 .. m : /\ SubSeq(z, 1, m)[x] = z[x]
                             /\ SubSeq(SubSeq(z, 1, m), 1, x) = SubSeq(z, 1, x)
    BY <1>2, <1>8, PrefixFacts
  <1>10. /\ w \in Seq(Tokens) /\ Len(w) = l
         /\ \A x \in 1 .. l : SubSeq(w, 1, x) = SubSeq(z, 1, x)
    BY <1>2, <1>5, <1>8, PrefixFacts
  <1>11. v.fed[k] \in Seq(Tokens) /\ v.fed[k] # <<>> /\ v.fed[k][1] = Text[r][req[r].done + 1]
    <2>1. Len(<<>>) = 0 /\ m # 0
      BY <1>2
    <2> QED
      BY <1>1, <1>2, <1>8, <1>9, <2>1
  <1>12. v.states[k] = Intermediate(b)[k] /\ k \in DOMAIN b.lens
    <2>1. Part(v.states, Intermediate(b), 1, n)
      <3>1. 1 \in Nat \ {0} /\ 1 <= n + 1
        BY <1>4
      <3> QED
        BY <1>1, <1>4, <3>1, SubSeqIs
    <2>2. n - 1 + 1 = n /\ (1 + k) - 1 = k /\ k \in 1 .. n + pad
      BY <1>4, <1>7
    <2>3. v.states[k] = Intermediate(b)[k]
      BY <1>7, <2>1, <2>2 DEF Part
    <2> QED
      BY <1>3, <1>6, <1>7, <2>2, <2>3
  <1>13. Past(r) \in Seq(Tokens) /\ Len(Past(r)) = req[r].done
    <2>1. req[r].done >= 0
      BY <1>4
    <2> QED
      BY <1>4, <2>1, PastFacts
  <1>14. ASSUME NEW i \in 1 .. m
         PROVE  v.states[k][i] = StateAfter(Past(r) \o SubSeq(SubSeq(z, 1, m), 1, i))
    <2>1. i \in 1 .. d /\ i <= b.lens[k] /\ i \in 0 .. Len(w) /\ i \in 1 .. Len(w) /\ i \in 1 .. l
      BY <1>2, <1>6, <1>8, <1>10
    <2>2. v.states[k][i] = StepState(b, k, i)
      BY <1>12, <2>1 DEF Intermediate, d
    <2>3. StepState(b, k, i) = GatherAt(b, k, i)
      BY <2>1 DEF StepState
    <2>4. GatherAt(b, k, i) = StateAfter(SubSeq(Past(r) \o w, 1, req[r].done + i))
      <3>1. GatherAt(Prepare(fb), k, i) = StateAfter(SubSeq(Past(fb.rows[k]) \o w, 1, req[fb.rows[k]].done + i))
        BY <1>5, <2>1, GatherTrue
      <3> QED
        BY <1>5, <3>1 DEF b
    <2>5. SubSeq(Past(r) \o w, 1, req[r].done + i) = Past(r) \o SubSeq(w, 1, i)
      BY <1>10, <1>13, <2>1, LongerPrefix
    <2>6. SubSeq(w, 1, i) = SubSeq(SubSeq(z, 1, m), 1, i)
      BY <1>9, <1>10, <2>1
    <2> QED
      BY <2>2, <2>3, <2>4, <2>5, <2>6
  <1>15. \A i \in 1 .. Len(v.fed[k]) : v.states[k][i] = StateAfter(Past(r) \o SubSeq(v.fed[k], 1, i))
    BY <1>1, <1>9, <1>14
  <1> QED
    BY <1>1, <1>11, <1>15 DEF v, b, fb, r

LEMMA VerifyStep ==
    ASSUME PleInv, TargetVerify
    PROVE  PleInv' /\ LookupTrue'
  <1>1. Shapes /\ StateTrue /\ TrackTrue /\ CacheTrue
    BY DEF PleInv
  <1>2. /\ \E rs \in (SUBSET Decoding) \ {{}} : \E pad \in 0 .. 1 :
             LET rows == SetToSeq(rs)
             IN  \E drafts \in [1 .. Len(rows) -> [1 .. Stride - 1 -> Tokens]] :
                 \E lens \in [1 .. Len(rows) -> 1 .. Stride] :
                   LET fb == VerifyBatch(rows, pad, drafts, lens)
                   IN  /\ verify' = Pending(rows, drafts, lens, Prepare(fb))
                       /\ looked' = LookUp(fb, Prepare(fb))
        /\ UNCHANGED <<config, state, req, cache>>
    BY DEF TargetVerify, VerifyBatch, AllRows, Fed, Pending
  <1>3. PICK rs \in (SUBSET Decoding) \ {{}} : \E pad \in 0 .. 1 :
             LET rows == SetToSeq(rs)
             IN  \E drafts \in [1 .. Len(rows) -> [1 .. Stride - 1 -> Tokens]] :
                 \E lens \in [1 .. Len(rows) -> 1 .. Stride] :
                   LET fb == VerifyBatch(rows, pad, drafts, lens)
                   IN  /\ verify' = Pending(rows, drafts, lens, Prepare(fb))
                       /\ looked' = LookUp(fb, Prepare(fb))
    BY <1>2
  <1> DEFINE rows == SetToSeq(rs)
             n == Len(rows)
  <1>4. PICK pad \in 0 .. 1 :
             \E drafts \in [1 .. n -> [1 .. Stride - 1 -> Tokens]] : \E lens \in [1 .. n -> 1 .. Stride] :
                /\ verify' = Pending(rows, drafts, lens, Prepare(VerifyBatch(rows, pad, drafts, lens)))
                /\ looked' = LookUp(VerifyBatch(rows, pad, drafts, lens),
                                    Prepare(VerifyBatch(rows, pad, drafts, lens)))
    BY <1>3
  <1>5. PICK drafts \in [1 .. n -> [1 .. Stride - 1 -> Tokens]] : \E lens \in [1 .. n -> 1 .. Stride] :
                /\ verify' = Pending(rows, drafts, lens, Prepare(VerifyBatch(rows, pad, drafts, lens)))
                /\ looked' = LookUp(VerifyBatch(rows, pad, drafts, lens),
                                    Prepare(VerifyBatch(rows, pad, drafts, lens)))
    BY <1>4
  <1>6. PICK lens \in [1 .. n -> 1 .. Stride] :
                /\ verify' = Pending(rows, drafts, lens, Prepare(VerifyBatch(rows, pad, drafts, lens)))
                /\ looked' = LookUp(VerifyBatch(rows, pad, drafts, lens),
                                    Prepare(VerifyBatch(rows, pad, drafts, lens)))
    BY <1>5
  <1> DEFINE fb == VerifyBatch(rows, pad, drafts, lens)
             v == Pending(rows, drafts, lens, Prepare(fb))
  <1>7. Decoded(rows)
    <2>1. IsFiniteSet(rs) /\ rs # {} /\ rs \subseteq Decoding
      <3>1. rs # {} /\ rs \subseteq Decoding
        OBVIOUS
      <3>2. rs \in SUBSET Reqs
        BY <3>1 DEF Decoding, Running
      <3>3. IsFiniteSet(rs)
        BY <3>2, ReqsFinite, FS_Subset
      <3> QED
        BY <3>1, <3>3
    <2> QED
      BY <2>1, Sequenced DEF Decoded
  <1> HIDE DEF rows
  <1>8. Drafted(rows, drafts, lens)
    BY <1>7 DEF Drafted
  <1>9. DOMAIN v.rows = 1 .. n
    BY <1>7 DEF Pending, Decoded
  <1>10. ASSUME NEW k \in 1 .. n
         PROVE  /\ v.rows[k] = rows[k]
                /\ v.fed[k] \in Seq(Tokens) /\ v.fed[k] # <<>>
                /\ v.fed[k][1] = Text[rows[k]][req[rows[k]].done + 1]
                /\ \A i \in 1 .. Len(v.fed[k]) :
                       v.states[k][i] = StateAfter(Past(rows[k]) \o SubSeq(v.fed[k], 1, i))
    BY <1>1, <1>8, PendingTrue
  <1>11. verify' = v /\ looked' = LookUp(fb, Prepare(fb))
    BY <1>6
  <1> HIDE DEF v
  <1>12. VerifyTrue'
    <2> SUFFICES ASSUME NEW k \in DOMAIN v.rows PROVE DraftsTrue(k)'
      BY <1>11 DEF VerifyTrue
    <2>1. k \in 1 .. n /\ v.rows[k] = rows[k]
      BY <1>9, <1>10
    <2>2. rows[k] \in Reqs /\ req[rows[k]].done \in 0 .. Len(Text[rows[k]]) - 1
      <3>1. /\ rows[k] \in Reqs /\ req[rows[k]].done \in Nat
            /\ req[rows[k]].done + 1 <= Len(Text[rows[k]]) /\ Len(Text[rows[k]]) \in Nat
        BY <1>1, <1>7, <2>1, DecodedFacts
      <3> QED
        BY <3>1
    <2>3. \A j \in DOMAIN v.rows : v.rows[j] = rows[k] => j = k
      BY <1>7, <1>9, <1>10, <2>1 DEF Decoded
    <2>4. req' = req /\ verify' = v
      BY <1>2, <1>11
    <2>5. PICK q : q = rows[k]
      OBVIOUS
    <2>6. /\ v.rows[k] = q /\ v.fed[k] \in Seq(Tokens) /\ v.fed[k] # <<>>
          /\ v.fed[k][1] = Text[q][req[q].done + 1]
          /\ \A i \in 1 .. Len(v.fed[k]) :
                 v.states[k][i] = StateAfter(SubSeq(Text[q], 1, req[q].done) \o SubSeq(v.fed[k], 1, i))
      BY <1>10, <2>1, <2>5 DEF Past
    <2> QED
      BY <2>2, <2>3, <2>4, <2>5, <2>6 DEF DraftsTrue, Past
  <1>13. Shapes' /\ StateTrue' /\ TrackTrue' /\ CacheTrue'
    BY <1>1, <1>2 DEF Shapes, StateTrue, TrackTrue, CacheTrue, Running
  <1>14. /\ RowWidth(fb) \in Nat /\ DOMAIN Lengths(fb) \in {1 .. n, 1 .. n + pad}
         /\ \A k \in 1 .. n + pad : fb.located[k] = (k <= n)
         /\ n \in Nat
    <2>1. RowWidth(fb) = Stride /\ \A k \in 1 .. n + pad : fb.located[k] = (k <= n)
      BY <1>1, <1>8, VerifyShape
    <2>2. DOMAIN Lengths(fb) \in {1 .. n, 1 .. n + pad}
      BY <1>1, <1>8, VerifyLengths
    <2>3. Stride \in Nat /\ n \in Nat
      BY <1>7, SizeFacts DEF Decoded
    <2> QED
      BY <2>1, <2>2, <2>3
  <1>15. \A k \in 1 .. n : Reading(fb, k, Given(rows, pad, drafts, lens, k))
    BY <1>1, <1>8, VerifyReads
  <1> HIDE DEF fb, n
  <1>16. \A k \in DOMAIN Lengths(fb) : fb.located[k] => \E w : Reading(fb, k, w)
    <2> SUFFICES ASSUME NEW k \in DOMAIN Lengths(fb), fb.located[k] PROVE \E w : Reading(fb, k, w)
      OBVIOUS
    <2>1. k \in 1 .. n + pad /\ (k \in 1 .. n \/ ~(k <= n))
      BY <1>14
    <2>2. fb.located[k] = (k <= n)
      BY <1>14, <2>1
    <2>3. k \in 1 .. n
      BY <2>1, <2>2
    <2> QED
      BY <1>15, <2>3
  <1>17. \A l \in LookUp(fb, Prepare(fb)) : LooksTrue(l)
    BY <1>1, <1>14, <1>16, LookUpTrue
  <1>18. \A l \in looked' : LooksTrue(l)
    BY <1>11, <1>17
  <1> QED
    BY <1>12, <1>13, <1>18 DEF PleInv, LookupTrue, LooksTrue

----------------------------------------------------------------------------
(* The theorems                                                            *)

LEMMA PleInit ==
    ASSUME Init
    PROVE  PleInv /\ LookupTrue
  <1>1. /\ config \in Configs /\ state = [s \in Slots |-> Dummy]
        /\ req = [r \in Reqs |-> [done |-> -1, tracked |-> 0]]
        /\ verify = None /\ cache = <<>> /\ looked = {}
    BY DEF Init
  <1>2. \A r \in Reqs : req[r].done = -1 /\ req[r].tracked = 0 /\ Len(Text[r]) \in Nat
    BY <1>1, TextAssumption, LenProperties
  <1>3. req \in [Reqs -> [done : Int, tracked : Int]]
    BY <1>1
  <1>4. DOMAIN cache = {}
    BY <1>1
  <1>5. \A r \in Reqs : req[r].done \in -1 .. Len(Text[r]) /\ req[r].tracked \in 0 .. Len(Text[r])
    BY <1>2
  <1>6. Shapes
    BY <1>1, <1>3, <1>4, <1>5 DEF Shapes
  <1>7. StateTrue /\ TrackTrue
    BY <1>2 DEF StateTrue, TrackTrue, Running
  <1>8. VerifyTrue /\ CacheTrue /\ LookupTrue
    BY <1>1, <1>4 DEF VerifyTrue, CacheTrue, LookupTrue
  <1> QED
    BY <1>6, <1>7, <1>8 DEF PleInv

LEMMA PleStep ==
    ASSUME PleInv, LookupTrue, [Next]_vars
    PROVE  PleInv' /\ LookupTrue'
  <1>1. CASE Extend
    BY <1>1, ExtendStep
  <1>2. CASE Decode
    BY <1>2, DecodeStep
  <1>3. CASE TargetVerify
    BY <1>3, VerifyStep
  <1>4. CASE Accept
    BY <1>4, AcceptStep
  <1>5. ASSUME NEW r \in Reqs, Admit(r) PROVE PleInv' /\ LookupTrue'
    BY <1>5, AdmitStep
  <1>6. ASSUME NEW r \in Reqs, Donate(r) PROVE PleInv' /\ LookupTrue'
    BY <1>6, DonateStep
  <1>7. ASSUME NEW r \in Reqs, Finish(r) PROVE PleInv' /\ LookupTrue'
    BY <1>7, FinishStep
  <1>8. CASE UNCHANGED vars
    <2>1. UNCHANGED <<config, state, req, verify, cache, looked>>
      BY <1>8 DEF vars
    <2>2. Shapes' /\ StateTrue' /\ TrackTrue' /\ CacheTrue' /\ LookupTrue'
      BY <2>1 DEF PleInv, Shapes, StateTrue, TrackTrue, CacheTrue, LookupTrue, Running
    <2>3. VerifyTrue'
      BY <2>1 DEF PleInv, VerifyTrue, DraftsTrue, Past
    <2> QED
      BY <2>2, <2>3 DEF PleInv
  <1> QED
    BY <1>1, <1>2, <1>3, <1>4, <1>5, <1>6, <1>7, <1>8 DEF Next

\* The invariant is inductive, and every lookup of a state it allows is true.
LEMMA PleInvAlways == Spec => [](PleInv /\ LookupTrue)
  <1>1. Init => PleInv /\ LookupTrue
    BY PleInit
  <1>2. PleInv /\ LookupTrue /\ [Next]_vars => (PleInv /\ LookupTrue)'
    BY PleStep
  <1> QED
    BY <1>1, <1>2, PTL DEF Spec

\* Whatever chunks, captured graphs, padding, verifications and cache hits a
\* text went through, the two state pools hold after its committed tokens what
\* one pass over the whole text leaves (commit_ple_metadata and the gathers of
\* the n-gram and convolution states).
THEOREM StateTrueAlways == Spec => []StateTrue
  <1>1. PleInv /\ LookupTrue => StateTrue
    BY DEF PleInv
  <1> QED
    BY <1>1, PleInvAlways, PTL

\* What the prefix cache takes over from the track slots is the state after
\* exactly the prefix it is filed under, at whatever boundary the snapshot was
\* taken.
THEOREM CacheTrueAlways == Spec => []CacheTrue
  <1>1. PleInv /\ LookupTrue => CacheTrue
    BY DEF PleInv
  <1> QED
    BY <1>1, PleInvAlways, PTL

\* Every token is hashed with the tokens before it up to the last end of text
\* (compute_ngram_ids) and convolved with the inputs a dilation apart
\* (_short_conv), as if its whole history were one row.
THEOREM LookupTrueAlways == Spec => []LookupTrue
  <1>1. PleInv /\ LookupTrue => LookupTrue
    OBVIOUS
  <1> QED
    BY <1>1, PleInvAlways, PTL

\* Every snapshot a request may still donate is the state after its tracked
\* prefix, and every state a verification keeps is the one after the tokens up
\* to that draft: what Accept and Donate pick from is true before they pick.
THEOREM PendingStatesTrue == Spec => [](TrackTrue /\ VerifyTrue)
  <1>1. PleInv /\ LookupTrue => TrackTrue /\ VerifyTrue
    BY DEF PleInv
  <1> QED
    BY <1>1, PleInvAlways, PTL
=============================================================================
