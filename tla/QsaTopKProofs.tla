--------------------------- MODULE QsaTopKProofs ---------------------------
(***************************************************************************)
(* Proofs about QsaTopK, for every value of its constants: the tiles of a  *)
(* launch cover every window however they are shared among thread blocks   *)
(* (MatchesReference), and the expansion of the selected blocks hands      *)
(* attention the tokens it should read (TokensSound).                      *)
(***************************************************************************)
EXTENDS QsaTopK, FiniteSetTheorems, SequenceTheorems, WellFoundedInduction, TLAPS

----------------------------------------------------------------------------
(* Arithmetic                                                              *)

LEMMA DivMod ==
    ASSUME NEW n \in Nat, NEW d \in Nat \ {0}
    PROVE  /\ n \div d \in Nat /\ n % d \in 0 .. d - 1
           /\ n = d * (n \div d) + (n % d)
  BY SMT

\* Where the quotient of n lies, from where n lies between multiples of d.
LEMMA DivBounds ==
    ASSUME NEW n \in Nat, NEW d \in Nat \ {0}, NEW q \in Nat
    PROVE  /\ n < d * q => n \div d < q
           /\ n >= d * q => n \div d >= q
  <1> DEFINE u == n \div d
             v == n % d
  <1>1. u \in Nat /\ v \in 0 .. d - 1 /\ n = d * u + v
    BY DivMod
  <1> HIDE DEF u, v
  <1>2. ASSUME n < d * q, u >= q
        PROVE  FALSE
    <2>1. d * u = d * q + d * (u - q) /\ d * (u - q) >= 0
      BY <1>1, <1>2, SMT
    <2> QED
      BY <1>1, <1>2, <2>1, SMT
  <1>3. ASSUME n >= d * q, u < q
        PROVE  FALSE
    <2>1. d * q = d * u + d * (q - u) /\ d * (q - u) >= d
      BY <1>1, <1>3, SMT
    <2> QED
      BY <1>1, <1>3, <2>1, SMT
  <1> QED
    BY <1>1, <1>2, <1>3 DEF u

LEMMA DivModUnique ==
    ASSUME NEW d \in Nat \ {0}, NEW q \in Nat, NEW r \in 0 .. d - 1
    PROVE  (d * q + r) \div d = q /\ (d * q + r) % d = r
  <1> DEFINE n == d * q + r
             u == n \div d
             v == n % d
  <1>1. n \in Nat
    BY SMT
  <1>2. u \in Nat /\ v \in 0 .. d - 1 /\ n = d * u + v
    BY <1>1, DivMod
  <1>3. n < d * (q + 1) /\ n >= d * q
    BY SMT
  <1>4. u = q
    <2> HIDE DEF n, u, v
    <2>1. u < q + 1 /\ u >= q
      BY <1>1, <1>3, DivBounds DEF u
    <2> QED
      BY <1>2, <2>1
  <1> QED
    BY <1>2, <1>4, SMT

\* Pieces of d cover n: the piece of a position x below n is one of them.
LEMMA CeilCovers ==
    ASSUME NEW n \in Nat, NEW d \in Nat \ {0}, NEW x \in 0 .. n - 1
    PROVE  x \div d \in 0 .. CeilDiv(n, d) - 1
  <1> DEFINE q == x \div d
             y == n + d - 1
  <1>1. q \in Nat /\ x >= d * q
    <2>1. x \in Nat
      OBVIOUS
    <2>2. q \in Nat /\ x % d \in 0 .. d - 1 /\ x = d * q + (x % d)
      BY <2>1, DivMod
    <2> QED
      BY <2>2, SMT
  <1>2. y \in Nat /\ y >= d * (q + 1)
    <2>1. d * (q + 1) = d * q + d
      BY <1>1, SMT
    <2>2. d * q \in Nat /\ x + d \in Nat
      BY <1>1, SMT
    <2> QED
      BY <1>1, <2>1, <2>2, SMT
  <1> HIDE DEF q, y
  <1>3. y \div d \in Nat
    BY <1>2, DivMod
  <1>4. y \div d >= q + 1
    <2>1. q + 1 \in Nat
      BY <1>1
    <2> QED
      BY <1>2, <2>1, DivBounds
  <1> QED
    BY <1>1, <1>3, <1>4 DEF q, y, CeilDiv

\* Rounded shares: every one of T tiles falls into the share of some of the
\* Split thread blocks, however the fractions round.
LEMMA SharesCover ==
    ASSUME NEW T \in Nat, NEW t \in 0 .. T - 1
    PROVE  \E s \in 0 .. Split - 1 :
               t \in (T * s) \div Split .. ((T * (s + 1)) \div Split) - 1
  <1> DEFINE n == (t + 1) * Split - 1
             s == n \div T
             v == n % T
  <1>1. Split \in Nat \ {0} /\ T \in Nat \ {0} /\ t \in Nat /\ t < T
    BY SizeAssumption
  <1>2. n \in Nat /\ n < T * Split
    <2>1. (t + 1) * Split >= Split /\ (t + 1) * Split \in Nat
      BY <1>1, SMT
    <2>2. T * Split - (t + 1) * Split = (T - t - 1) * Split /\ (T - t - 1) * Split >= 0
      BY <1>1, SMT
    <2>3. T * Split \in Nat
      BY <1>1, SMT
    <2> QED
      BY <1>1, <2>1, <2>2, <2>3, SMT
  <1>3. s \in Nat /\ v \in 0 .. T - 1 /\ n = T * s + v
    <2> HIDE DEF n
    <2> QED
      BY <1>1, <1>2, DivMod
  <1>4. s < Split
    <2> HIDE DEF n
    <2> QED
      BY <1>1, <1>2, DivBounds DEF s
  <1>5. n = (t + 1) * Split - 1
    OBVIOUS
  <1> HIDE DEF n, s, v
  <1>6. T * s \in Nat /\ T * (s + 1) \in Nat /\ (t + 1) * Split = Split * (t + 1)
    BY <1>1, <1>3, SMT
  <1>7. T * s < Split * (t + 1)
    BY <1>1, <1>3, <1>5, <1>6, SMT
  <1>8. T * (s + 1) >= Split * (t + 1)
    <2>1. T * (s + 1) = T * s + T
      BY <1>1, <1>3, SMT
    <2>2. Split * (t + 1) \in Nat
      BY <1>1, SMT
    <2> QED
      BY <1>1, <1>3, <1>5, <1>6, <2>1, <2>2, SMT
  <1>9. (T * s) \div Split < t + 1 /\ (T * (s + 1)) \div Split >= t + 1
    BY <1>1, <1>6, <1>7, <1>8, DivBounds
  <1>10. (T * s) \div Split \in Nat /\ (T * (s + 1)) \div Split \in Nat
    BY <1>1, <1>6, DivMod
  <1>11. t \in (T * s) \div Split .. ((T * (s + 1)) \div Split) - 1
    BY <1>1, <1>9, <1>10
  <1>12. s \in 0 .. Split - 1
    BY <1>1, <1>3, <1>4
  <1> QED
    BY <1>11, <1>12

\* Bounded sets of naturals have a least and a greatest element.
LEMMA Extremes ==
    ASSUME NEW S, NEW n \in Nat, S \subseteq 0 .. n, S # {}
    PROVE  /\ Min(S) \in S /\ \A x \in S : Min(S) <= x
           /\ Max(S) \in S /\ \A x \in S : x <= Max(S)
  <1>1. IsWellFoundedOn(OpToRel(<, Nat), Nat)
    BY NatLessThanWellFounded
  <1>2. \A T \in SUBSET Nat : T # {} => \E m \in T : \A x \in T : m <= x
    <2> SUFFICES ASSUME NEW T \in SUBSET Nat, T # {}
                 PROVE  \E m \in T : \A x \in T : m <= x
      OBVIOUS
    <2>1. PICK m \in T : \A x \in T : <<x, m>> \notin OpToRel(<, Nat)
      BY <1>1, WFMin
    <2>2. \A x \in T : ~(x < m)
      BY <2>1 DEF OpToRel
    <2> QED
      BY <2>2
  <1>3. S \in SUBSET Nat
    OBVIOUS
  <1>4. \E m \in S : \A x \in S : m <= x
    BY <1>2, <1>3
  <1> DEFINE Gaps == {n - x : x \in S}
  <1>5. Gaps \in SUBSET Nat /\ Gaps # {}
    OBVIOUS
  <1>6. PICK g \in Gaps : \A y \in Gaps : g <= y
    <2> HIDE DEF Gaps
    <2> QED
      BY <1>2, <1>5
  <1>7. PICK m \in S : g = n - m
    OBVIOUS
  <1>8. \A x \in S : x <= m
    <2> SUFFICES ASSUME NEW x \in S PROVE x <= m
      OBVIOUS
    <2>1. n - x \in Gaps
      OBVIOUS
    <2>2. n - m <= n - x
      BY <1>6, <1>7, <2>1
    <2> QED
      BY <2>2
  <1> QED
    BY <1>4, <1>8 DEF Min, Max

----------------------------------------------------------------------------
(* The launch                                                              *)

LEMMA JobFacts ==
    ASSUME job \in Jobs
    PROVE  /\ NumRows \in Nat /\ NumKeys \in Nat /\ job.decode \in BOOLEAN
           /\ \A row \in 1 .. NumRows :
                /\ Rows[row][1] \in Requests /\ Rows[row][2] \in Nat
                /\ job.lens[Rows[row][1]] \in Nat \ {0}
                /\ Rows[row][2] < job.lens[Rows[row][1]]
  <1>1. JobShape(job)
    BY JobAssumption
  <1>2. job.rows \in Seq((DOMAIN job.lens) \X Nat) /\ job.keys \in Nat /\ job.decode \in BOOLEAN
    BY <1>1 DEF JobShape
  <1>3. job.lens \in Seq(Nat \ {0}) /\ \A row \in DOMAIN job.rows : job.rows[row][2] < job.lens[job.rows[row][1]]
    BY <1>1 DEF JobShape
  <1>4. Len(job.rows) \in Nat /\ DOMAIN job.rows = 1 .. Len(job.rows)
    BY <1>2
  <1>5. \A row \in 1 .. Len(job.rows) : job.rows[row] \in (DOMAIN job.lens) \X Nat
    BY <1>2
  <1>6. \A r \in DOMAIN job.lens : job.lens[r] \in Nat \ {0}
    BY <1>3
  <1> QED
    BY <1>2, <1>3, <1>4, <1>5, <1>6 DEF NumRows, Rows, NumKeys, Requests

LEMMA WindowFacts ==
    ASSUME job \in Jobs, NEW row \in 1 .. NumRows
    PROVE  /\ Start(row) \in Nat /\ End(row) \in Nat
           /\ Start(row) <= End(row) /\ End(row) <= NumKeys
           /\ End(row) = Start(row) + (Rows[row][2] + 1) \div Ratio
           /\ (Rows[row][2] + 1) \div Ratio \in Nat
           /\ (Rows[row][2] + 1) \div Ratio <= KeysOf(Rows[row][1])
           /\ job.decode => Start(row) = 0
           /\ Base(Rows[row][1]) = Start(row)
  <1> DEFINE r == Rows[row][1]
             p == Rows[row][2] + 1
             n == job.lens[r]
  <1>1. r \in Requests /\ p \in Nat /\ n \in Nat /\ p <= n /\ Ratio \in Nat \ {0}
    BY JobFacts, SizeAssumption
  <1>2. /\ job.first[r] \in Nat /\ job.first[r] + n \div Ratio <= job.keys
        /\ job.decode => job.first[r] = 0
    <2>1. JobShape(job)
      BY JobAssumption
    <2> QED
      BY <1>1, <2>1 DEF JobShape, Requests
  <1> HIDE DEF r, p, n
  <1>3. p \div Ratio \in Nat /\ n \div Ratio \in Nat
    BY <1>1, DivMod
  <1>4. p \div Ratio <= n \div Ratio
    <2>1. p \div Ratio \in Nat /\ p % Ratio \in 0 .. Ratio - 1 /\ p = Ratio * (p \div Ratio) + (p % Ratio)
      BY <1>1, DivMod
    <2>2. n >= Ratio * (p \div Ratio)
      <3> DEFINE x == Ratio * (p \div Ratio)
      <3>1. x \in Nat
        BY <1>1, <2>1, SMT
      <3> QED
        BY <1>1, <2>1, <3>1, SMT
    <2> QED
      BY <1>1, <1>3, <2>2, DivBounds
  <1>5. /\ Start(row) = job.first[r] /\ End(row) = job.first[r] + p \div Ratio
        /\ KeysOf(r) = n \div Ratio /\ NumKeys = job.keys /\ Base(r) = job.first[r]
        /\ r = Rows[row][1] /\ p = Rows[row][2] + 1
    BY DEF Start, End, Base, KeysOf, NumKeys, r, p, n
  <1>6. job.keys \in Nat
    BY JobFacts DEF NumKeys
  <1> QED
    BY <1>2, <1>3, <1>4, <1>5, <1>6

----------------------------------------------------------------------------
(* Tiles of the prefill kernel                                             *)

LEMMA RowHasBlock ==
    ASSUME job \in Jobs, NEW row \in 1 .. NumRows
    PROVE  \E b \in 1 .. RowBlocks : row \in BlockRows(b)
  <1> DEFINE q == (row - 1) \div BlockQ
             v == (row - 1) % BlockQ
  <1>1. NumRows \in Nat /\ BlockQ \in Nat \ {0} /\ row \in Nat /\ row - 1 \in 0 .. NumRows - 1
    BY JobFacts, SizeAssumption
  <1>2. q \in Nat /\ v \in 0 .. BlockQ - 1 /\ row - 1 = BlockQ * q + v
    <2>1. row - 1 \in Nat
      BY <1>1
    <2> QED
      BY <1>1, <2>1, DivMod
  <1>3. q \in 0 .. RowBlocks - 1
    BY <1>1, CeilCovers DEF RowBlocks
  <1>4. RowBlocks \in Int
    BY <1>1 DEF RowBlocks, CeilDiv
  <1> HIDE DEF q, v
  <1>5. PICK b \in 1 .. RowBlocks : b = q + 1
    BY <1>2, <1>3, <1>4
  <1> DEFINE B == (b - 1) * BlockQ + 1 .. b * BlockQ
  <1>6. row \in B
    <2>1. /\ (b - 1) * BlockQ = BlockQ * q /\ b * BlockQ = BlockQ * q + BlockQ
          /\ BlockQ * q \in Nat
      BY <1>1, <1>2, <1>5, SMT
    <2> QED
      BY <1>1, <1>2, <2>1, SMT
  <1>7. BlockRows(b) = {IF i <= NumRows THEN i ELSE NumRows : i \in B}
    BY DEF BlockRows
  <1> HIDE DEF B
  <1>8. row = IF row <= NumRows THEN row ELSE NumRows
    BY <1>1
  <1> QED
    BY <1>6, <1>7, <1>8

LEMMA BlockRowsFacts ==
    ASSUME job \in Jobs, NEW b \in 1 .. RowBlocks
    PROVE  BlockRows(b) \subseteq 1 .. NumRows /\ BlockRows(b) # {}
  <1>1. NumRows \in Nat /\ BlockQ \in Nat \ {0}
    BY JobFacts, SizeAssumption
  <1>2. RowBlocks \in Nat /\ b \in Nat \ {0}
    <2>1. NumRows + BlockQ - 1 \in Nat
      BY <1>1
    <2> QED
      BY <1>1, <2>1, DivMod DEF RowBlocks, CeilDiv
  <1>3. NumRows # 0
    <2>1. SUFFICES ASSUME NumRows = 0 PROVE FALSE
      OBVIOUS
    <2>2. BlockQ - 1 \in Nat /\ BlockQ - 1 < BlockQ * 1
      BY <1>1
    <2>3. (BlockQ - 1) \div BlockQ < 1
      BY <1>1, <2>2, DivBounds
    <2> QED
      BY <1>1, <1>2, <2>1, <2>3 DEF RowBlocks, CeilDiv
  <1> DEFINE first == (b - 1) * BlockQ + 1
  <1>4. first \in Nat \ {0} /\ first <= b * BlockQ /\ b * BlockQ \in Nat
    <2>1. (b - 1) * BlockQ \in Nat /\ b * BlockQ = (b - 1) * BlockQ + BlockQ
      BY <1>1, <1>2, SMT
    <2> QED
      BY <1>1, <2>1
  <1>5. first \in first .. b * BlockQ /\ first .. b * BlockQ \subseteq Nat \ {0}
    BY <1>4
  <1>6. BlockRows(b) = {IF i <= NumRows THEN i ELSE NumRows : i \in first .. b * BlockQ}
    BY DEF BlockRows
  <1> HIDE DEF first
  <1>7. \A i \in first .. b * BlockQ : (IF i <= NumRows THEN i ELSE NumRows) \in 1 .. NumRows
    BY <1>1, <1>3, <1>5
  <1> QED
    BY <1>5, <1>6, <1>7

LEMMA TileBounds ==
    ASSUME job \in Jobs, NEW b \in 1 .. RowBlocks
    PROVE  /\ StartMin(b) \in Nat /\ EndMax(b) \in Nat
           /\ \A row \in BlockRows(b) : StartMin(b) <= Start(row) /\ End(row) <= EndMax(b)
  <1>1. BlockRows(b) \subseteq 1 .. NumRows /\ BlockRows(b) # {} /\ NumKeys \in Nat
    BY BlockRowsFacts, JobFacts
  <1>2. \A row \in BlockRows(b) : /\ Clipped(Start(row)) = Start(row) /\ Clipped(End(row)) = End(row)
                                  /\ Start(row) \in 0 .. NumKeys /\ End(row) \in 0 .. NumKeys
    <2> TAKE row \in BlockRows(b)
    <2>1. Start(row) \in Nat /\ End(row) \in Nat /\ Start(row) <= End(row) /\ End(row) <= NumKeys
      BY <1>1, WindowFacts
    <2> QED
      BY <1>1, <2>1 DEF Clipped
  <1> DEFINE S == {Clipped(Start(row)) : row \in BlockRows(b)}
             T == {Clipped(End(row)) : row \in BlockRows(b)}
  <1>3. S \subseteq 0 .. NumKeys /\ S # {} /\ T \subseteq 0 .. NumKeys /\ T # {}
    BY <1>1, <1>2
  <1>4. \A row \in BlockRows(b) : Start(row) \in S /\ End(row) \in T
    BY <1>2
  <1>5. StartMin(b) = Min(S) /\ EndMax(b) = Max(T)
    BY DEF StartMin, EndMax
  <1> HIDE DEF S, T
  <1>6. Min(S) \in S /\ \A x \in S : Min(S) <= x
    BY <1>1, <1>3, Extremes, Zenon
  <1>7. Max(T) \in T /\ \A x \in T : x <= Max(T)
    BY <1>1, <1>3, Extremes, Zenon
  <1>8. Min(S) \in Nat /\ Max(T) \in Nat
    <2>1. 0 .. NumKeys \subseteq Nat
      OBVIOUS
    <2> QED
      BY <1>3, <1>6, <1>7, <2>1, Zenon
  <1> QED
    BY <1>4, <1>5, <1>6, <1>7, <1>8

\* Thread block w computes the score of column k for a row.
ComputesTile(w, row, k) == row \in BlockRows(w[1]) /\ k \in PrefillColumns(w[1], w[2])
ComputesGroup(w, row, k) ==
    row = w[1] /\ k \in w[2] * Group .. (w[2] + 1) * Group - 1 /\ k < End(row)
Computes(w, row, k) == IF job.decode THEN ComputesGroup(w, row, k) ELSE ComputesTile(w, row, k)

\* Every column of every window is computed by a thread block of the launch.
LEMMA PrefillCovered ==
    ASSUME job \in Jobs, ~job.decode, NEW row \in 1 .. NumRows, NEW k \in Start(row) .. End(row) - 1
    PROVE  \E w \in Blocks : Computes(w, row, k)
  <1>1. PICK b \in 1 .. RowBlocks : row \in BlockRows(b)
    BY RowHasBlock
  <1>2. /\ StartMin(b) \in Nat /\ EndMax(b) \in Nat
        /\ StartMin(b) <= Start(row) /\ End(row) <= EndMax(b)
    BY <1>1, TileBounds
  <1>3. /\ Start(row) \in Nat /\ End(row) \in Nat /\ End(row) <= NumKeys /\ NumKeys \in Nat
        /\ BlockN \in Nat \ {0} /\ Split \in Nat \ {0}
    BY WindowFacts, JobFacts, SizeAssumption
  <1> DEFINE x == k - StartMin(b)
             n == EndMax(b) - StartMin(b)
             t == x \div BlockN
             v == x % BlockN
  <1>4. n \in Nat /\ x \in 0 .. n - 1 /\ x \in Nat
    BY <1>2, <1>3
  <1>5. t \in 0 .. Tiles(b) - 1 /\ Tiles(b) \in Nat
    <2> HIDE DEF n, x
    <2>1. t \in 0 .. CeilDiv(n, BlockN) - 1
      BY <1>3, <1>4, CeilCovers
    <2>2. CeilDiv(n, BlockN) \in Nat
      <3>1. n + BlockN - 1 \in Nat
        BY <1>3, <1>4
      <3> QED
        BY <1>3, <3>1, DivMod DEF CeilDiv
    <2> QED
      BY <2>1, <2>2 DEF Tiles, n
  <1>6. PICK s \in 0 .. Split - 1 : t \in TileRange(b, s)
    <2> HIDE DEF t
    <2> QED
      BY <1>5, SharesCover DEF TileRange
  <1>7. v \in 0 .. BlockN - 1 /\ k = StartMin(b) + t * BlockN + v
    <2>1. t \in Nat /\ v \in 0 .. BlockN - 1 /\ x = BlockN * t + v
      <3> HIDE DEF x
      <3> QED
        BY <1>3, <1>4, DivMod
    <2>2. BlockN * t = t * BlockN /\ t * BlockN \in Nat
      <3> HIDE DEF t
      <3> QED
        BY <1>3, <2>1, SMT
    <2>3. k \in Int /\ k = StartMin(b) + x
      BY <1>2, <1>3
    <2> HIDE DEF x, t, v
    <2> QED
      BY <1>2, <1>3, <1>4, <2>1, <2>2, <2>3
  <1>8. k \in Columns
    BY <1>3 DEF Columns
  <1> HIDE DEF t, v
  <1>9. k \in PrefillColumns(b, s)
    BY <1>6, <1>7, <1>8 DEF PrefillColumns
  <1>10. <<b, s>> \in Blocks
    BY DEF Blocks
  <1> QED
    BY <1>1, <1>9, <1>10 DEF Computes, ComputesTile

----------------------------------------------------------------------------
(* Groups of the decode kernel                                             *)

LEMMA PagesOfGroup ==
    /\ Group \in Nat \ {0} /\ PageSize \in Nat \ {0} /\ SubPages \in Nat \ {0}
    /\ Group = PageSize * SubPages
  <1>1. Group \in Nat \ {0} /\ PageSize \in Nat \ {0} /\ Group % PageSize = 0
    BY SizeAssumption
  <1>2. SubPages \in Nat /\ Group = PageSize * SubPages
    <2>1. Group \in Nat
      BY <1>1
    <2>2. SubPages \in Nat /\ Group = PageSize * SubPages + (Group % PageSize)
      BY <1>1, <2>1, DivMod, Zenon DEF SubPages
    <2>3. PageSize * SubPages \in Nat
      BY <1>1, <2>2, SMT
    <2> QED
      BY <1>1, <2>2, <2>3
  <1>3. SubPages # 0
    BY <1>1, <1>2, SMT
  <1> QED
    BY <1>1, <1>2, <1>3

LEMMA DecodeCovered ==
    ASSUME job \in Jobs, job.decode, NEW row \in 1 .. NumRows, NEW k \in 0 .. End(row) - 1
    PROVE  \E w \in Blocks : Computes(w, row, k)
  <1> DEFINE p == k \div PageSize
             v == k % PageSize
             g == p \div SubPages
             u == p % SubPages
  <1>1. /\ Group \in Nat \ {0} /\ PageSize \in Nat \ {0} /\ SubPages \in Nat \ {0}
        /\ Group = PageSize * SubPages
    BY PagesOfGroup
  <1>2. NumKeys \in Nat /\ k \in 0 .. NumKeys - 1 /\ k \in Nat /\ k < End(row)
    <2>1. End(row) \in Nat /\ End(row) <= NumKeys /\ NumKeys \in Nat
      BY WindowFacts, JobFacts
    <2> QED
      BY <2>1
  <1>3. p \in Nat /\ v \in 0 .. PageSize - 1 /\ k = PageSize * p + v
    BY <1>1, <1>2, DivMod
  <1>4. p \in 0 .. MaxPages - 1
    BY <1>1, <1>2, CeilCovers DEF MaxPages
  <1>5. MaxPages \in Nat
    <2>1. NumKeys + PageSize - 1 \in Nat
      BY <1>1, <1>2
    <2> QED
      BY <1>1, <2>1, DivMod DEF MaxPages, CeilDiv
  <1>6. g \in Nat /\ u \in 0 .. SubPages - 1 /\ p = SubPages * g + u
    <2> HIDE DEF p
    <2> QED
      BY <1>1, <1>3, DivMod
  <1>7. g \in 0 .. CeilDiv(MaxPages, SubPages) - 1
    <2> HIDE DEF p
    <2> QED
      BY <1>1, <1>4, <1>5, CeilCovers
  <1> HIDE DEF p, v, g, u
  <1>8. k \in g * Group .. (g + 1) * Group - 1
    <2>1. k = Group * g + PageSize * u + v
      BY <1>1, <1>3, <1>6, SMT
    <2>2. PageSize * u <= PageSize * (SubPages - 1) /\ PageSize * (SubPages - 1) = Group - PageSize
      BY <1>1, <1>6, SMT
    <2>3. /\ Group * g \in Nat /\ PageSize * u \in Nat /\ g * Group = Group * g
          /\ (g + 1) * Group = Group * g + Group
      BY <1>1, <1>6, SMT
    <2> QED
      BY <1>1, <1>3, <2>1, <2>2, <2>3
  <1>9. <<row, g>> \in Blocks
    BY <1>7 DEF Blocks
  <1> QED
    BY <1>2, <1>8, <1>9 DEF Computes, ComputesGroup

\* The key a tile loads for a column is the key of that column.
LEMMA DecodeKey ==
    ASSUME job \in Jobs, job.decode, NEW row \in 1 .. NumRows, NEW g \in Nat,
           NEW k \in g * Group .. (g + 1) * Group - 1, k < End(row)
    PROVE  LET key == TileKey(row, g, k - g * Group)
           IN  score[key[1]][key[2] + 1] = ScoreAt(row, k)
  <1> DEFINE i == k - g * Group
             q == i \div PageSize
             v == i % PageSize
             page == g * SubPages + q
  <1>1. /\ Group \in Nat \ {0} /\ PageSize \in Nat \ {0} /\ SubPages \in Nat \ {0}
        /\ Group = PageSize * SubPages
    BY PagesOfGroup
  <1>2. g * Group \in Nat /\ k \in Nat /\ i \in Nat /\ k = g * Group + i
    <2>1. g * Group \in Nat /\ (g + 1) * Group \in Nat
      BY <1>1, SMT
    <2> QED
      BY <2>1
  <1>3. q \in Nat /\ v \in 0 .. PageSize - 1 /\ i = PageSize * q + v
    <2> HIDE DEF i
    <2> QED
      BY <1>1, <1>2, DivMod
  <1>4. page = g * SubPages + q
    OBVIOUS
  <1> HIDE DEF i, q, v, page
  <1>5. page \in Nat /\ page * PageSize + v = k /\ page * PageSize \in Nat
    <2>1. /\ page \in Nat /\ page * PageSize = g * Group + PageSize * q
          /\ page * PageSize \in Nat /\ PageSize * q \in Nat
      BY <1>1, <1>3, <1>4, SMT
    <2> QED
      BY <1>2, <1>3, <2>1
  <1>6. End(row) \in Nat
    BY WindowFacts
  <1>7. page * PageSize < End(row)
    BY <1>2, <1>3, <1>5, <1>6
  <1>8. TileKey(row, g, i) = <<Rows[row][1], k>>
    <2>1. TileKey(row, g, i) = KeyOfPage(PageTable(row, page), v)
      BY <1>7 DEF TileKey, page, q, v
    <2> QED
      BY <1>5, <2>1 DEF KeyOfPage, PageTable
  <1>9. Base(Rows[row][1]) = 0
    BY WindowFacts
  <1>10. ScoreAt(row, k) = score[Rows[row][1]][k + 1]
    BY <1>2, <1>9 DEF ScoreAt
  <1> QED
    BY <1>8, <1>10 DEF i

LEMMA WindowCovered ==
    ASSUME job \in Jobs, NEW row \in 1 .. NumRows, NEW k \in Start(row) .. End(row) - 1
    PROVE  \E w \in Blocks : Computes(w, row, k)
  <1>1. CASE job.decode
    <2>1. Start(row) = 0
      BY <1>1, WindowFacts
    <2> QED
      BY <1>1, <2>1, DecodeCovered
  <1>2. CASE ~job.decode
    BY <1>2, PrefillCovered
  <1> QED
    BY <1>1, <1>2

----------------------------------------------------------------------------
(* The invariant of a launch                                               *)

\* What the reference puts into a cell of the logits.
Reference(row, k) == IF k \in Start(row) .. End(row) - 1 THEN ScoreAt(row, k) ELSE NegInf

Scored(row, k) == \E w \in Blocks \ todo : Computes(w, row, k)

\* A decode row is written inside its context only; a prefill row is right
\* where a thread block has been, and everywhere once it is masked.
Cell(row, k) ==
    /\ Scored(row, k) /\ ~(row \in masked) => logits[row][k] = ScoreAt(row, k)
    /\ row \in masked => logits[row][k] = Reference(row, k)
    /\ job.decode /\ k >= End(row) => logits[row][k] = NegInf

LaunchInv ==
    /\ job \in Jobs
    /\ DOMAIN logits = 1 .. NumRows
    /\ todo \subseteq Blocks /\ masked \subseteq 1 .. NumRows
    /\ masked # {} => todo = {} /\ ~job.decode
    /\ \A row \in 1 .. NumRows : \A k \in Columns : Cell(row, k)

\* Nothing but the launch and its scores counts for rows, windows and shares.
LEMMA SameLaunch ==
    ASSUME job' = job, score' = score
    PROVE  /\ NumRows' = NumRows /\ Rows' = Rows /\ Columns' = Columns /\ Blocks' = Blocks
           /\ \A row : Start(row)' = Start(row) /\ End(row)' = End(row)
           /\ \A row, k : ScoreAt(row, k)' = ScoreAt(row, k)
           /\ \A row, k : Reference(row, k)' = Reference(row, k)
           /\ \A w, row, k : Computes(w, row, k)' = Computes(w, row, k)
  <1>1. NumRows' = NumRows /\ Rows' = Rows /\ NumKeys' = NumKeys
    BY DEF NumRows, Rows, NumKeys
  <1>2. Columns' = Columns /\ RowBlocks' = RowBlocks /\ MaxPages' = MaxPages
    BY <1>1 DEF Columns, RowBlocks, MaxPages
  <1>3. Blocks' = Blocks
    BY <1>1, <1>2 DEF Blocks
  <1>4. \A row : Start(row)' = Start(row) /\ End(row)' = End(row)
    BY <1>1 DEF Start, End, Base
  <1>5. \A row, k : ScoreAt(row, k)' = ScoreAt(row, k)
    BY <1>1 DEF ScoreAt, Base, KeysOf, Requests
  <1>6. \A row, k : Reference(row, k)' = Reference(row, k)
    BY <1>4, <1>5 DEF Reference
  <1>7. \A b : BlockRows(b)' = BlockRows(b)
    BY <1>1 DEF BlockRows
  <1>8. \A b : StartMin(b)' = StartMin(b) /\ EndMax(b)' = EndMax(b)
    BY <1>1, <1>4, <1>7 DEF StartMin, EndMax, Clipped
  <1>9. \A b, s : PrefillColumns(b, s)' = PrefillColumns(b, s)
    BY <1>2, <1>8 DEF PrefillColumns, TileRange, Tiles
  <1>10. \A w, row, k : Computes(w, row, k)' = Computes(w, row, k)
    BY <1>4, <1>7, <1>9 DEF Computes, ComputesTile, ComputesGroup
  <1> QED
    BY <1>1, <1>2, <1>3, <1>4, <1>5, <1>6, <1>10

LEMMA LaunchInit == Init => LaunchInv
  <1> SUFFICES ASSUME Init
               PROVE  LaunchInv
    OBVIOUS
  <1>1. job \in Jobs /\ todo = Blocks /\ masked = {}
    BY DEF Init
  <1>2. logits = [row \in 1 .. NumRows |-> [k \in Columns |-> IF job.decode THEN NegInf ELSE Unwritten]]
    BY DEF Init
  <1>3. ASSUME NEW row \in 1 .. NumRows, NEW k \in Columns
        PROVE  Cell(row, k)
    <2>1. ~Scored(row, k) /\ row \notin masked
      BY <1>1 DEF Scored
    <2>2. job.decode => logits[row][k] = NegInf
      BY <1>2
    <2> QED
      BY <2>1, <2>2 DEF Cell
  <1>4. DOMAIN logits = 1 .. NumRows
    BY <1>2
  <1> QED
    BY <1>1, <1>3, <1>4 DEF LaunchInv

\* What one thread block leaves in a cell.
LEMMA BlockWrites ==
    ASSUME LaunchInv, NEW w \in Blocks,
           IF job.decode THEN DecodeGroup(w[1], w[2]) ELSE PrefillBlock(w[1], w[2])
    PROVE  /\ DOMAIN logits' = 1 .. NumRows
           /\ \A row \in 1 .. NumRows : \A k \in Columns :
                logits'[row][k] = IF Computes(w, row, k) THEN ScoreAt(row, k) ELSE logits[row][k]
  <1>0. job \in Jobs /\ DOMAIN logits = 1 .. NumRows
    BY DEF LaunchInv
  <1>1. CASE ~job.decode
    BY <1>0, <1>1 DEF PrefillBlock, Computes, ComputesTile
  <1>2. CASE job.decode
    <2> DEFINE x == w[1]
               g == w[2]
    <2>1. x \in 1 .. NumRows /\ g \in Nat
      <3>1. w \in (1 .. NumRows) \X (0 .. CeilDiv(MaxPages, SubPages) - 1)
        BY <1>2 DEF Blocks
      <3> QED
        BY <3>1
    <2>2. logits' = [logits EXCEPT ![x] = [k \in Columns |->
                 IF k \in g * Group .. (g + 1) * Group - 1 /\ k < End(x)
                 THEN LET key == TileKey(x, g, k - g * Group)
                      IN  score[key[1]][key[2] + 1]
                 ELSE @[k]]]
      BY <1>2 DEF DecodeGroup
    <2> HIDE DEF x, g
    <2>3. ASSUME NEW row \in 1 .. NumRows, NEW k \in Columns
          PROVE  logits'[row][k] = IF ComputesGroup(w, row, k) THEN ScoreAt(row, k) ELSE logits[row][k]
      <3>1. CASE row # x
        BY <1>0, <2>2, <3>1 DEF ComputesGroup, x
      <3>2. CASE row = x /\ k \in g * Group .. (g + 1) * Group - 1 /\ k < End(x)
        <4>1. logits'[row][k] = score[TileKey(x, g, k - g * Group)[1]][TileKey(x, g, k - g * Group)[2] + 1]
          BY <1>0, <2>1, <2>2, <3>2
        <4>2. score[TileKey(x, g, k - g * Group)[1]][TileKey(x, g, k - g * Group)[2] + 1] = ScoreAt(x, k)
          BY <1>0, <1>2, <2>1, <3>2, DecodeKey
        <4> QED
          BY <3>2, <4>1, <4>2 DEF ComputesGroup, x, g
      <3>3. CASE row = x /\ ~(k \in g * Group .. (g + 1) * Group - 1 /\ k < End(x))
        <4>1. logits'[row][k] = logits[row][k]
          BY <1>0, <2>1, <2>2, <3>3
        <4> QED
          BY <3>3, <4>1 DEF ComputesGroup, x, g
      <3> QED
        BY <3>1, <3>2, <3>3
    <2>4. DOMAIN logits' = 1 .. NumRows
      BY <1>0, <2>2
    <2> QED
      BY <1>2, <2>3, <2>4 DEF Computes
  <1> QED
    BY <1>1, <1>2

LEMMA RunBlockStep ==
    ASSUME LaunchInv, NEW w \in todo, RunBlock(w)
    PROVE  LaunchInv'
  <1>1. /\ job \in Jobs /\ todo \subseteq Blocks /\ masked = {} /\ w \in Blocks
        /\ \A row \in 1 .. NumRows : \A k \in Columns : Cell(row, k)
    BY DEF LaunchInv
  <1>2. job' = job /\ score' = score /\ masked' = masked /\ todo' = todo \ {w}
    BY DEF RunBlock
  <1>3. /\ DOMAIN logits' = 1 .. NumRows
        /\ \A row \in 1 .. NumRows : \A k \in Columns :
             logits'[row][k] = IF Computes(w, row, k) THEN ScoreAt(row, k) ELSE logits[row][k]
    BY <1>1, BlockWrites DEF RunBlock
  <1>4. /\ NumRows' = NumRows /\ Columns' = Columns /\ Blocks' = Blocks
        /\ \A row : End(row)' = End(row)
        /\ \A row, k : ScoreAt(row, k)' = ScoreAt(row, k)
        /\ \A v, row, k : Computes(v, row, k)' = Computes(v, row, k)
    BY <1>2, SameLaunch
  <1>5. ASSUME NEW row \in 1 .. NumRows, NEW k \in Columns
        PROVE  Cell(row, k)'
    <2>1. Scored(row, k)' => Computes(w, row, k) \/ Scored(row, k)
      BY <1>2, <1>4 DEF Scored
    <2>2. logits'[row][k] = IF Computes(w, row, k) THEN ScoreAt(row, k) ELSE logits[row][k]
      BY <1>3
    <2>3. Cell(row, k) /\ row \notin masked
      BY <1>1
    <2>4. job.decode /\ k >= End(row) => ~Computes(w, row, k)
      <3>1. End(row) \in Nat /\ k \in Int
        BY <1>1, WindowFacts, JobFacts DEF Columns
      <3> QED
        BY <3>1 DEF Computes, ComputesGroup
    <2>5. row \notin masked'
      BY <1>1, <1>2
    <2> QED
      BY <1>2, <1>4, <2>1, <2>2, <2>3, <2>4, <2>5 DEF Cell
  <1> QED
    BY <1>1, <1>2, <1>3, <1>4, <1>5 DEF LaunchInv

LEMMA MaskStep ==
    ASSUME LaunchInv, NEW x \in 1 .. NumRows, MaskRow(x)
    PROVE  LaunchInv'
  <1>1. /\ job \in Jobs /\ DOMAIN logits = 1 .. NumRows /\ masked \subseteq 1 .. NumRows
        /\ \A row \in 1 .. NumRows : \A k \in Columns : Cell(row, k)
    BY DEF LaunchInv
  <1>2. /\ todo = {} /\ todo' = {} /\ ~job.decode /\ x \notin masked
        /\ job' = job /\ score' = score /\ masked' = masked \cup {x}
        /\ logits' = [logits EXCEPT ![x] =
                       [k \in Columns |-> IF k < Start(x) \/ k >= End(x) THEN NegInf ELSE @[k]]]
    BY DEF MaskRow
  <1>4. /\ NumRows' = NumRows /\ Columns' = Columns /\ Blocks' = Blocks
        /\ \A row : End(row)' = End(row)
        /\ \A row, k : ScoreAt(row, k)' = ScoreAt(row, k)
        /\ \A row, k : Reference(row, k)' = Reference(row, k)
        /\ \A v, row, k : Computes(v, row, k)' = Computes(v, row, k)
    BY <1>2, SameLaunch
  <1>5. ASSUME NEW row \in 1 .. NumRows, NEW k \in Columns
        PROVE  Cell(row, k)'
    <2>1. Cell(row, k)
      BY <1>1
    <2>2. Scored(row, k)' = Scored(row, k)
      BY <1>2, <1>4 DEF Scored
    <2>3. CASE row # x
      <3>1. logits'[row][k] = logits[row][k] /\ (row \in masked' <=> row \in masked)
        BY <1>1, <1>2, <2>3
      <3> QED
        BY <1>2, <1>4, <2>1, <2>2, <3>1 DEF Cell
    <2>4. CASE row = x
      <3>1. logits'[row][k] = IF k < Start(row) \/ k >= End(row) THEN NegInf ELSE logits[row][k]
        BY <1>1, <1>2, <2>4
      <3>2. Start(row) \in Nat /\ End(row) \in Nat /\ k \in Int
        BY <1>1, WindowFacts, JobFacts DEF Columns
      <3>3. k \in Start(row) .. End(row) - 1 => Scored(row, k)
        BY <1>1, <1>2, WindowCovered DEF Scored
      <3>4. k \in Start(row) .. End(row) - 1 => logits[row][k] = ScoreAt(row, k)
        BY <1>2, <2>1, <2>4, <3>3 DEF Cell
      <3>5. logits'[row][k] = Reference(row, k)
        BY <3>1, <3>2, <3>4 DEF Reference
      <3>6. row \in masked'
        BY <1>2, <2>4
      <3> QED
        BY <1>2, <1>4, <3>5, <3>6 DEF Cell
    <2> QED
      BY <2>3, <2>4
  <1>6. DOMAIN logits' = 1 .. NumRows
    BY <1>1, <1>2
  <1> QED
    BY <1>1, <1>2, <1>4, <1>5, <1>6 DEF LaunchInv

LEMMA QuietStep ==
    ASSUME LaunchInv, UNCHANGED <<job, score, logits, todo, masked>>
    PROVE  LaunchInv'
  <1>1. /\ NumRows' = NumRows /\ Columns' = Columns /\ Blocks' = Blocks
        /\ \A row : End(row)' = End(row)
        /\ \A row, k : ScoreAt(row, k)' = ScoreAt(row, k)
        /\ \A row, k : Reference(row, k)' = Reference(row, k)
        /\ \A v, row, k : Computes(v, row, k)' = Computes(v, row, k)
    BY SameLaunch
  <1>2. \A row, k : Cell(row, k)' = Cell(row, k)
    BY <1>1 DEF Cell, Scored
  <1> QED
    BY <1>1, <1>2 DEF LaunchInv

LEMMA LaunchNext == LaunchInv /\ [Next]_vars => LaunchInv'
  <1> SUFFICES ASSUME LaunchInv, [Next]_vars
               PROVE  LaunchInv'
    OBVIOUS
  <1>1. CASE \E w \in todo : RunBlock(w)
    BY <1>1, RunBlockStep
  <1>2. CASE \E row \in 1 .. NumRows : MaskRow(row)
    BY <1>2, MaskStep
  <1>3. CASE SelectBlocks
    BY <1>3, QuietStep DEF SelectBlocks
  <1>4. CASE ExpandBlocks
    BY <1>4, QuietStep DEF ExpandBlocks
  <1>5. CASE UNCHANGED vars
    BY <1>5, QuietStep DEF vars
  <1> QED
    BY <1>1, <1>2, <1>3, <1>4, <1>5 DEF Next

LEMMA LaunchMatches ==
    ASSUME LaunchInv, ScoresDone, NEW row \in 1 .. NumRows, NEW k \in Columns
    PROVE  logits[row][k] = Reference(row, k)
  <1>1. /\ job \in Jobs /\ Cell(row, k) /\ todo = {}
        /\ (masked # {} => ~job.decode)
    BY DEF LaunchInv, ScoresDone
  <1>2. CASE ~job.decode
    BY <1>1, <1>2 DEF ScoresDone, Cell
  <1>3. CASE job.decode
    <2>1. Start(row) = 0 /\ Start(row) \in Nat /\ End(row) \in Nat /\ k \in Nat
      BY <1>1, <1>3, WindowFacts, JobFacts DEF Columns
    <2>2. CASE k < End(row)
      <3>1. k \in Start(row) .. End(row) - 1
        BY <2>1, <2>2
      <3>2. Scored(row, k) /\ row \notin masked
        BY <1>1, <1>3, <3>1, WindowCovered DEF Scored
      <3> QED
        BY <1>1, <3>1, <3>2 DEF Cell, Reference
    <2>3. CASE k >= End(row)
      BY <1>1, <1>3, <2>1, <2>3 DEF Cell, Reference
    <2> QED
      BY <2>1, <2>2, <2>3
  <1> QED
    BY <1>2, <1>3

LEMMA LaunchAlways == Spec => []LaunchInv
  BY LaunchInit, LaunchNext, PTL DEF Spec

\* Thread blocks that share the tiles of a launch by rounded fractions, and the
\* packed pages of the decode kernel, leave the reference's scores, for every
\* number of thread blocks, tile and page size and every packing of requests.
THEOREM MatchesReferenceAlways == Spec => []MatchesReference
  <1>1. LaunchInv => MatchesReference
    BY LaunchMatches DEF MatchesReference, Reference
  <1> QED
    BY <1>1, LaunchAlways, PTL

----------------------------------------------------------------------------
(* What the selection and the expansion are given                          *)

SelectInv ==
    /\ picked # None => /\ ScoresDone
                        /\ \A row \in 1 .. NumRows : picked[row] \in FastTopk(row)
    /\ tokens # None => /\ picked # None
                        /\ tokens = [row \in 1 .. NumRows |-> Expand(row, picked[row])]

LEMMA SameSelection ==
    ASSUME job' = job, logits' = logits
    PROVE  /\ NumRows' = NumRows
           /\ \A row : FastTopk(row)' = FastTopk(row)
           /\ \A row, blocks : Expand(row, blocks)' = Expand(row, blocks)
  <1>1. NumRows' = NumRows /\ Rows' = Rows /\ BlockTopk' = BlockTopk /\ FinalTopk' = FinalTopk
    BY DEF NumRows, Rows, BlockTopk, FinalTopk
  <1>2. \A row : Start(row)' = Start(row) /\ End(row)' = End(row)
    BY <1>1 DEF Start, End, Base
  <1>3. \A row : FastTopk(row)' = FastTopk(row)
    BY <1>1, <1>2 DEF FastTopk
  <1>4. \A blocks, col : Expanded(blocks, col)' = Expanded(blocks, col)
    BY <1>1 DEF Expanded, Padded
  <1>5. \A row, i : TailToken(row, i)' = TailToken(row, i)
    BY <1>1 DEF TailToken, TailCount, TailStart, SeqLen
  <1>6. \A row : SeqLen(row)' = SeqLen(row)
    BY <1>1 DEF SeqLen
  <1>7. \A row, blocks : Unsorted(row, blocks)' = Unsorted(row, blocks)
    BY <1>4, <1>5, <1>6 DEF Unsorted
  <1>8. \A row, blocks : TorchExpand(row, blocks)' = TorchExpand(row, blocks)
    <2>1. \A result : Sorted(result)' = Sorted(result)
      BY DEF Sorted, Place, SortKey, FinalTopk
    <2> QED
      BY <1>7, <2>1 DEF TorchExpand
  <1>9. \A row, blocks : TritonExpand(row, blocks)' = TritonExpand(row, blocks)
    <2>1. \A blocks : ValidTokens(blocks)' = ValidTokens(blocks)
      BY DEF ValidTokens
    <2> QED
      BY <1>1, <1>4, <1>5, <1>6, <2>1 DEF TritonExpand
  <1>10. \A row, blocks : Expand(row, blocks)' = Expand(row, blocks)
    BY <1>8, <1>9 DEF Expand
  <1> QED
    BY <1>1, <1>3, <1>10

LEMMA SelectInit == Init => SelectInv
  BY DEF Init, SelectInv

LEMMA SelectNext == LaunchInv /\ SelectInv /\ [Next]_vars => SelectInv'
  <1> SUFFICES ASSUME LaunchInv, SelectInv, [Next]_vars
               PROVE  SelectInv'
    OBVIOUS
  <1>1. ASSUME NEW w \in todo, RunBlock(w)
        PROVE  SelectInv'
    <2>1. picked = None /\ tokens = None
      BY DEF SelectInv, ScoresDone
    <2> QED
      BY <1>1, <2>1 DEF RunBlock, SelectInv
  <1>2. ASSUME NEW row \in 1 .. NumRows, MaskRow(row)
        PROVE  SelectInv'
    <2>1. picked = None /\ tokens = None
      BY <1>2 DEF SelectInv, ScoresDone, MaskRow
    <2> QED
      BY <1>2, <2>1 DEF MaskRow, SelectInv
  <1>3. CASE SelectBlocks
    <2>1. NumRows' = NumRows /\ \A row : FastTopk(row)' = FastTopk(row)
      BY <1>3, SameSelection DEF SelectBlocks
    <2>2. tokens' = None
      BY <1>3 DEF SelectInv, SelectBlocks
    <2>3. ScoresDone'
      BY <1>3, <2>1 DEF SelectBlocks, ScoresDone
    <2>4. \A row \in 1 .. NumRows : picked'[row] \in FastTopk(row)
      BY <1>3 DEF SelectBlocks
    <2> QED
      BY <2>1, <2>2, <2>3, <2>4 DEF SelectInv
  <1>4. CASE ExpandBlocks
    <2>1. /\ NumRows' = NumRows
          /\ \A row : FastTopk(row)' = FastTopk(row)
          /\ \A row, blocks : Expand(row, blocks)' = Expand(row, blocks)
      BY <1>4, SameSelection DEF ExpandBlocks
    <2>2. ScoresDone' = ScoresDone /\ picked' = picked /\ picked # None
      BY <1>4, <2>1 DEF ExpandBlocks, ScoresDone
    <2> QED
      BY <1>4, <2>1, <2>2 DEF SelectInv, ExpandBlocks
  <1>5. CASE UNCHANGED vars
    <2>1. /\ NumRows' = NumRows
          /\ \A row : FastTopk(row)' = FastTopk(row)
          /\ \A row, blocks : Expand(row, blocks)' = Expand(row, blocks)
      BY <1>5, SameSelection DEF vars
    <2>2. ScoresDone' = ScoresDone
      BY <1>5, <2>1 DEF vars, ScoresDone
    <2> QED
      BY <1>5, <2>1, <2>2 DEF SelectInv, vars
  <1> QED
    BY <1>1, <1>2, <1>3, <1>4, <1>5 DEF Next

LEMMA SelectAlways == Spec => [](LaunchInv /\ SelectInv)
  BY LaunchInit, LaunchNext, SelectInit, SelectNext, PTL DEF Spec

----------------------------------------------------------------------------
(* The selected blocks                                                     *)

\* Complete blocks a query sees.
Full(row) == (Rows[row][2] + 1) \div Ratio
Holds(blocks, b) == \E i \in 1 .. Len(blocks) : blocks[i] = b

\* A selection of the best blocks, each once; all of them when they fit.
Selection(row, blocks) ==
    /\ blocks \in Seq(0 .. Full(row) - 1)
    /\ Len(blocks) = IF Full(row) < BlockTopk THEN Full(row) ELSE BlockTopk
    /\ \A i, j \in 1 .. Len(blocks) : blocks[i] = blocks[j] => i = j
    /\ Full(row) <= BlockTopk => \A b \in 0 .. Full(row) - 1 : Holds(blocks, b)
    /\ \A b, d \in 0 .. Full(row) - 1 :
          Holds(blocks, b) /\ ~Holds(blocks, d) =>
             score[Rows[row][1]][b + 1] >= score[Rows[row][1]][d + 1]

\* The column of a key inside a window is its own: requests do not overlap.
LEMMA KeyOfColumn ==
    ASSUME job \in Jobs, NEW row \in 1 .. NumRows, NEW i \in 0 .. Full(row) - 1
    PROVE  ScoreAt(row, Start(row) + i) = score[Rows[row][1]][i + 1]
  <1> DEFINE r == Rows[row][1]
             k == Start(row) + i
  <1>1. /\ r \in Requests /\ Start(row) \in Nat /\ Full(row) \in Nat /\ Full(row) <= KeysOf(r)
        /\ Base(r) = Start(row)
    BY WindowFacts, JobFacts DEF Full
  <1>2. CASE job.decode
    BY <1>1, <1>2 DEF ScoreAt
  <1>3. CASE ~job.decode
    <2>1. /\ job.lens \in Seq(Nat \ {0})
          /\ \A q \in Requests : job.first[q] \in Nat
          /\ \A p, q \in Requests : p < q => job.first[p] + job.lens[p] \div Ratio <= job.first[q]
      <3>1. JobShape(job)
        BY JobAssumption
      <3> QED
        BY <1>3, <3>1 DEF JobShape, Requests
    <2>2. Requests = 1 .. Len(job.lens) /\ \A q \in Requests : job.lens[q] \in Nat
      BY <2>1 DEF Requests
    <2>3. \A q \in Requests : KeysOf(q) \in Nat /\ Base(q) \in Nat
      <3>1. Ratio \in Nat \ {0}
        BY SizeAssumption
      <3> QED
        BY <2>1, <2>2, <3>1, DivMod DEF KeysOf, Base
    <2>4. \A p, q \in Requests : p < q => Base(p) + KeysOf(p) <= Base(q)
      BY <2>1 DEF Base, KeysOf
    <2>5. k \in Base(r) .. Base(r) + KeysOf(r) - 1
      BY <1>1, <2>3
    <2>6. ASSUME NEW q \in Requests, k \in Base(q) .. Base(q) + KeysOf(q) - 1
          PROVE  q = r
      <3>1. q < r \/ q = r \/ r < q
        BY <1>1, <2>2
      <3>2. ~(q < r)
        BY <1>1, <2>3, <2>4, <2>5, <2>6
      <3>3. ~(r < q)
        BY <1>1, <2>3, <2>4, <2>5, <2>6
      <3> QED
        BY <3>1, <3>2, <3>3
    <2>7. (CHOOSE q \in Requests : k \in Base(q) .. Base(q) + KeysOf(q) - 1) = r
      <3> HIDE DEF k, r
      <3> QED
        BY <1>1, <2>5, <2>6
    <2>8. ScoreAt(row, k) = score[r][k - Base(r) + 1]
      BY <1>3, <2>7, Zenon DEF ScoreAt
    <2>9. k - Base(r) + 1 = i + 1
      BY <1>1
    <2> QED
      BY <2>8, <2>9
  <1> QED
    BY <1>2, <1>3

LEMMA WidthFacts ==
    ASSUME job \in Jobs
    PROVE  /\ Ratio \in Nat \ {0} /\ job.topk \in Nat \ {0} /\ BlockTopk \in Nat \ {0}
           /\ job.topk <= BlockTopk * Ratio /\ (BlockTopk - 1) * Ratio < job.topk
           /\ BlockTopk * Ratio \in Nat /\ FinalTopk = job.topk + Ratio - 1
  <1>1. Ratio \in Nat \ {0} /\ job.topk \in Nat \ {0}
    <2>1. JobShape(job)
      BY JobAssumption
    <2> QED
      BY <2>1, SizeAssumption DEF JobShape
  <1> DEFINE x == job.topk + Ratio - 1
             q == x \div Ratio
             v == x % Ratio
  <1>2. x \in Nat /\ x = job.topk + Ratio - 1
    BY <1>1
  <1>3. q \in Nat /\ v \in 0 .. Ratio - 1 /\ x = Ratio * q + v
    <2> HIDE DEF x
    <2> QED
      BY <1>1, <1>2, DivMod
  <1>4. BlockTopk = q
    BY DEF BlockTopk, CeilDiv
  <1> HIDE DEF x, q, v
  <1>5. Ratio * q \in Nat /\ q * Ratio = Ratio * q /\ (q - 1) * Ratio = Ratio * q - Ratio
    BY <1>1, <1>3, SMT
  <1>6. q # 0
    BY <1>1, <1>2, <1>3, SMT
  <1> QED
    BY <1>1, <1>2, <1>3, <1>4, <1>5, <1>6 DEF FinalTopk

LEMMA SelectionFacts ==
    ASSUME LaunchInv, ScoresDone, NEW row \in 1 .. NumRows, NEW blocks \in FastTopk(row)
    PROVE  Selection(row, blocks)
  <1> DEFINE n == Full(row)
             width == IF n < BlockTopk THEN n ELSE BlockTopk
             f == [i \in 0 .. n - 1 |-> logits[row][Start(row) + i]]
  <1>1. job \in Jobs
    BY DEF LaunchInv
  <1>2. /\ n \in Nat /\ Start(row) \in Nat /\ End(row) = Start(row) + n
        /\ End(row) <= NumKeys /\ NumKeys \in Nat
    BY <1>1, WindowFacts, JobFacts DEF Full
  <1>3. width \in Nat /\ BlockTopk \in Nat
    BY <1>1, <1>2, WidthFacts
  <1>4. End(row) - Start(row) = n
    BY <1>2
  <1>5. FastTopk(row) = UNION {SetToSeqs(X) : X \in {X \in kSubset(width, 0 .. n - 1) :
                                 \A x \in X, y \in (0 .. n - 1) \ X : f[x] >= f[y]}}
    BY <1>4 DEF FastTopk
  <1> HIDE DEF f, width, n
  <1>6. PICK X \in kSubset(width, 0 .. n - 1) :
           /\ \A x \in X, y \in (0 .. n - 1) \ X : f[x] >= f[y]
           /\ blocks \in SetToSeqs(X)
    BY <1>5
  <1>7. X \subseteq 0 .. n - 1 /\ Cardinality(X) = width
    BY <1>6 DEF kSubset
  <1>8. /\ blocks \in [1 .. width -> X]
        /\ \A i, j \in 1 .. width : i # j => blocks[i] # blocks[j]
    BY <1>6, <1>7 DEF SetToSeqs
  <1>9. IsFiniteSet(0 .. n - 1) /\ Cardinality(0 .. n - 1) = n
    BY <1>2, FS_Interval
  <1>10. IsFiniteSet(X)
    BY <1>7, <1>9, FS_Subset
  <1>11. Cardinality(1 .. width) = width
    BY <1>3, FS_Interval
  <1>12. blocks \in Injection(1 .. width, X)
    BY <1>8 DEF Injection, IsInjective
  <1>13. blocks \in Surjection(1 .. width, X)
    BY <1>7, <1>10, <1>11, <1>12, FS_Injection
  <1>14. \A b \in X : \E i \in 1 .. width : blocks[i] = b
    BY <1>13 DEF Surjection
  <1>15. Len(blocks) = width /\ blocks \in Seq(0 .. n - 1)
    <2> DEFINE S == 0 .. n - 1
    <2>1. blocks \in [1 .. width -> S]
      BY <1>7, <1>8
    <2> HIDE DEF S
    <2>2. blocks \in Seq(S)
      BY <1>3, <2>1
    <2>3. Len(blocks) = width
      BY <1>3, <2>1, <2>2
    <2> QED
      BY <2>2, <2>3 DEF S
  <1>16. \A b : Holds(blocks, b) <=> b \in X
    BY <1>8, <1>14, <1>15 DEF Holds
  <1>17. n <= BlockTopk => X = 0 .. n - 1
    <2>1. ASSUME n <= BlockTopk
          PROVE  width = n
      BY <1>2, <1>3, <2>1 DEF width
    <2> QED
      BY <1>7, <1>9, <2>1, FS_Subset
  <1>18. \A i \in 0 .. n - 1 : f[i] = score[Rows[row][1]][i + 1]
    <2> TAKE i \in 0 .. n - 1
    <2>1. Start(row) + i \in Columns /\ Start(row) + i \in Start(row) .. End(row) - 1
      BY <1>2 DEF Columns
    <2>2. logits[row][Start(row) + i] = ScoreAt(row, Start(row) + i)
      BY <2>1, LaunchMatches DEF Reference
    <2>3. ScoreAt(row, Start(row) + i) = score[Rows[row][1]][i + 1]
      BY <1>1, KeyOfColumn DEF n
    <2> QED
      BY <2>2, <2>3 DEF f
  <1>19. \A b, d \in 0 .. n - 1 : Holds(blocks, b) /\ ~Holds(blocks, d) =>
             score[Rows[row][1]][b + 1] >= score[Rows[row][1]][d + 1]
    BY <1>6, <1>16, <1>18
  <1>20. Len(blocks) = IF n < BlockTopk THEN n ELSE BlockTopk
    BY <1>15 DEF width
  <1>21. \A i, j \in 1 .. Len(blocks) : blocks[i] = blocks[j] => i = j
    BY <1>8, <1>15
  <1>22. n <= BlockTopk => \A b \in 0 .. n - 1 : Holds(blocks, b)
    BY <1>16, <1>17
  <1> QED
    BY <1>15, <1>19, <1>20, <1>21, <1>22 DEF Selection, n

----------------------------------------------------------------------------
(* The expansion                                                           *)

\* The token in position p of the expanded blocks.
Token(blocks, p) == blocks[(p - 1) \div Ratio + 1] * Ratio + ((p - 1) % Ratio)

\* What a row should look like: the tokens of the blocks, then those of the
\* unfinished block, then holes.
Laid(row, blocks, list) ==
    LET valid == ValidTokens(blocks)
        tail == TailCount(row)
    IN  /\ DOMAIN list = 1 .. FinalTopk
        /\ \A p \in 1 .. valid : list[p] = Token(blocks, p)
        /\ \A p \in valid + 1 .. valid + tail : list[p] = TailStart(row) + (p - valid - 1)
        /\ \A p \in valid + tail + 1 .. FinalTopk : list[p] = -1

LEMMA PositionFacts ==
    ASSUME job \in Jobs, NEW row \in 1 .. NumRows
    PROVE  /\ Full(row) \in Nat /\ TailStart(row) \in Nat /\ TailCount(row) \in 0 .. Ratio - 1
           /\ TailStart(row) = Full(row) * Ratio
           /\ Rows[row][2] + 1 = TailStart(row) + TailCount(row)
           /\ Rows[row][2] \in Nat /\ SeqLen(row) \in Nat /\ Rows[row][2] < SeqLen(row)
  <1> DEFINE p == Rows[row][2] + 1
             q == p \div Ratio
             v == p % Ratio
  <1>1. /\ Ratio \in Nat \ {0} /\ Rows[row][2] \in Nat
        /\ SeqLen(row) \in Nat /\ Rows[row][2] < SeqLen(row)
    BY JobFacts, SizeAssumption DEF SeqLen
  <1>2. p \in Nat /\ p = Rows[row][2] + 1
    BY <1>1
  <1>3. q \in Nat /\ v \in 0 .. Ratio - 1 /\ p = Ratio * q + v
    <2> HIDE DEF p
    <2> QED
      BY <1>1, <1>2, DivMod
  <1>4. Full(row) = q /\ TailStart(row) = q * Ratio
    BY DEF Full, TailStart
  <1> HIDE DEF p, q, v
  <1>5. q * Ratio \in Nat /\ q * Ratio = Ratio * q
    BY <1>1, <1>3, SMT
  <1>6. TailCount(row) = v
    <2> DEFINE x == q * Ratio
    <2>1. x \in Nat /\ TailStart(row) = x /\ p = x + v
      BY <1>3, <1>4, <1>5
    <2> HIDE DEF x
    <2> QED
      BY <1>1, <1>2, <1>3, <2>1 DEF TailCount
  <1> QED
    BY <1>1, <1>2, <1>3, <1>4, <1>5, <1>6

LEMMA ValidFacts ==
    ASSUME job \in Jobs, NEW row \in 1 .. NumRows, NEW blocks, Selection(row, blocks)
    PROVE  /\ Len(blocks) \in Nat /\ Len(blocks) <= BlockTopk /\ Len(blocks) <= Full(row)
           /\ Len(blocks) * Ratio \in Nat
           /\ ValidTokens(blocks) \in Nat /\ ValidTokens(blocks) <= job.topk
           /\ ValidTokens(blocks) <= Len(blocks) * Ratio
           /\ ValidTokens(blocks) = job.topk \/ ValidTokens(blocks) = Len(blocks) * Ratio
           /\ \A i \in 1 .. Len(blocks) : blocks[i] \in 0 .. Full(row) - 1
  <1>1. /\ blocks \in Seq(0 .. Full(row) - 1)
        /\ Len(blocks) = IF Full(row) < BlockTopk THEN Full(row) ELSE BlockTopk
    BY DEF Selection
  <1>2. Ratio \in Nat \ {0} /\ job.topk \in Nat /\ BlockTopk \in Nat /\ Full(row) \in Nat
    BY WidthFacts, PositionFacts
  <1>3. Len(blocks) \in Nat /\ Len(blocks) <= BlockTopk /\ Len(blocks) <= Full(row)
    BY <1>1, <1>2
  <1> DEFINE x == Len(blocks) * Ratio
  <1>4. x \in Nat
    BY <1>2, <1>3, SMT
  <1>5. ValidTokens(blocks) = Min({x, job.topk})
    BY DEF ValidTokens
  <1> HIDE DEF x
  <1>6. Min({x, job.topk}) \in {x, job.topk} /\ \A y \in {x, job.topk} : Min({x, job.topk}) <= y
    <2> DEFINE S == {x, job.topk}
    <2>1. S \subseteq 0 .. x + job.topk /\ S # {} /\ x + job.topk \in Nat
      BY <1>2, <1>4
    <2> HIDE DEF S
    <2>2. Min(S) \in S /\ \A y \in S : Min(S) <= y
      BY <2>1, Extremes, Zenon
    <2> QED
      BY <2>2 DEF S
  <1>7. \A i \in 1 .. Len(blocks) : blocks[i] \in 0 .. Full(row) - 1
    <2> DEFINE S == 0 .. Full(row) - 1
    <2>1. blocks \in Seq(S)
      BY <1>1
    <2> HIDE DEF S
    <2>2. \A i \in 1 .. Len(blocks) : blocks[i] \in S
      BY <2>1
    <2> QED
      BY <2>2 DEF S
  <1> QED
    BY <1>2, <1>3, <1>4, <1>5, <1>6, <1>7 DEF x

LEMMA TailTokens ==
    ASSUME job \in Jobs, NEW row \in 1 .. NumRows, NEW i \in Nat
    PROVE  TailToken(row, i) = IF i < TailCount(row) THEN TailStart(row) + i ELSE -1
  <1>1. /\ TailStart(row) \in Nat /\ TailCount(row) \in 0 .. Ratio - 1 /\ Ratio \in Nat \ {0}
        /\ Rows[row][2] + 1 = TailStart(row) + TailCount(row)
        /\ Rows[row][2] \in Nat /\ SeqLen(row) \in Nat /\ Rows[row][2] < SeqLen(row)
    BY PositionFacts, SizeAssumption
  <1> QED
    BY <1>1 DEF TailToken

\* Positions of a block.
LEMMA BlockPositions ==
    ASSUME job \in Jobs, NEW m \in Nat, NEW p \in Nat \ {0}, p <= m * Ratio
    PROVE  /\ (p - 1) \div Ratio \in 0 .. m - 1 /\ (p - 1) % Ratio \in 0 .. Ratio - 1
           /\ p = ((p - 1) \div Ratio) * Ratio + ((p - 1) % Ratio) + 1
           /\ ((p - 1) \div Ratio) * Ratio \in Nat
  <1> DEFINE x == p - 1
             q == x \div Ratio
             v == x % Ratio
  <1>1. Ratio \in Nat \ {0} /\ x \in Nat /\ p = x + 1
    BY SizeAssumption
  <1>2. q \in Nat /\ v \in 0 .. Ratio - 1 /\ x = Ratio * q + v
    <2> HIDE DEF x
    <2> QED
      BY <1>1, DivMod
  <1>3. m * Ratio \in Nat /\ m * Ratio = Ratio * m
    BY <1>1, SMT
  <1>4. q < m
    <2> HIDE DEF x
    <2>1. x < Ratio * m
      BY <1>1, <1>3
    <2> QED
      BY <1>1, <2>1, DivBounds DEF q
  <1> HIDE DEF x, q, v
  <1>5. q * Ratio = Ratio * q /\ q * Ratio \in Nat
    BY <1>1, <1>2, SMT
  <1>6. p = q * Ratio + v + 1
    BY <1>1, <1>2, <1>5
  <1> QED
    BY <1>2, <1>4, <1>5, <1>6 DEF x, q, v

\* A token of a selected block is a position the query sees.
LEMMA TokenFacts ==
    ASSUME job \in Jobs, NEW row \in 1 .. NumRows, NEW blocks, Selection(row, blocks),
           NEW p \in 1 .. ValidTokens(blocks)
    PROVE  /\ (p - 1) \div Ratio + 1 \in 1 .. Len(blocks)
           /\ Token(blocks, p) \in Nat /\ Token(blocks, p) < TailStart(row)
           /\ TailStart(row) <= SeqLen(row)
  <1> DEFINE q == (p - 1) \div Ratio
             v == (p - 1) % Ratio
             b == blocks[q + 1]
  <1>1. /\ Len(blocks) \in Nat /\ Len(blocks) * Ratio \in Nat /\ ValidTokens(blocks) \in Nat
        /\ ValidTokens(blocks) <= Len(blocks) * Ratio
        /\ \A i \in 1 .. Len(blocks) : blocks[i] \in 0 .. Full(row) - 1
    BY ValidFacts
  <1>2. p \in Nat \ {0} /\ p <= Len(blocks) * Ratio
    BY <1>1
  <1>3. q \in 0 .. Len(blocks) - 1 /\ v \in 0 .. Ratio - 1
    BY <1>1, <1>2, BlockPositions
  <1>4. /\ Full(row) \in Nat /\ TailStart(row) = Full(row) * Ratio /\ TailStart(row) \in Nat
        /\ Rows[row][2] + 1 = TailStart(row) + TailCount(row) /\ TailCount(row) \in 0 .. Ratio - 1
        /\ Rows[row][2] \in Nat /\ SeqLen(row) \in Nat /\ Rows[row][2] < SeqLen(row)
        /\ Ratio \in Nat \ {0}
    BY PositionFacts, SizeAssumption
  <1>5. q + 1 \in 1 .. Len(blocks)
    BY <1>1, <1>3
  <1>6. b \in 0 .. Full(row) - 1
    BY <1>1, <1>5
  <1>7. Token(blocks, p) = b * Ratio + v
    BY DEF Token
  <1> HIDE DEF q, v, b
  <1>8. b * Ratio \in Nat /\ b * Ratio + Ratio <= Full(row) * Ratio
    <2>1. Full(row) * Ratio = b * Ratio + (Full(row) - b) * Ratio /\ (Full(row) - b) * Ratio >= Ratio
      BY <1>4, <1>6, SMT
    <2>2. b * Ratio \in Nat /\ (Full(row) - b) * Ratio \in Int
      BY <1>4, <1>6, SMT
    <2>3. Ratio \in Nat
      BY <1>4
    <2> QED
      BY ONLY <2>1, <2>2, <2>3, SMT
  <1>9. (p - 1) \div Ratio + 1 \in 1 .. Len(blocks)
    BY <1>5 DEF q
  <1> DEFINE y == b * Ratio
  <1>10. y \in Nat /\ y + Ratio <= TailStart(row) /\ Token(blocks, p) = y + v
    BY <1>4, <1>7, <1>8
  <1> HIDE DEF y
  <1>11. Token(blocks, p) \in Nat /\ Token(blocks, p) < TailStart(row)
    <2>1. v \in Nat /\ v < Ratio /\ Ratio \in Nat /\ TailStart(row) \in Nat
      BY <1>3, <1>4
    <2> QED
      BY ONLY <1>10, <2>1, SMT
  <1>12. TailStart(row) <= SeqLen(row)
    BY <1>4
  <1> QED
    BY <1>9, <1>11, <1>12

\* What both expansions make of a column.
LEMMA ExpandedTokens ==
    ASSUME job \in Jobs, NEW row \in 1 .. NumRows, NEW blocks, Selection(row, blocks),
           NEW p \in 1 .. job.topk
    PROVE  /\ p <= ValidTokens(blocks) => Expanded(blocks, p - 1) = Token(blocks, p)
           /\ p > ValidTokens(blocks) => Expanded(blocks, p - 1) = -1
  <1> DEFINE q == (p - 1) \div Ratio
             v == (p - 1) % Ratio
             m == Len(blocks)
  <1>1. /\ m \in Nat /\ m * Ratio \in Nat /\ ValidTokens(blocks) \in Nat /\ m <= BlockTopk
        /\ ValidTokens(blocks) <= m * Ratio /\ ValidTokens(blocks) <= job.topk
        /\ ValidTokens(blocks) = job.topk \/ ValidTokens(blocks) = m * Ratio
        /\ \A i \in 1 .. m : blocks[i] \in 0 .. Full(row) - 1
    BY ValidFacts
  <1>2. /\ BlockTopk \in Nat /\ job.topk \in Nat /\ job.topk <= BlockTopk * Ratio
        /\ BlockTopk * Ratio \in Nat /\ Ratio \in Nat \ {0}
    BY WidthFacts
  <1>3. p \in Nat \ {0} /\ p <= BlockTopk * Ratio
    BY <1>2
  <1>4. q \in 0 .. BlockTopk - 1 /\ v \in 0 .. Ratio - 1 /\ p = q * Ratio + v + 1 /\ q * Ratio \in Nat
    BY <1>2, <1>3, BlockPositions
  <1>5. DOMAIN blocks = 1 .. m /\ blocks \in Seq(0 .. Full(row) - 1)
    BY DEF Selection
  <1>6. Padded(blocks)[q + 1] = IF q < m THEN blocks[q + 1] ELSE -1
    <2> DEFINE pad == [i \in 1 .. BlockTopk - m |-> -1]
    <2>1. pad \in Seq(Int) /\ Len(pad) = BlockTopk - m /\ blocks \in Seq(Int)
      <3> DEFINE S == 0 .. Full(row) - 1
                 w == BlockTopk - m
      <3>1. w \in Nat
        BY <1>1, <1>2
      <3>2. blocks \in Seq(S) /\ S \subseteq Int
        BY <1>5
      <3>3. pad = [i \in 1 .. w |-> -1]
        OBVIOUS
      <3> HIDE DEF S, w, pad, m
      <3>4. blocks \in Seq(Int)
        <4>1. /\ Len(blocks) \in Nat /\ blocks \in [1 .. Len(blocks) -> S]
          BY <3>2
        <4>2. blocks \in [1 .. Len(blocks) -> Int]
          BY <3>2, <4>1
        <4> QED
          BY <4>1, <4>2
      <3>5. pad \in Seq(Int) /\ Len(pad) = w
        BY <3>1, <3>3
      <3> QED
        BY <3>4, <3>5 DEF w
    <2>2. CASE q < m
      <3>1. q + 1 \in 1 .. m
        BY <1>1, <1>4, <2>2
      <3> QED
        BY <1>1, <2>1, <2>2, <3>1 DEF Padded
    <2>3. CASE ~(q < m)
      <3>1. m \in Nat /\ BlockTopk \in Nat /\ q \in Nat /\ q < BlockTopk /\ m <= q
        BY <1>1, <1>2, <1>4, <2>3
      <3>2. Padded(blocks) = blocks \o pad /\ \A i \in 1 .. BlockTopk - m : pad[i] = -1
        BY DEF Padded
      <3>3. m = Len(blocks) /\ Len(pad) = BlockTopk - m
        BY <2>1
      <3> HIDE DEF pad, m, q
      <3>4. q + 1 \in 1 .. Len(blocks) + Len(pad) /\ ~(q + 1 <= Len(blocks)) /\ q + 1 - m \in 1 .. BlockTopk - m
        BY <3>1, <3>3
      <3>5. \A i \in 1 .. Len(blocks) + Len(pad) :
               (blocks \o pad)[i] = IF i <= Len(blocks) THEN blocks[i] ELSE pad[i - Len(blocks)]
        BY <2>1, ConcatProperties, Zenon
      <3>6. (blocks \o pad)[q + 1] = pad[q + 1 - Len(blocks)]
        <4>1. (q + 1) - Len(blocks) = q + 1 - Len(blocks)
          BY <3>1, <3>3
        <4>2. (blocks \o pad)[q + 1] = pad[(q + 1) - Len(blocks)]
          BY <3>4, <3>5
        <4> QED
          BY <4>1, <4>2, Zenon
      <3> QED
        BY <2>3, <3>1, <3>2, <3>3, <3>4, <3>6
    <2> QED
      BY <2>2, <2>3
  <1>7. Expanded(blocks, p - 1) = IF Padded(blocks)[q + 1] >= 0 THEN Padded(blocks)[q + 1] * Ratio + v ELSE -1
    BY DEF Expanded
  <1>8. ASSUME q < m
        PROVE  Expanded(blocks, p - 1) = Token(blocks, p)
    <2>1. q + 1 \in 1 .. m
      BY <1>1, <1>4, <1>8
    <2>2. blocks[q + 1] >= 0
      BY <1>1, <2>1, PositionFacts, SMTT(60)
    <2> QED
      BY <1>6, <1>7, <1>8, <2>2 DEF Token
  <1>9. ASSUME ~(q < m)
        PROVE  Expanded(blocks, p - 1) = -1
    BY <1>6, <1>7, <1>9
  <1> HIDE DEF q, v, m
  <1>10. p <= m * Ratio <=> q < m
    <2>1. ASSUME q < m
          PROVE  p <= m * Ratio
      <3>1. m * Ratio = q * Ratio + (m - q) * Ratio /\ (m - q) * Ratio >= Ratio
        BY <1>1, <1>2, <1>4, <2>1, SMT
      <3> QED
        BY <1>1, <1>2, <1>4, <3>1
    <2>2. ASSUME ~(q < m)
          PROVE  p > m * Ratio
      <3>1. q * Ratio = m * Ratio + (q - m) * Ratio /\ (q - m) * Ratio >= 0
        BY <1>1, <1>2, <1>4, <2>2, SMT
      <3> QED
        BY <1>1, <1>2, <1>4, <3>1
    <2> QED
      BY <1>1, <1>3, <2>1, <2>2
  <1> QED
    BY <1>1, <1>2, <1>3, <1>8, <1>9, <1>10

\* The kernel counts the valid tokens and puts the tail behind them.
LEMMA TritonLaid ==
    ASSUME job \in Jobs, NEW row \in 1 .. NumRows, NEW blocks, Selection(row, blocks)
    PROVE  Laid(row, blocks, TritonExpand(row, blocks))
  <1> DEFINE V == ValidTokens(blocks)
             C == TailCount(row)
             list == TritonExpand(row, blocks)
  <1>1. /\ V \in Nat /\ V <= job.topk /\ job.topk \in Nat /\ C \in 0 .. Ratio - 1
        /\ Ratio \in Nat \ {0} /\ FinalTopk = job.topk + Ratio - 1
    BY ValidFacts, PositionFacts, WidthFacts
  <1>2. FinalTopk \in Nat /\ V + C <= FinalTopk
    BY <1>1
  <1>3. DOMAIN list = 1 .. FinalTopk
    BY DEF TritonExpand
  <1>4. \A p \in 1 .. FinalTopk :
          list[p] = IF p - 1 < V
                    THEN IF Expanded(blocks, p - 1) < SeqLen(row) THEN Expanded(blocks, p - 1) ELSE -1
                    ELSE TailToken(row, p - 1 - V)
    BY DEF TritonExpand
  <1> HIDE DEF V, C, list
  <1>5. ASSUME NEW p \in 1 .. V
        PROVE  list[p] = Token(blocks, p)
    <2>1. p \in 1 .. FinalTopk /\ p \in 1 .. job.topk /\ p - 1 < V /\ p <= V
      BY <1>1, <1>2
    <2>2. Expanded(blocks, p - 1) = Token(blocks, p)
      BY <2>1, ExpandedTokens DEF V
    <2>3. /\ Token(blocks, p) \in Nat /\ Token(blocks, p) < TailStart(row)
          /\ TailStart(row) <= SeqLen(row)
      BY <2>1, TokenFacts DEF V
    <2>4. TailStart(row) \in Nat /\ SeqLen(row) \in Nat
      BY PositionFacts
    <2> QED
      BY <1>4, <2>1, <2>2, <2>3, <2>4
  <1>6. ASSUME NEW p \in V + 1 .. FinalTopk
        PROVE  list[p] = IF p <= V + C THEN TailStart(row) + (p - V - 1) ELSE -1
    <2>1. p \in 1 .. FinalTopk /\ ~(p - 1 < V) /\ p - 1 - V \in Nat /\ p - 1 - V = p - V - 1
      BY <1>1, <1>2
    <2>2. list[p] = TailToken(row, p - 1 - V)
      BY <1>4, <2>1
    <2>3. TailToken(row, p - 1 - V) = IF p - 1 - V < C THEN TailStart(row) + (p - 1 - V) ELSE -1
      BY <2>1, TailTokens DEF C
    <2>4. p - 1 - V < C <=> p <= V + C
      BY <1>1, <1>2
    <2> QED
      BY <2>1, <2>2, <2>3, <2>4
  <1>7. \A p \in V + 1 .. V + C : list[p] = TailStart(row) + (p - V - 1)
    BY <1>1, <1>2, <1>6
  <1>8. \A p \in V + C + 1 .. FinalTopk : list[p] = -1
    BY <1>1, <1>2, <1>6
  <1> QED
    BY <1>3, <1>5, <1>7, <1>8 DEF Laid, V, C, list

\* The reference before it sorts: the holes of the blocks before the tail.
LEMMA UnsortedFacts ==
    ASSUME job \in Jobs, NEW row \in 1 .. NumRows, NEW blocks, Selection(row, blocks)
    PROVE  LET u == Unsorted(row, blocks)
               V == ValidTokens(blocks)
               C == TailCount(row)
           IN  /\ DOMAIN u = 1 .. FinalTopk
               /\ \A p \in 1 .. V : u[p] = Token(blocks, p)
               /\ \A p \in V + 1 .. job.topk : u[p] = -1
               /\ \A i \in 1 .. C : u[job.topk + i] = TailStart(row) + (i - 1)
               /\ \A p \in job.topk + C + 1 .. FinalTopk : u[p] = -1
  <1> DEFINE V == ValidTokens(blocks)
             C == TailCount(row)
             k == job.topk
             body == [col \in 1 .. job.topk |->
                        IF Expanded(blocks, col - 1) < SeqLen(row) THEN Expanded(blocks, col - 1) ELSE -1]
             tail == [i \in 1 .. Ratio - 1 |-> TailToken(row, i - 1)]
             u == Unsorted(row, blocks)
  <1>1. /\ V \in Nat /\ V <= k /\ k \in Nat /\ C \in 0 .. Ratio - 1
        /\ Ratio \in Nat \ {0} /\ FinalTopk = k + Ratio - 1
    BY ValidFacts, PositionFacts, WidthFacts
  <1>2. TailStart(row) \in Nat /\ SeqLen(row) \in Nat
    BY PositionFacts
  <1>3. ASSUME NEW p \in 1 .. k
        PROVE  body[p] = IF p <= V THEN Token(blocks, p) ELSE -1
    <2>1. CASE p <= V
      <3>1. p \in 1 .. V
        BY <1>1, <2>1
      <3>2. Expanded(blocks, p - 1) = Token(blocks, p)
        BY <2>1, ExpandedTokens
      <3>3. Token(blocks, p) < SeqLen(row)
        <4>1. /\ Token(blocks, p) \in Nat /\ Token(blocks, p) < TailStart(row)
              /\ TailStart(row) <= SeqLen(row)
          BY <3>1, TokenFacts
        <4> QED
          BY <1>2, <4>1
      <3> QED
        BY <2>1, <3>2, <3>3
    <2>2. CASE ~(p <= V)
      <3>1. Expanded(blocks, p - 1) = -1
        BY <1>1, <2>2, ExpandedTokens
      <3> QED
        BY <2>2, <3>1
    <2> QED
      BY <2>1, <2>2
  <1>4. ASSUME NEW i \in 1 .. Ratio - 1
        PROVE  tail[i] = IF i <= C THEN TailStart(row) + (i - 1) ELSE -1
    <2>1. i - 1 \in Nat /\ (i - 1 < C <=> i <= C)
      BY <1>1
    <2>2. TailToken(row, i - 1) = IF i - 1 < C THEN TailStart(row) + (i - 1) ELSE -1
      BY <2>1, TailTokens
    <2> QED
      BY <2>1, <2>2
  <1>5. body \in Seq(Int) /\ Len(body) = k
    <2>1. \A p \in 1 .. k : body[p] \in Int
      <3> TAKE p \in 1 .. k
      <3>1. p <= V => Token(blocks, p) \in Nat
        BY <1>1, TokenFacts
      <3> QED
        BY <1>3, <3>1
    <2>2. body = [p \in 1 .. k |-> body[p]]
      OBVIOUS
    <2> HIDE DEF body, k
    <2> QED
      BY <1>1, <2>1, <2>2
  <1>6. tail \in Seq(Int) /\ Len(tail) = Ratio - 1
    <2>1. \A i \in 1 .. Ratio - 1 : tail[i] \in Int
      BY <1>1, <1>2, <1>4
    <2>2. tail = [i \in 1 .. Ratio - 1 |-> tail[i]]
      OBVIOUS
    <2>3. Ratio - 1 \in Nat
      BY <1>1
    <2> HIDE DEF tail
    <2> QED
      BY <2>1, <2>2, <2>3
  <1>7. u = body \o tail
    BY DEF Unsorted
  <1> HIDE DEF V, C, k, body, tail, u
  <1>8. /\ Len(u) = k + (Ratio - 1) /\ DOMAIN u = 1 .. k + (Ratio - 1)
        /\ \A i \in 1 .. k + (Ratio - 1) : u[i] = IF i <= k THEN body[i] ELSE tail[i - k]
    <2>1. /\ body \o tail \in Seq(Int) /\ Len(body \o tail) = Len(body) + Len(tail)
          /\ \A i \in 1 .. Len(body) + Len(tail) :
               (body \o tail)[i] = IF i <= Len(body) THEN body[i] ELSE tail[i - Len(body)]
      BY <1>5, <1>6, ConcatProperties, Zenon
    <2>2. DOMAIN u = 1 .. Len(u)
      BY <1>7, <2>1
    <2> QED
      BY <1>5, <1>6, <1>7, <2>1, <2>2
  <1>9. FinalTopk = k + (Ratio - 1)
    BY <1>1
  <1>10. \A p \in 1 .. V : u[p] = Token(blocks, p)
    BY <1>1, <1>3, <1>8
  <1>11. \A p \in V + 1 .. k : u[p] = -1
    BY <1>1, <1>3, <1>8
  <1>12. \A i \in 1 .. C : u[k + i] = TailStart(row) + (i - 1)
    <2> TAKE i \in 1 .. C
    <2>1. k + i \in 1 .. k + (Ratio - 1) /\ ~(k + i <= k) /\ (k + i) - k = i /\ i \in 1 .. Ratio - 1 /\ i <= C
      BY <1>1
    <2> QED
      BY <1>4, <1>8, <2>1
  <1>13. \A p \in k + C + 1 .. FinalTopk : u[p] = -1
    <2> TAKE p \in k + C + 1 .. FinalTopk
    <2>1. /\ p \in 1 .. k + (Ratio - 1) /\ ~(p <= k) /\ p - k \in 1 .. Ratio - 1 /\ ~(p - k <= C)
      BY <1>1
    <2> QED
      BY <1>4, <1>8, <2>1
  <1> QED
    BY <1>8, <1>9, <1>10, <1>11, <1>12, <1>13 DEF V, C, k, u

\* Positions 1 .. V and k + 1 .. k + C are taken, of k + m.
TakenAt(u, k, m, V, C) ==
    /\ DOMAIN u = 1 .. k + m
    /\ \A p \in 1 .. k + m : u[p] >= 0 <=> p \in (1 .. V) \cup (k + 1 .. k + C)
PlacesAt(u, k, m, V, C) ==
    \A p \in 1 .. k + m :
        Place(u, p) = IF p <= V THEN p
                      ELSE IF p <= k THEN p + C
                      ELSE IF p <= k + C THEN p - k + V
                      ELSE p

\* The place the sort gives to a position, from where the holes are.
LEMMA Places ==
    ASSUME NEW k \in Nat, NEW m \in Nat, NEW V \in 0 .. k, NEW C \in 0 .. m,
           FinalTopk = k + m, NEW u, TakenAt(u, k, m, V, C)
    PROVE  PlacesAt(u, k, m, V, C)
  <1> DEFINE Before(p) == {j \in DOMAIN u : SortKey(u, j) <= SortKey(u, p)}
             Taken(p) == p \in (1 .. V) \cup (k + 1 .. k + C)
  <1>0. /\ DOMAIN u = 1 .. k + m
        /\ \A p \in 1 .. k + m : u[p] >= 0 <=> p \in (1 .. V) \cup (k + 1 .. k + C)
    BY DEF TakenAt
  <1>1. \A p \in 1 .. k + m : SortKey(u, p) = IF Taken(p) THEN p ELSE p + (k + m)
    BY <1>0 DEF SortKey
  <1>2. \A p : Place(u, p) = Cardinality(Before(p))
    BY DEF Place
  <1> HIDE DEF Before
  <1>3. ASSUME NEW p \in 1 .. k + m
        PROVE  Before(p) = IF p <= V THEN 1 .. p
                           ELSE IF p <= k THEN (1 .. p) \cup (k + 1 .. k + C)
                           ELSE IF p <= k + C THEN (1 .. V) \cup (k + 1 .. p)
                           ELSE 1 .. p
    <2>1. \A j : j \in Before(p) <=> j \in 1 .. k + m /\ SortKey(u, j) <= SortKey(u, p)
      BY <1>0 DEF Before
    <2>2. CASE p <= V
      <3>1. \A j : j \in Before(p) <=> j \in 1 .. p
        BY <1>1, <2>1, <2>2
      <3> QED
        BY <2>2, <3>1
    <2>3. CASE ~(p <= V) /\ p <= k
      <3>1. \A j : j \in Before(p) <=> j \in (1 .. p) \cup (k + 1 .. k + C)
        BY <1>1, <2>1, <2>3
      <3> QED
        BY <2>3, <3>1
    <2>4. CASE ~(p <= V) /\ ~(p <= k) /\ p <= k + C
      <3>1. \A j : j \in Before(p) <=> j \in (1 .. V) \cup (k + 1 .. p)
        BY <1>1, <2>1, <2>4
      <3> QED
        BY <2>4, <3>1
    <2>5. CASE ~(p <= V) /\ ~(p <= k) /\ ~(p <= k + C)
      <3>1. \A j : j \in Before(p) <=> j \in 1 .. p
        BY <1>1, <2>1, <2>5
      <3> QED
        BY <2>5, <3>1
    <2> QED
      BY <2>2, <2>3, <2>4, <2>5
  <1>4. ASSUME NEW a \in Nat, NEW b \in Nat, a <= k, k <= b
        PROVE  Cardinality((1 .. a) \cup (k + 1 .. b)) = a + (b - k)
    <2>1. IsFiniteSet(1 .. a) /\ Cardinality(1 .. a) = a
      BY FS_Interval
    <2>2. IsFiniteSet(k + 1 .. b) /\ Cardinality(k + 1 .. b) = b - k
      <3>1. k + 1 \in Int /\ b \in Int
        OBVIOUS
      <3>2. IsFiniteSet(k + 1 .. b) /\ Cardinality(k + 1 .. b) = IF k + 1 > b THEN 0 ELSE b - (k + 1) + 1
        BY <3>1, FS_Interval
      <3> QED
        BY <1>4, <3>2
    <2>3. (1 .. a) \cap (k + 1 .. b) = {}
      BY <1>4
    <2> DEFINE S == 1 .. a
               T == k + 1 .. b
    <2> HIDE DEF S, T
    <2>4. Cardinality(S \cup T) = Cardinality(S) + Cardinality(T) - Cardinality(S \cap T)
      BY <2>1, <2>2, FS_Union, Zenon DEF S, T
    <2>5. S \cap T = {} /\ Cardinality(S) = a /\ Cardinality(T) = b - k
      BY <2>1, <2>2, <2>3 DEF S, T
    <2>6. Cardinality(S \cap T) = 0
      BY <2>5, FS_EmptySet, Zenon
    <2>7. Cardinality(S \cup T) = a + (b - k)
      BY <2>4, <2>5, <2>6
    <2> QED
      BY <2>7 DEF S, T
  <1>5. \A p \in Nat : Cardinality(1 .. p) = p
    BY FS_Interval
  <1> SUFFICES ASSUME NEW p \in 1 .. k + m
               PROVE  Place(u, p) = IF p <= V THEN p
                                    ELSE IF p <= k THEN p + C
                                    ELSE IF p <= k + C THEN p - k + V
                                    ELSE p
    BY DEF PlacesAt
  <1>6. CASE p <= V
    BY <1>2, <1>3, <1>5, <1>6
  <1>7. CASE ~(p <= V) /\ p <= k
    <2>1. Cardinality((1 .. p) \cup (k + 1 .. k + C)) = p + C
      BY <1>4, <1>7
    <2> QED
      BY <1>2, <1>3, <1>7, <2>1
  <1>8. CASE ~(p <= V) /\ ~(p <= k) /\ p <= k + C
    <2>1. Cardinality((1 .. V) \cup (k + 1 .. p)) = V + (p - k)
      <3>1. V \in Nat /\ p \in Nat /\ V <= k /\ k <= p
        BY <1>8
      <3> QED
        BY <1>4, <3>1
    <2>2. V + (p - k) = p - k + V
      OBVIOUS
    <2>3. Before(p) = (1 .. V) \cup (k + 1 .. p)
      BY <1>3, <1>8
    <2>4. Place(u, p) = p - k + V
      BY <1>2, <2>1, <2>2, <2>3
    <2> QED
      BY <1>8, <2>4
  <1>9. CASE ~(p <= V) /\ ~(p <= k) /\ ~(p <= k + C)
    BY <1>2, <1>3, <1>5, <1>9
  <1> QED
    BY <1>6, <1>7, <1>8, <1>9

\* The reference sorts the holes behind the tokens and keeps their order.
LEMMA TorchLaid ==
    ASSUME job \in Jobs, NEW row \in 1 .. NumRows, NEW blocks, Selection(row, blocks)
    PROVE  Laid(row, blocks, TorchExpand(row, blocks))
  <1> DEFINE V == ValidTokens(blocks)
             C == TailCount(row)
             k == job.topk
             m == Ratio - 1
             u == Unsorted(row, blocks)
             list == TorchExpand(row, blocks)
             From(p) == CHOOSE i \in DOMAIN u : Place(u, i) = p
  <1>1. /\ V \in 0 .. k /\ k \in Nat /\ C \in 0 .. m /\ m \in Nat
        /\ FinalTopk = k + m /\ TailStart(row) \in Nat
    <2>1. /\ V \in Nat /\ V <= k /\ k \in Nat /\ C \in 0 .. Ratio - 1
          /\ Ratio \in Nat \ {0} /\ FinalTopk = k + Ratio - 1 /\ TailStart(row) \in Nat
      BY ValidFacts, PositionFacts, WidthFacts
    <2> QED
      BY <2>1
  <1>2. /\ DOMAIN u = 1 .. k + m
        /\ \A p \in 1 .. V : u[p] = Token(blocks, p)
        /\ \A p \in V + 1 .. k : u[p] = -1
        /\ \A i \in 1 .. C : u[k + i] = TailStart(row) + (i - 1)
        /\ \A p \in k + C + 1 .. k + m : u[p] = -1
    BY <1>1, UnsortedFacts
  <1>3. \A p \in 1 .. V : Token(blocks, p) \in Nat
    BY TokenFacts
  <1>4. DOMAIN list = 1 .. k + m /\ \A p \in 1 .. k + m : list[p] = u[From(p)]
    BY <1>2 DEF TorchExpand, Sorted
  <1> HIDE DEF V, C, k, m, u, list
  <1>5. ASSUME NEW p \in 1 .. k + m
        PROVE  /\ u[p] >= 0 <=> p \in (1 .. V) \cup (k + 1 .. k + C)
               /\ p \notin (1 .. V) \cup (k + 1 .. k + C) => u[p] = -1
    <2>1. CASE p \in 1 .. V
      BY <1>2, <1>3, <2>1
    <2>2. CASE p \in V + 1 .. k
      BY <1>1, <1>2, <2>2
    <2>3. CASE p \in k + 1 .. k + C
      <3>1. p - k \in 1 .. C /\ k + (p - k) = p
        BY <1>1, <2>3
      <3>2. u[p] = TailStart(row) + ((p - k) - 1)
        BY <1>2, <3>1
      <3> QED
        BY <1>1, <2>3, <3>1, <3>2
    <2>4. CASE p \in k + C + 1 .. k + m
      BY <1>1, <1>2, <2>4
    <2> QED
      BY <1>1, <2>1, <2>2, <2>3, <2>4
  <1>6. \A p \in 1 .. k + m :
           Place(u, p) = IF p <= V THEN p
                         ELSE IF p <= k THEN p + C
                         ELSE IF p <= k + C THEN p - k + V
                         ELSE p
    <2>1. TakenAt(u, k, m, V, C)
      BY <1>2, <1>5 DEF TakenAt
    <2>2. PlacesAt(u, k, m, V, C)
      BY <1>1, <2>1, Places
    <2> QED
      BY <2>2 DEF PlacesAt
  <1>7. ASSUME NEW p \in 1 .. k + m
        PROVE  From(p) \in 1 .. k + m /\ Place(u, From(p)) = p
    <2>1. \E i \in 1 .. k + m : Place(u, i) = p
      <3>1. CASE p <= V
        BY <1>6, <3>1
      <3>2. CASE ~(p <= V) /\ p <= V + C
        <4>1. k + (p - V) \in 1 .. k + m
          BY <1>1, <3>2
        <4>2. Place(u, k + (p - V)) = p
          BY <1>1, <1>6, <3>2, <4>1
        <4> QED
          BY <4>1, <4>2
      <3>3. CASE ~(p <= V + C) /\ p <= k + C
        <4>1. p - C \in 1 .. k + m
          BY <1>1, <3>3
        <4>2. Place(u, p - C) = p
          BY <1>1, <1>6, <3>3, <4>1
        <4> QED
          BY <4>1, <4>2
      <3>4. CASE ~(p <= V + C) /\ ~(p <= k + C)
        <4>1. Place(u, p) = p
          BY <1>1, <1>6, <3>4
        <4> QED
          BY <4>1
      <3> QED
        BY <3>1, <3>2, <3>3, <3>4
    <2> QED
      BY <1>2, <2>1
  <1> HIDE DEF From
  <1>8. ASSUME NEW p \in 1 .. V
        PROVE  list[p] = Token(blocks, p)
    <2>1. p \in 1 .. k + m
      BY <1>1
    <2>2. From(p) = p
      BY <1>1, <1>6, <1>7, <2>1
    <2> QED
      BY <1>2, <1>4, <2>1, <2>2
  <1>9. ASSUME NEW p \in V + 1 .. V + C
        PROVE  list[p] = TailStart(row) + (p - V - 1)
    <2>1. p \in 1 .. k + m /\ p - V \in 1 .. C
      BY <1>1
    <2>2. From(p) = k + (p - V)
      BY <1>1, <1>6, <1>7, <2>1, SMTT(60)
    <2>3. u[k + (p - V)] = TailStart(row) + ((p - V) - 1)
      BY <1>2, <2>1
    <2>4. (p - V) - 1 = p - V - 1
      BY <1>1
    <2> QED
      BY <1>4, <2>1, <2>2, <2>3, <2>4
  <1>10. ASSUME NEW p \in V + C + 1 .. k + m
         PROVE  list[p] = -1
    <2>1. p \in 1 .. k + m
      BY <1>1
    <2>2. From(p) \in 1 .. k + m /\ From(p) \notin (1 .. V) \cup (k + 1 .. k + C)
      BY <1>1, <1>6, <1>7, <2>1
    <2>3. u[From(p)] = -1
      BY <1>5, <2>2
    <2> QED
      BY <1>4, <2>1, <2>3
  <1>11. FinalTopk = k + m /\ DOMAIN list = 1 .. FinalTopk
    BY <1>1, <1>4
  <1> QED
    BY <1>8, <1>9, <1>10, <1>11 DEF Laid, V, C, list

\* The expansion kernel does what the reference does: the same tokens in the
\* same order, for every selection of blocks.
THEOREM ExpansionsAgree ==
    ASSUME job \in Jobs, NEW row \in 1 .. NumRows, NEW blocks, Selection(row, blocks)
    PROVE  TritonExpand(row, blocks) = TorchExpand(row, blocks)
  <1> DEFINE a == TritonExpand(row, blocks)
             b == TorchExpand(row, blocks)
             V == ValidTokens(blocks)
             C == TailCount(row)
  <1>1. Laid(row, blocks, a) /\ Laid(row, blocks, b)
    BY TritonLaid, TorchLaid
  <1>2. a = [p \in 1 .. FinalTopk |-> a[p]]
    BY DEF TritonExpand
  <1>3. b = [p \in DOMAIN b |-> b[p]]
    BY DEF TorchExpand, Sorted
  <1>4. V \in Nat /\ C \in Nat /\ FinalTopk \in Nat
    <2>1. V \in Nat /\ C \in 0 .. Ratio - 1
      BY ValidFacts, PositionFacts
    <2>2. job.topk \in Nat \ {0} /\ Ratio \in Nat \ {0} /\ FinalTopk = job.topk + Ratio - 1
      BY WidthFacts
    <2> QED
      BY <2>1, <2>2
  <1> HIDE DEF a, b, V, C
  <1>5. DOMAIN a = 1 .. FinalTopk /\ DOMAIN b = 1 .. FinalTopk
    BY <1>1 DEF Laid
  <1>6. ASSUME NEW p \in 1 .. FinalTopk
        PROVE  a[p] = b[p]
    <2>1. p \in 1 .. V \/ p \in V + 1 .. V + C \/ p \in V + C + 1 .. FinalTopk
      BY <1>4
    <2> QED
      BY <1>1, <2>1 DEF Laid, V, C
  <1> QED
    BY <1>2, <1>3, <1>5, <1>6 DEF a, b

LEMMA ExpandLaid ==
    ASSUME job \in Jobs, NEW row \in 1 .. NumRows, NEW blocks, Selection(row, blocks)
    PROVE  Laid(row, blocks, Expand(row, blocks))
  BY TritonLaid, TorchLaid DEF Expand

----------------------------------------------------------------------------
(* What attention reads                                                    *)

\* The parts of TokensSound for one row.
ValidAt(list) == {i \in DOMAIN list : list[i] >= 0}
HeldIn(list) == {list[i] : i \in ValidAt(list)}
BlockTokens(b) == b * Ratio .. b * Ratio + Ratio - 1

\* A position of the blocks, and what it says about its block.
LEMMA TokenBlock ==
    ASSUME job \in Jobs, NEW row \in 1 .. NumRows, NEW blocks, Selection(row, blocks),
           NEW p \in 1 .. ValidTokens(blocks), NEW b \in Nat, Token(blocks, p) \in BlockTokens(b)
    PROVE  blocks[(p - 1) \div Ratio + 1] = b /\ (p - 1) % Ratio = Token(blocks, p) - b * Ratio
  <1> DEFINE q == (p - 1) \div Ratio
             v == (p - 1) % Ratio
             d == blocks[q + 1]
             o == Token(blocks, p) - b * Ratio
  <1>1. /\ Len(blocks) \in Nat /\ ValidTokens(blocks) \in Nat /\ Len(blocks) * Ratio \in Nat
        /\ ValidTokens(blocks) <= Len(blocks) * Ratio
        /\ \A i \in 1 .. Len(blocks) : blocks[i] \in 0 .. Full(row) - 1
        /\ Full(row) \in Nat /\ Ratio \in Nat \ {0}
    BY ValidFacts, PositionFacts, SizeAssumption
  <1>2. p \in Nat \ {0} /\ p <= Len(blocks) * Ratio
    BY <1>1
  <1>3. v \in 0 .. Ratio - 1
    BY <1>1, <1>2, BlockPositions
  <1>4. d \in Nat
    <2>1. q + 1 \in 1 .. Len(blocks)
      BY TokenFacts
    <2>2. d \in 0 .. Full(row) - 1
      BY <1>1, <2>1
    <2> QED
      BY <1>1, <2>2
  <1>5. Token(blocks, p) = d * Ratio + v
    BY DEF Token
  <1>6. b * Ratio \in Nat /\ Token(blocks, p) \in Nat /\ d * Ratio = Ratio * d /\ b * Ratio = Ratio * b
    <2>1. b * Ratio \in Nat /\ d * Ratio = Ratio * d /\ b * Ratio = Ratio * b
      BY <1>1, <1>4, SMT
    <2>2. Token(blocks, p) \in Nat
      BY TokenFacts
    <2> QED
      BY <2>1, <2>2
  <1>7. o \in 0 .. Ratio - 1 /\ Token(blocks, p) = b * Ratio + o
    BY <1>1, <1>6, SMTT(60) DEF BlockTokens
  <1> HIDE DEF q, v, d, o
  <1>8. Ratio * d + v = Ratio * b + o
    BY <1>5, <1>6, <1>7
  <1>9. (Ratio * d + v) \div Ratio = d /\ (Ratio * d + v) % Ratio = v
    BY <1>1, <1>3, <1>4, DivModUnique
  <1>10. (Ratio * b + o) \div Ratio = b /\ (Ratio * b + o) % Ratio = o
    BY <1>1, <1>7, DivModUnique
  <1>11. d = b /\ v = o
    BY <1>8, <1>9, <1>10
  <1> QED
    BY <1>11 DEF q, v, d, o

\* Every token of a selected block that fits has a position.
LEMMA BlockPosition ==
    ASSUME job \in Jobs, NEW row \in 1 .. NumRows, NEW blocks, Selection(row, blocks),
           NEW i \in 1 .. Len(blocks), NEW o \in 0 .. Ratio - 1,
           (i - 1) * Ratio + o < job.topk
    PROVE  /\ (i - 1) * Ratio + o + 1 \in 1 .. ValidTokens(blocks)
           /\ Token(blocks, (i - 1) * Ratio + o + 1) = blocks[i] * Ratio + o
  <1> DEFINE y == (i - 1) * Ratio
             p == y + o + 1
  <1>1. /\ Len(blocks) \in Nat /\ Len(blocks) * Ratio \in Nat /\ Ratio \in Nat \ {0}
        /\ ValidTokens(blocks) = job.topk \/ ValidTokens(blocks) = Len(blocks) * Ratio
        /\ job.topk \in Nat /\ i \in Nat \ {0}
    <2>1. /\ Len(blocks) \in Nat /\ Len(blocks) * Ratio \in Nat
          /\ ValidTokens(blocks) = job.topk \/ ValidTokens(blocks) = Len(blocks) * Ratio
      BY ValidFacts
    <2>2. Ratio \in Nat \ {0} /\ job.topk \in Nat
      BY WidthFacts
    <2>3. i \in Nat \ {0}
      BY <2>1
    <2> QED
      BY <2>1, <2>2, <2>3
  <1>2. y \in Nat /\ y = Ratio * (i - 1) /\ y + Ratio <= Len(blocks) * Ratio
    <2>1. /\ y \in Nat /\ y = Ratio * (i - 1)
          /\ Len(blocks) * Ratio = y + (Len(blocks) - (i - 1)) * Ratio
          /\ (Len(blocks) - (i - 1)) * Ratio >= Ratio
          /\ (Len(blocks) - (i - 1)) * Ratio \in Int
      BY <1>1, SMT
    <2>2. Ratio \in Nat
      BY <1>1
    <2> QED
      BY <2>1, <2>2
  <1>3. p \in 1 .. ValidTokens(blocks) /\ p - 1 = Ratio * (i - 1) + o
    <2> HIDE DEF y
    <2> QED
      BY <1>1, <1>2 DEF y
  <1>4. (p - 1) \div Ratio = i - 1 /\ (p - 1) % Ratio = o
    <2>1. i - 1 \in Nat
      BY <1>1
    <2>2. (Ratio * (i - 1) + o) \div Ratio = i - 1 /\ (Ratio * (i - 1) + o) % Ratio = o
      BY <1>1, <2>1, DivModUnique
    <2> HIDE DEF p
    <2> QED
      BY <1>3, <2>2
  <1>5. i - 1 + 1 = i
    BY <1>1
  <1> HIDE DEF p
  <1>6. Token(blocks, p) = blocks[i] * Ratio + o
    BY <1>4, <1>5 DEF Token
  <1> QED
    BY <1>3, <1>6 DEF p, y

LEMMA LaidSound ==
    ASSUME job \in Jobs, NEW row \in 1 .. NumRows, NEW blocks, Selection(row, blocks),
           NEW list, Laid(row, blocks, list)
    PROVE  /\ \A i \in ValidAt(list) : list[i] <= Rows[row][2] /\ 1 .. i \subseteq ValidAt(list)
           /\ \A i, j \in ValidAt(list) : list[i] = list[j] => i = j
           /\ TailStart(row) .. Rows[row][2] \subseteq HeldIn(list)
           /\ TailStart(row) <= job.topk =>
                \A b \in 0 .. Full(row) - 1 : BlockTokens(b) \subseteq HeldIn(list)
           /\ \A b, d \in 0 .. Full(row) - 1 :
                BlockTokens(b) \cap HeldIn(list) # {} /\ BlockTokens(d) \cap HeldIn(list) = {} =>
                  score[Rows[row][1]][b + 1] >= score[Rows[row][1]][d + 1]
  <1> DEFINE V == ValidTokens(blocks)
             C == TailCount(row)
             S == TailStart(row)
             F == FinalTopk
             pos == Rows[row][2]
             n == Full(row)
             m == Len(blocks)
  <1>1. /\ V \in Nat /\ C \in Nat /\ S \in Nat /\ F \in Nat /\ V + C <= F
        /\ pos + 1 = S + C /\ pos \in Nat /\ n \in Nat /\ S = n * Ratio /\ m \in Nat
        /\ Ratio \in Nat \ {0} /\ job.topk \in Nat \ {0}
    <2>1. /\ V \in Nat /\ V <= job.topk /\ C \in 0 .. Ratio - 1 /\ S \in Nat /\ m \in Nat
          /\ pos + 1 = S + C /\ pos \in Nat /\ n \in Nat /\ S = n * Ratio
          /\ Ratio \in Nat \ {0} /\ F = job.topk + Ratio - 1 /\ job.topk \in Nat \ {0}
      BY ValidFacts, PositionFacts, WidthFacts
    <2> HIDE DEF V, C, S, F, pos, n, m
    <2>2. C \in Nat /\ F \in Nat /\ V + C <= F
      BY <2>1
    <2> QED
      BY <2>1, <2>2
  <1>2. /\ DOMAIN list = 1 .. F
        /\ \A p \in 1 .. V : list[p] = Token(blocks, p)
        /\ \A p \in V + 1 .. V + C : list[p] = S + (p - V - 1)
        /\ \A p \in V + C + 1 .. F : list[p] = -1
    BY DEF Laid
  <1>3. \A p \in 1 .. V : Token(blocks, p) \in Nat /\ Token(blocks, p) < S
    BY TokenFacts
  <1> HIDE DEF V, C, S, F, pos, n, m
  <1>4. ValidAt(list) = 1 .. V + C
    <2>1. \A p \in 1 .. F : list[p] >= 0 <=> p <= V + C
      <3> TAKE p \in 1 .. F
      <3>1. CASE p <= V
        BY <1>1, <1>2, <1>3, <3>1
      <3>2. CASE V < p /\ p <= V + C
        BY <1>1, <1>2, <3>2
      <3>3. CASE V + C < p
        BY <1>1, <1>2, <3>3
      <3> QED
        BY <1>1, <3>1, <3>2, <3>3
    <2>2. \A p : p \in ValidAt(list) <=> p \in 1 .. V + C
      BY <1>1, <1>2, <2>1 DEF ValidAt
    <2> QED
      BY <2>2
  <1>5. ASSUME NEW p \in 1 .. V + C
        PROVE  /\ p \in 1 .. V => list[p] = Token(blocks, p) /\ list[p] \in Nat /\ list[p] < S
               /\ p \notin 1 .. V => list[p] = S + (p - V - 1) /\ list[p] >= S /\ list[p] <= pos
    BY <1>1, <1>2, <1>3
  <1>6. \A i \in ValidAt(list) : list[i] <= pos /\ 1 .. i \subseteq ValidAt(list)
    <2> SUFFICES ASSUME NEW i \in 1 .. V + C
                 PROVE  list[i] <= pos /\ 1 .. i \subseteq 1 .. V + C
      BY <1>4
    <2> QED
      BY <1>1, <1>5
  <1>7. \A i, j \in ValidAt(list) : list[i] = list[j] => i = j
    <2> SUFFICES ASSUME NEW i \in 1 .. V + C, NEW j \in 1 .. V + C, list[i] = list[j]
                 PROVE  i = j
      BY <1>4
    <2>1. CASE i \in 1 .. V /\ j \in 1 .. V
      <3>1. Token(blocks, i) = Token(blocks, j)
        BY <1>5, <2>1
      <3> DEFINE q == (i - 1) \div Ratio + 1
                 b == blocks[q]
                 x == (j - 1) \div Ratio + 1
      <3>2. q \in 1 .. m /\ x \in 1 .. m
        BY <2>1, TokenFacts DEF V, m
      <3>3. b \in Nat
        <4>1. \A k \in 1 .. m : blocks[k] \in 0 .. n - 1
          BY ValidFacts DEF m, n
        <4> QED
          BY <1>1, <3>2, <4>1
      <3>4. /\ i \in Nat \ {0} /\ j \in Nat \ {0} /\ i <= m * Ratio /\ j <= m * Ratio
        <4>1. V <= m * Ratio /\ m * Ratio \in Nat
          BY ValidFacts DEF V, m
        <4> QED
          BY <1>1, <2>1, <4>1
      <3>5. /\ (i - 1) % Ratio \in 0 .. Ratio - 1
            /\ i = ((i - 1) \div Ratio) * Ratio + ((i - 1) % Ratio) + 1
            /\ j = ((j - 1) \div Ratio) * Ratio + ((j - 1) % Ratio) + 1
        BY <1>1, <3>4, BlockPositions
      <3>6. Token(blocks, i) \in BlockTokens(b)
        <4>1. Token(blocks, i) = b * Ratio + ((i - 1) % Ratio)
          BY DEF Token
        <4>2. b * Ratio \in Nat
          BY <1>1, <3>3, SMT
        <4> HIDE DEF b
        <4> QED
          BY <1>1, <3>5, <4>1, <4>2 DEF BlockTokens
      <3>7. b = blocks[x] /\ (i - 1) % Ratio = (j - 1) % Ratio
        <4> HIDE DEF b
        <4>1. (i - 1) % Ratio = Token(blocks, i) - b * Ratio
          BY <2>1, <3>3, <3>6, TokenBlock DEF V
        <4>2. blocks[x] = b /\ (j - 1) % Ratio = Token(blocks, j) - b * Ratio
          BY <2>1, <3>1, <3>3, <3>6, TokenBlock DEF V
        <4> QED
          BY <3>1, <4>1, <4>2
      <3>8. q = x
        BY <3>2, <3>7 DEF Selection, m
      <3>9. (i - 1) \div Ratio = (j - 1) \div Ratio
        <4>1. (i - 1) \div Ratio \in Int /\ (j - 1) \div Ratio \in Int
          BY <1>1
        <4> QED
          BY <3>8, <4>1
      <3> QED
        BY <3>5, <3>7, <3>9
    <2>2. CASE ~(i \in 1 .. V) /\ ~(j \in 1 .. V)
      BY <1>1, <1>5, <2>2
    <2>3. CASE i \in 1 .. V /\ ~(j \in 1 .. V)
      BY <1>1, <1>5, <2>3
    <2>4. CASE ~(i \in 1 .. V) /\ j \in 1 .. V
      BY <1>1, <1>5, <2>4
    <2> QED
      BY <2>1, <2>2, <2>3, <2>4
  <1>8. \A p \in 1 .. V + C : list[p] \in HeldIn(list)
    BY <1>4 DEF HeldIn
  <1>9. S .. pos \subseteq HeldIn(list)
    <2> SUFFICES ASSUME NEW t \in S .. pos
                 PROVE  t \in HeldIn(list)
      OBVIOUS
    <2>1. V + 1 + (t - S) \in V + 1 .. V + C /\ S + ((V + 1 + (t - S)) - V - 1) = t
      BY <1>1
    <2>2. list[V + 1 + (t - S)] = t
      BY <1>2, <2>1
    <2>3. V + 1 + (t - S) \in 1 .. V + C
      BY <1>1, <2>1
    <2> QED
      BY <1>8, <2>2, <2>3
  <1>10. ASSUME NEW i \in 1 .. m, NEW o \in 0 .. Ratio - 1, (i - 1) * Ratio + o < job.topk
         PROVE  blocks[i] * Ratio + o \in HeldIn(list)
    <2> DEFINE p == (i - 1) * Ratio + o + 1
    <2>1. p \in 1 .. V /\ Token(blocks, p) = blocks[i] * Ratio + o
      BY <1>10, BlockPosition DEF V, m
    <2> HIDE DEF p
    <2>2. p \in 1 .. V + C /\ list[p] = blocks[i] * Ratio + o
      BY <1>1, <1>2, <2>1
    <2> QED
      BY <1>8, <2>2
  <1>11. ASSUME S <= job.topk, NEW b \in 0 .. n - 1
         PROVE  BlockTokens(b) \subseteq HeldIn(list)
    <2>1. n <= BlockTopk
      <3>1. /\ BlockTopk \in Nat /\ job.topk <= BlockTopk * Ratio /\ BlockTopk * Ratio \in Nat
        BY WidthFacts
      <3>2. ASSUME n > BlockTopk
            PROVE  FALSE
        <4>1. n * Ratio = BlockTopk * Ratio + (n - BlockTopk) * Ratio /\ (n - BlockTopk) * Ratio >= Ratio
          BY <1>1, <3>1, <3>2, SMT
        <4> QED
          BY <1>1, <1>11, <3>1, <4>1
      <3> QED
        BY <1>1, <3>1, <3>2
    <2>2. PICK i \in 1 .. m : blocks[i] = b
      BY <2>1 DEF Selection, Holds, m, n
    <2>3. m <= n
      BY ValidFacts DEF m, n
    <2> SUFFICES ASSUME NEW t \in BlockTokens(b)
                 PROVE  t \in HeldIn(list)
      OBVIOUS
    <2>4. b * Ratio \in Nat
      BY <1>1, SMT
    <2>5. t - b * Ratio \in 0 .. Ratio - 1 /\ b * Ratio + (t - b * Ratio) = t
      BY <1>1, <2>4 DEF BlockTokens
    <2>6. (i - 1) * Ratio + (t - b * Ratio) < job.topk
      <3> DEFINE y == (i - 1) * Ratio
                 z == b * Ratio
      <3>1. y \in Nat /\ n * Ratio = y + (n - (i - 1)) * Ratio /\ (n - (i - 1)) * Ratio >= Ratio
        BY <1>1, <2>3, SMT
      <3>2. y + Ratio <= S
        BY <1>1, <3>1
      <3> HIDE DEF y, z
      <3> QED
        BY <1>1, <1>11, <2>5, <3>1, <3>2 DEF y, z
    <2>7. blocks[i] * Ratio + (t - b * Ratio) \in HeldIn(list)
      BY <1>10, <2>5, <2>6
    <2> QED
      BY <2>2, <2>5, <2>7
  <1>12. ASSUME NEW b \in 0 .. n - 1, NEW d \in 0 .. n - 1,
                BlockTokens(b) \cap HeldIn(list) # {}, BlockTokens(d) \cap HeldIn(list) = {}
         PROVE  score[Rows[row][1]][b + 1] >= score[Rows[row][1]][d + 1]
    <2>1. Holds(blocks, b)
      <3>1. PICK p \in 1 .. V + C : list[p] \in BlockTokens(b)
        BY <1>4, <1>12 DEF HeldIn
      <3>2. list[p] < S
        <4>1. n * Ratio = b * Ratio + (n - b) * Ratio /\ (n - b) * Ratio >= Ratio /\ b * Ratio \in Nat
          BY <1>1, SMT
        <4>2. b * Ratio + Ratio <= S
          BY <1>1, <4>1
        <4> QED
          BY <1>1, <3>1, <4>1, <4>2 DEF BlockTokens
      <3>3. p \in 1 .. V
        BY <1>1, <1>5, <3>2
      <3>4. Token(blocks, p) \in BlockTokens(b) /\ b \in Nat
        BY <1>1, <1>2, <3>1, <3>3
      <3>5. blocks[(p - 1) \div Ratio + 1] = b
        BY <3>3, <3>4, TokenBlock DEF V
      <3>6. (p - 1) \div Ratio + 1 \in 1 .. m
        BY <3>3, TokenFacts DEF V, m
      <3> QED
        BY <3>5, <3>6 DEF Holds, m
    <2>2. ~Holds(blocks, d)
      <3> SUFFICES ASSUME NEW i \in 1 .. m, blocks[i] = d
                   PROVE  FALSE
        BY DEF Holds, m
      <3>1. m <= BlockTopk /\ BlockTopk \in Nat /\ (BlockTopk - 1) * Ratio < job.topk
        BY ValidFacts, WidthFacts DEF m
      <3>2. 0 \in 0 .. Ratio - 1 /\ (i - 1) * Ratio + 0 < job.topk
        <4>1. /\ (BlockTopk - 1) * Ratio = (i - 1) * Ratio + (BlockTopk - i) * Ratio
              /\ (BlockTopk - i) * Ratio >= 0 /\ (i - 1) * Ratio \in Nat
          BY <1>1, <3>1, SMT
        <4> QED
          BY <1>1, <3>1, <4>1
      <3>3. blocks[i] * Ratio + 0 \in HeldIn(list)
        BY <1>10, <3>2
      <3>4. d * Ratio \in Nat
        BY <1>1, SMT
      <3>5. d * Ratio \in HeldIn(list) /\ d * Ratio \in BlockTokens(d)
        BY <1>1, <3>3, <3>4 DEF BlockTokens
      <3> QED
        BY <1>12, <3>5
    <2> QED
      BY <2>1, <2>2 DEF Selection, n
  <1> QED
    BY <1>6, <1>7, <1>9, <1>11, <1>12 DEF S, pos, n

\* What attention reads for a query, for every compression ratio, width and
\* packing, in both expansions and for every way ties may be broken: visible
\* positions, each once and without holes, the query's own unfinished block,
\* everything while it fits, and no block that scores lower than one left out.
THEOREM TokensSoundAlways == Spec => []TokensSound
  <1>1. LaunchInv /\ SelectInv => TokensSound
    <2> SUFFICES ASSUME LaunchInv, SelectInv, tokens # None, NEW row \in 1 .. NumRows
                 PROVE  LET list == tokens[row]
                            valid == {i \in DOMAIN list : list[i] >= 0}
                            held == {list[i] : i \in valid}
                            r == Rows[row][1]
                            pos == Rows[row][2]
                            Block(b) == b * Ratio .. b * Ratio + Ratio - 1
                            full == 0 .. (pos + 1) \div Ratio - 1
                        IN  /\ \A i \in valid : list[i] <= pos /\ 1 .. i \subseteq valid
                            /\ \A i, j \in valid : list[i] = list[j] => i = j
                            /\ TailStart(row) .. pos \subseteq held
                            /\ TailStart(row) <= job.topk => \A b \in full : Block(b) \subseteq held
                            /\ \A b, d \in full : Block(b) \cap held # {} /\ Block(d) \cap held = {} =>
                                  score[r][b + 1] >= score[r][d + 1]
      BY DEF TokensSound
    <2>1. /\ job \in Jobs /\ ScoresDone /\ picked[row] \in FastTopk(row)
          /\ tokens[row] = Expand(row, picked[row])
      BY DEF LaunchInv, SelectInv
    <2>2. Selection(row, picked[row])
      BY <2>1, SelectionFacts
    <2>3. Laid(row, picked[row], tokens[row])
      BY <2>1, <2>2, ExpandLaid
    <2> QED
      BY <2>1, <2>2, <2>3, LaidSound DEF ValidAt, HeldIn, BlockTokens, Full
  <1> QED
    BY <1>1, SelectAlways, PTL
=============================================================================
