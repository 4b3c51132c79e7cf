---------------------------- MODULE KvPoolProofs ----------------------------
(***************************************************************************)
(* Proofs about KvPool, for every value of its constants.                  *)
(***************************************************************************)
EXTENDS KvPool, FiniteSetTheorems, SequenceTheorems, WellFoundedInduction, TLAPS

----------------------------------------------------------------------------
(* Division                                                                *)

LEMMA DivMod ==
    ASSUME NEW n \in Nat, NEW d \in Nat \ {0}
    PROVE  /\ n \div d \in Nat /\ n % d \in 0 .. d - 1
           /\ n = d * (n \div d) + (n % d)
  BY SMT

\* Quotient and remainder are determined by the number.
LEMMA DivModUnique ==
    ASSUME NEW d \in Nat \ {0}, NEW q \in Nat, NEW r \in 0 .. d - 1
    PROVE  (d * q + r) \div d = q /\ (d * q + r) % d = r
  <1> DEFINE n == d * q + r
             u == n \div d
             v == n % d
  <1>1. n \in Nat
    BY SMT
  <1>2. u \in Nat /\ v \in 0 .. d - 1 /\ n = d * u + v
    BY <1>1, DivMod
  <1>3. d * (u - q) = r - v
    BY <1>2, SMT
  <1>4. CASE u = q
    BY <1>2, <1>4, SMT
  <1>5. CASE u > q
    <2>1. d * (u - q) >= d
      BY <1>2, <1>5, SMT
    <2> QED
      BY <1>2, <1>3, <2>1, SMT
  <1>6. CASE u < q
    <2>1. d * (q - u) >= d /\ d * (u - q) = 0 - d * (q - u)
      BY <1>2, <1>6, SMT
    <2> QED
      BY <1>2, <1>3, <2>1, SMT
  <1> QED
    BY <1>2, <1>4, <1>5, <1>6, SMT

\* The number of pieces of at most d that n is cut into.
LEMMA CeilDiv ==
    ASSUME NEW n \in Nat, NEW d \in Nat \ {0}
    PROVE  LET k == (n + d - 1) \div d
           IN  k \in Nat /\ d * k \in Nat /\ d * k <= n + d - 1 /\ n <= d * k
  <1> DEFINE x == n + d - 1
             k == x \div d
             r == x % d
  <1>1. x \in Nat
    OBVIOUS
  <1>2. k \in Nat /\ r \in 0 .. d - 1 /\ x = d * k + r
    <2> HIDE DEF x
    <2> QED
      BY <1>1, DivMod
  <1>3. x = n + d - 1
    OBVIOUS
  <1> HIDE DEF x, k, r
  <1>4. d * k \in Nat
    BY <1>2, SMT
  <1>5. k \in Nat /\ d * k \in Nat /\ d * k <= n + d - 1 /\ n <= d * k
    BY <1>1, <1>2, <1>3, <1>4
  <1> QED
    BY <1>5 DEF k, x

----------------------------------------------------------------------------
(* Configurations and addresses                                            *)

LEMMA ConfigFacts ==
    ASSUME c \in Configs
    PROVE  /\ c.page \in Nat \ {0} /\ c.slots \in 1 .. NumSlots
           /\ c.cap \in Nat /\ c.start \in Nat
           /\ c.full \in Seq(Nat) /\ Len(c.full) \in 1 .. MaxLayers /\ c.start <= c.full[1]
           /\ \A i, j \in DOMAIN c.full : i < j => c.full[i] < c.full[j]
           /\ c.hnd => c.kind = "mha" /\ ~c.prefix
           /\ c.swap => c.slots > 1
           /\ c.kind \in {"mha", "quant", "fp4", "page_major", "mxfp8", "mla", "mla_fp4",
                          "dsa", "minimax"}
           /\ c.index \in {"none", "k", "kv"}
  BY ConfigAssumption DEF PoolConfig

LEMMA LayerFacts ==
    ASSUME c \in Configs
    PROVE  /\ 0 \in Local /\ Local \subseteq 0 .. MaxLayers - 1
           /\ \A l \in Local : Global(l) \in Nat /\ Global(l) >= c.start
           /\ \A l, m \in Local : Global(l) = Global(m) => l = m
           /\ \A l \in Local : TransferId(Global(l)) = l
           /\ Len(c.full) - 1 \in Local
           /\ \A l \in Local : Global(l) <= c.full[Len(c.full)]
  <1>1. Len(c.full) \in 1 .. MaxLayers /\ c.full \in Seq(Nat) /\ c.start <= c.full[1]
    BY ConfigFacts
  <1>2. \A i, j \in DOMAIN c.full : i < j => c.full[i] < c.full[j]
    BY ConfigFacts
  <1>3. \A i \in 1 .. Len(c.full) : c.full[i] \in Nat
    BY <1>1
  <1>4. MaxLayers \in Nat /\ c.start \in Nat
    BY PoolAssumption, ConfigFacts
  <1>5. \A l, m \in Local : Global(l) = Global(m) => l = m
    <2>1. SUFFICES ASSUME NEW l \in Local, NEW m \in Local, l < m
                   PROVE  Global(l) # Global(m)
      BY <1>1 DEF Local
    <2>2. l + 1 \in DOMAIN c.full /\ m + 1 \in DOMAIN c.full /\ l + 1 < m + 1
      BY <1>1, <2>1 DEF Local
    <2>3. c.full[l + 1] < c.full[m + 1] /\ c.full[l + 1] \in Nat /\ c.full[m + 1] \in Nat
      BY <1>1, <1>2, <2>2
    <2> QED
      BY <2>3 DEF Global
  <1>6. \A l \in Local : TransferId(Global(l)) = l
    BY <1>5 DEF TransferId
  <1>7. ASSUME NEW i \in 1 .. Len(c.full), NEW j \in 1 .. Len(c.full), i <= j
        PROVE  c.full[i] <= c.full[j]
    <2>1. i = j \/ c.full[i] < c.full[j]
      BY <1>1, <1>2, <1>7
    <2>2. c.full[i] \in Nat /\ c.full[j] \in Nat
      BY <1>3
    <2> QED
      BY <2>1, <2>2
  <1>8. \A l \in Local : Global(l) \in Nat /\ Global(l) >= c.start /\ Global(l) <= c.full[Len(c.full)]
    <2> TAKE l \in Local
    <2>1. l + 1 \in 1 .. Len(c.full) /\ 1 \in 1 .. Len(c.full) /\ 1 <= l + 1 /\ l + 1 <= Len(c.full)
      BY <1>1 DEF Local
    <2>2. c.full[1] <= c.full[l + 1] /\ c.full[l + 1] <= c.full[Len(c.full)]
      BY <1>1, <1>7, <2>1
    <2>3. c.full[1] \in Nat /\ c.full[l + 1] \in Nat
      BY <1>3, <2>1
    <2> QED
      BY <1>1, <1>4, <2>2, <2>3 DEF Global
  <1> QED
    BY <1>1, <1>4, <1>5, <1>6, <1>8 DEF Local

LEMMA SlotFacts ==
    ASSUME c \in Configs
    PROVE  /\ Slots \subseteq Nat
           /\ \A s \in Slots : Nth(s) \in 1 .. c.slots /\ c.page + Nth(s) - 1 = s
           /\ \A n \in 1 .. c.slots : c.page + n - 1 \in Slots /\ Nth(c.page + n - 1) = n
           /\ 1 .. c.slots \subseteq 1 .. NumSlots
           /\ \A s, t \in Slots : Nth(s) = Nth(t) => s = t
           /\ \A s \in Slots : Translate(s) \in Slots /\ Translate(Translate(s)) = s
           /\ \A s, t \in Slots : Translate(s) = Translate(t) => s = t
  <1>1. c.page \in Nat \ {0} /\ c.slots \in 1 .. NumSlots /\ NumSlots \in Nat
    BY ConfigFacts, PoolAssumption
  <1>2. \A s \in Slots : Translate(s) \in Slots /\ Translate(Translate(s)) = s
    <2>1. CASE c.swap
      <3>1. c.slots > 1
        BY <2>1, ConfigFacts
      <3> QED
        BY <1>1, <2>1, <3>1 DEF Slots, Translate
    <2>2. CASE ~c.swap
      BY <2>2 DEF Translate
    <2> QED
      BY <2>1, <2>2
  <1>3. \A s, t \in Slots : Translate(s) = Translate(t) => s = t
    BY <1>2
  <1> QED
    BY <1>1, <1>2, <1>3 DEF Slots, Nth

LEMMA PagedInjective ==
    ASSUME c \in Configs, NEW s \in Nat, NEW t \in Nat, Paged(s) = Paged(t)
    PROVE  s = t
  <1>1. c.page \in Nat \ {0}
    BY ConfigFacts
  <1>2. s \div c.page = t \div c.page /\ s % c.page = t % c.page
    BY DEF Paged
  <1> QED
    BY <1>1, <1>2, DivMod

\* In the interleaved layout a page is a square of scale blocks.
LEMMA InterleavedParts ==
    ASSUME c \in Configs, SfInterleaved, NEW s \in Nat
    PROVE  /\ SfChunk = BlockSize
           /\ (s % c.page) % BlockSize = s % BlockSize
           /\ (s % c.page) \div BlockSize \in 0 .. BlockSize - 1
  <1> DEFINE B == BlockSize
             x == s % c.page
             q == s \div c.page
             u == x \div B
             v == x % B
  <1>1. B \in Nat \ {0} /\ c.page = B * B /\ c.page \in Nat \ {0}
    BY PoolAssumption, ConfigFacts DEF SfInterleaved
  <1>2. SfChunk = B
    BY <1>1, DivModUnique DEF SfChunk
  <1>3. q \in Nat /\ x \in 0 .. c.page - 1 /\ s = c.page * q + x
    BY <1>1, DivMod
  <1> HIDE DEF x, q
  <1>4. u \in Nat /\ v \in 0 .. B - 1 /\ x = B * u + v
    <2>1. x \in Nat
      BY <1>1, <1>3
    <2> QED
      BY <1>1, <2>1, DivMod
  <1> HIDE DEF u, v
  <1>5. s = B * (B * q + u) + v
    BY <1>1, <1>3, <1>4, SMT
  <1>6. s % B = v
    BY <1>1, <1>3, <1>4, <1>5, DivModUnique
  <1>7. u < B
    <2>1. SUFFICES ASSUME u >= B PROVE FALSE
      BY <1>1, <1>4
    <2>2. B * u >= B * B
      BY <1>1, <1>4, <2>1, SMT
    <2> QED
      BY <1>1, <1>3, <1>4, <2>2, SMT
  <1> QED
    BY <1>1, <1>2, <1>4, <1>6, <1>7 DEF u, v, x

LEMMA SfInjective ==
    ASSUME c \in Configs, SfInterleaved, NEW s \in Nat, NEW t \in Nat, SfStored(s) = SfStored(t)
    PROVE  s = t
  <1> DEFINE B == BlockSize
             u(n) == (n % c.page) \div B
             v(n) == n % B
  <1>1. B \in Nat \ {0} /\ c.page \in Nat \ {0}
    BY PoolAssumption, ConfigFacts
  <1>2. u(s) \in 0 .. B - 1 /\ u(t) \in 0 .. B - 1
    BY InterleavedParts
  <1>3. v(s) \in 0 .. B - 1 /\ v(t) \in 0 .. B - 1
    BY <1>1, DivMod
  <1>4. v(s) * B + u(s) = v(t) * B + u(t) /\ s \div c.page = t \div c.page
    BY InterleavedParts DEF SfStored
  <1>7. s % c.page = B * u(s) + v(s)
    <2>1. s % c.page \in 0 .. c.page - 1
      BY <1>1, DivMod
    <2>2. s % c.page \in Nat
      BY <1>1, <2>1
    <2> QED
      BY <1>1, <2>2, DivMod, InterleavedParts
  <1>8. t % c.page = B * u(t) + v(t)
    <2>1. t % c.page \in 0 .. c.page - 1
      BY <1>1, DivMod
    <2>2. t % c.page \in Nat
      BY <1>1, <2>1
    <2> QED
      BY <1>1, <2>2, DivMod, InterleavedParts
  <1> HIDE DEF u, v
  <1>5. B * v(s) + u(s) = B * v(t) + u(t)
    BY <1>1, <1>2, <1>3, <1>4, SMT
  <1>6. v(s) = v(t) /\ u(s) = u(t)
    <2>3. v(s) \in Nat /\ v(t) \in Nat
      BY <1>1, <1>3
    <2>1. (B * v(s) + u(s)) \div B = v(s) /\ (B * v(s) + u(s)) % B = u(s)
      BY <1>1, <1>2, <2>3, DivModUnique
    <2>2. (B * v(t) + u(t)) \div B = v(t) /\ (B * v(t) + u(t)) % B = u(t)
      BY <1>1, <1>2, <2>3, DivModUnique
    <2> QED
      BY <1>5, <2>1, <2>2
  <1>9. s % c.page = t % c.page
    BY <1>6, <1>7, <1>8
  <1> QED
    BY <1>1, <1>4, <1>9, DivMod

\* Two slots never share a row of a tensor.
LEMMA AddressInjective ==
    ASSUME c \in Configs, NEW p, NEW s \in Nat, NEW t \in Nat, Address(p, s) = Address(p, t)
    PROVE  s = t
  BY PagedInjective, SfInjective DEF Address, Flat

\* Store, move and attention agree where a slot is.
LEMMA SameAddress ==
    ASSUME c \in Configs, NEW p, NEW s \in Nat
    PROVE  StoreAddress(p, s) = Address(p, s) /\ MoveAddress(p, s) = Address(p, s)
  <1>1. StoreAddress(p, s) = Address(p, s)
    <2>1. CASE c.hnd
      BY <2>1, ConfigFacts DEF StoreAddress, Address, HndStored, Paged, SfInterleaved
    <2>2. CASE ~c.hnd
      BY <2>2 DEF StoreAddress
    <2> QED
      BY <2>1, <2>2
  <1>2. CASE SfInterleaved /\ p \in Scales
    <2>1. Address(p, s) = SfStored(s)
      BY <1>2, ConfigFacts DEF Address, SfInterleaved
    <2>2. SfRead(s) = SfStored(s)
      BY <1>2, InterleavedParts DEF SfRead, SfStored
    <2> QED
      BY <1>1, <1>2, <2>1, <2>2 DEF MoveAddress
  <1>3. CASE ~(SfInterleaved /\ p \in Scales)
    BY <1>1, <1>3 DEF MoveAddress
  <1> QED
    BY <1>2, <1>3

LEMMA StoredTensors ==
    ASSUME c \in Configs
    PROVE  Stored = Tensors /\ Tensors # {} /\ CopiedTensors \subseteq Tensors
  BY ConfigFacts DEF Stored, Tensors, CopiedTensors, MhaStored, QuantStored, Fp4Stored,
       Mxfp8Stored, MlaStored, MlaFp4Stored, DsaStored, IndexStored, MiniMaxStored, MhaTensors,
       QuantTensors, Fp4Tensors, Mxfp8Tensors, MlaTensors, MlaFp4Tensors, DsaTensors,
       IndexTensors, MiniMaxTensors, MhaCopied, MlaCopied, DsaCopied

----------------------------------------------------------------------------
(* Rows: what a store, a move and the launches of a tiled move leave       *)

Addresses(p) == {Address(p, s) : s \in Slots}

\* A tensor has one row for every slot.
IsTensor(f, p) == f = [a \in Addresses(p) |-> f[a]]

LEMMA LeastNumber ==
    ASSUME NEW S \in SUBSET Nat, S # {}
    PROVE  \E m \in S : \A k \in S : m <= k
  <1>1. IsWellFoundedOn(OpToRel(<, Nat), Nat)
    BY NatLessThanWellFounded
  <1>2. PICK m \in S : \A k \in S : <<k, m>> \notin OpToRel(<, Nat)
    BY <1>1, WFMin
  <1>3. \A k \in S : ~(k < m)
    BY <1>2 DEF OpToRel
  <1> QED
    BY <1>3

LEMMA ScatterRows ==
    ASSUME c \in Configs, NEW p, NEW f, NEW rows, IsTensor(f, p), DOMAIN rows \subseteq Slots
    PROVE  /\ IsTensor(Scatter(f, p, rows), p)
           /\ \A s \in Slots : Scatter(f, p, rows)[Address(p, s)] =
                 IF s \in DOMAIN rows THEN rows[s] ELSE f[Address(p, s)]
  <1>1. DOMAIN f = Addresses(p)
    BY DEF IsTensor
  <1>2. Slots \subseteq Nat
    BY SlotFacts
  <1>3. ASSUME NEW s \in Slots
        PROVE  Scatter(f, p, rows)[Address(p, s)] =
                 IF s \in DOMAIN rows THEN rows[s] ELSE f[Address(p, s)]
    <2>1. Address(p, s) \in DOMAIN f
      BY <1>1 DEF Addresses
    <2>2. \A t \in DOMAIN rows : StoreAddress(p, t) = Address(p, s) <=> t = s
      BY <1>2, SameAddress, AddressInjective, ZenonT(60)
    <2>3. CASE s \in DOMAIN rows
      <3>1. (CHOOSE t \in DOMAIN rows : StoreAddress(p, t) = Address(p, s)) = s
        BY <2>2, <2>3
      <3>2. \E t \in DOMAIN rows : StoreAddress(p, t) = Address(p, s)
        BY <2>2, <2>3
      <3> QED
        BY <2>1, <2>3, <3>1, <3>2 DEF Scatter
    <2>4. CASE s \notin DOMAIN rows
      BY <2>1, <2>2, <2>4 DEF Scatter
    <2> QED
      BY <2>3, <2>4
  <1> QED
    BY <1>1, <1>3 DEF IsTensor, Scatter

\* The pairs of a compaction.
Ordered(pairs) ==
    /\ pairs \in Seq(Slots \X Slots)
    /\ \A i \in DOMAIN pairs : pairs[i][1] <= pairs[i][2]
    /\ \A i, j \in DOMAIN pairs : i < j => pairs[i][1] < pairs[j][1] /\ pairs[i][2] < pairs[j][2]

\* Where the contents of slot s come from.
Source(pairs, s) ==
    IF \E i \in DOMAIN pairs : pairs[i][1] = s
    THEN pairs[CHOOSE i \in DOMAIN pairs : pairs[i][1] = s][2] ELSE s

LEMMA SourceFacts ==
    ASSUME c \in Configs, NEW pairs, Ordered(pairs)
    PROVE  /\ \A i \in DOMAIN pairs :
                 /\ pairs[i][1] \in Slots /\ pairs[i][2] \in Slots
                 /\ Source(pairs, pairs[i][1]) = pairs[i][2]
                 /\ (CHOOSE j \in DOMAIN pairs : pairs[j][1] = pairs[i][1]) = i
           /\ \A i, j \in DOMAIN pairs : pairs[i][1] = pairs[j][1] => i = j
           /\ \A s : (\A i \in DOMAIN pairs : pairs[i][1] # s) => Source(pairs, s) = s
           /\ \A s \in Slots : Source(pairs, s) \in Slots
  <1>1. Slots \subseteq Nat
    BY SlotFacts
  <1>2. \A i \in DOMAIN pairs : pairs[i][1] \in Slots /\ pairs[i][2] \in Slots
    BY DEF Ordered
  <1>3. DOMAIN pairs \subseteq Nat
    BY DEF Ordered
  <1>4. ASSUME NEW i \in DOMAIN pairs, NEW j \in DOMAIN pairs, pairs[i][1] = pairs[j][1]
        PROVE  i = j
    <2>1. pairs[i][1] \in Nat /\ pairs[j][1] \in Nat
      BY <1>1, <1>2
    <2>2. ~(i < j) /\ ~(j < i)
      BY <1>4, <2>1 DEF Ordered
    <2> QED
      BY <1>3, <2>2
  <1>5. \A i \in DOMAIN pairs : (CHOOSE j \in DOMAIN pairs : pairs[j][1] = pairs[i][1]) = i
    BY <1>4
  <1>6. \A i \in DOMAIN pairs : Source(pairs, pairs[i][1]) = pairs[i][2]
    BY <1>5 DEF Source
  <1>7. \A s : (\A i \in DOMAIN pairs : pairs[i][1] # s) => Source(pairs, s) = s
    BY DEF Source
  <1> QED
    BY <1>2, <1>4, <1>5, <1>6, <1>7

LEMMA MoveRowsRows ==
    ASSUME c \in Configs, NEW p, NEW f, NEW pairs, IsTensor(f, p), Ordered(pairs)
    PROVE  /\ IsTensor(MoveRows(f, p, pairs), p)
           /\ \A s \in Slots :
                 MoveRows(f, p, pairs)[Address(p, s)] = f[Address(p, Source(pairs, s))]
  <1>1. DOMAIN f = Addresses(p)
    BY DEF IsTensor
  <1>2. Slots \subseteq Nat
    BY SlotFacts
  <1>3. ASSUME NEW s \in Slots
        PROVE  MoveRows(f, p, pairs)[Address(p, s)] = f[Address(p, Source(pairs, s))]
    <2>1. Address(p, s) \in DOMAIN f
      BY <1>1 DEF Addresses
    <2>2. \A i \in DOMAIN pairs : pairs[i][1] \in Nat /\ pairs[i][2] \in Nat
      BY <1>2, SourceFacts, ZenonT(60)
    <2>3. \A i \in DOMAIN pairs : MoveAddress(p, pairs[i][1]) = Address(p, s) <=> pairs[i][1] = s
      BY <1>2, <2>2, SameAddress, AddressInjective
    <2>4. CASE \E i \in DOMAIN pairs : pairs[i][1] = s
      <3>1. PICK i \in DOMAIN pairs : pairs[i][1] = s
        BY <2>4
      <3>2. (CHOOSE j \in DOMAIN pairs : pairs[j][1] = s) = i
        BY <3>1, SourceFacts
      <3>3. (CHOOSE j \in DOMAIN pairs : MoveAddress(p, pairs[j][1]) = Address(p, s)) = i
        <4>1. \A j \in DOMAIN pairs : MoveAddress(p, pairs[j][1]) = Address(p, s) <=> j = i
          <5>1. \A j \in DOMAIN pairs : pairs[j][1] = s => j = i
            BY <3>1, SourceFacts
          <5> QED
            BY <2>3, <3>1, <5>1
        <4> QED
          BY <4>1
      <3>4. MoveRows(f, p, pairs)[Address(p, s)] = f[MoveAddress(p, pairs[i][2])]
        BY <2>1, <2>3, <3>1, <3>3 DEF MoveRows
      <3>5. MoveAddress(p, pairs[i][2]) = Address(p, pairs[i][2])
        BY <2>2, SameAddress
      <3> QED
        BY <3>1, <3>4, <3>5, SourceFacts
    <2>5. CASE \A i \in DOMAIN pairs : pairs[i][1] # s
      <3>1. MoveRows(f, p, pairs)[Address(p, s)] = f[Address(p, s)]
        BY <2>1, <2>3, <2>5 DEF MoveRows
      <3> QED
        BY <2>5, <3>1, SourceFacts
    <2> QED
      BY <2>4, <2>5
  <1> QED
    BY <1>1, <1>3 DEF IsTensor, MoveRows

\* Two tensors with the same row for every slot are equal.
LEMMA SameRows ==
    ASSUME NEW p, NEW f, NEW g, IsTensor(f, p), IsTensor(g, p),
           \A s \in Slots : f[Address(p, s)] = g[Address(p, s)]
    PROVE  f = g
  <1>1. \A a \in Addresses(p) : f[a] = g[a]
    BY DEF Addresses
  <1> QED
    BY <1>1 DEF IsTensor

\* A part of a compaction is one.
LEMMA OrderedPart ==
    ASSUME c \in Configs, NEW pairs, Ordered(pairs), NEW k \in Nat, NEW m \in Nat,
           m <= Len(pairs), k <= m
    PROVE  /\ Ordered(SubSeq(pairs, k + 1, m))
           /\ DOMAIN SubSeq(pairs, k + 1, m) = 1 .. m - k
           /\ \A i \in 1 .. m - k : SubSeq(pairs, k + 1, m)[i] = pairs[i + k]
  <1> DEFINE part == SubSeq(pairs, k + 1, m)
  <1>1. pairs \in Seq(Slots \X Slots) /\ Len(pairs) \in Nat /\ DOMAIN pairs = 1 .. Len(pairs)
    BY DEF Ordered
  <1>2. part = [i \in 1 .. m - k |-> pairs[i + k]]
    BY <1>1, SMT
  <1>3. \A i \in 1 .. m - k : i + k \in DOMAIN pairs /\ pairs[i + k] \in Slots \X Slots
    BY <1>1
  <1>4. part \in Seq(Slots \X Slots)
    BY <1>2, <1>3, SMTT(60)
  <1>5. DOMAIN part = 1 .. m - k /\ \A i \in 1 .. m - k : part[i] = pairs[i + k]
    BY <1>2
  <1> HIDE DEF part
  <1>6. \A i \in DOMAIN part : part[i][1] <= part[i][2]
    BY <1>3, <1>5 DEF Ordered
  <1>7. ASSUME NEW i \in DOMAIN part, NEW j \in DOMAIN part, i < j
        PROVE  part[i][1] < part[j][1] /\ part[i][2] < part[j][2]
    <2>1. i + k \in DOMAIN pairs /\ j + k \in DOMAIN pairs /\ i + k < j + k
      BY <1>3, <1>5, <1>7
    <2>2. pairs[i + k][1] < pairs[j + k][1] /\ pairs[i + k][2] < pairs[j + k][2]
      BY <2>1 DEF Ordered
    <2> QED
      BY <1>5, <2>2
  <1>8. Ordered(part)
    BY <1>4, <1>6, <1>7 DEF Ordered
  <1> QED
    BY <1>5, <1>8 DEF part

\* The launch after the first k pairs reads no row that one of them has written.
LEMMA LaunchSource ==
    ASSUME c \in Configs, NEW pairs, Ordered(pairs), NEW k \in Nat, NEW m \in Nat,
           m <= Len(pairs), k <= m, NEW s \in Slots
    PROVE  Source(SubSeq(pairs, 1, k), Source(SubSeq(pairs, k + 1, m), s))
             = Source(SubSeq(pairs, 1, m), s)
  <1> DEFINE P == SubSeq(pairs, 1, k)
             Q == SubSeq(pairs, k + 1, m)
             R == SubSeq(pairs, 1, m)
  <1>1. Ordered(P) /\ DOMAIN P = 1 .. k /\ \A i \in 1 .. k : P[i] = pairs[i]
    <2>1. Ordered(SubSeq(pairs, 0 + 1, k)) /\ DOMAIN SubSeq(pairs, 0 + 1, k) = 1 .. k - 0
          /\ \A i \in 1 .. k - 0 : SubSeq(pairs, 0 + 1, k)[i] = pairs[i + 0]
      <3>1. Len(pairs) \in Nat
        BY DEF Ordered
      <3> QED
        BY <3>1, OrderedPart
    <2> QED
      BY <2>1
  <1>2. Ordered(Q) /\ DOMAIN Q = 1 .. m - k /\ \A i \in 1 .. m - k : Q[i] = pairs[i + k]
    BY OrderedPart
  <1>3. Ordered(R) /\ DOMAIN R = 1 .. m /\ \A i \in 1 .. m : R[i] = pairs[i]
    <2>1. Ordered(SubSeq(pairs, 0 + 1, m)) /\ DOMAIN SubSeq(pairs, 0 + 1, m) = 1 .. m - 0
          /\ \A i \in 1 .. m - 0 : SubSeq(pairs, 0 + 1, m)[i] = pairs[i + 0]
      BY OrderedPart
    <2> QED
      BY <2>1
  <1> HIDE DEF P, Q, R
  <1>4. CASE \E i \in DOMAIN Q : Q[i][1] = s
    <2>1. PICK i \in DOMAIN Q : Q[i][1] = s
      BY <1>4
    <2>2. i + k \in DOMAIN R /\ R[i + k] = Q[i]
      <3>1. i \in 1 .. m - k /\ Q[i] = pairs[i + k]
        BY <1>2, <2>1
      <3>2. i + k \in 1 .. m
        BY <3>1
      <3> QED
        BY <1>3, <3>1, <3>2
    <2>5. R[i + k][1] = s
      BY <2>1, <2>2
    <2>3. Source(Q, s) = Q[i][2] /\ Source(R, s) = Q[i][2]
      <3>1. Source(R, R[i + k][1]) = R[i + k][2]
        BY <1>3, <2>2, SourceFacts
      <3>2. Source(Q, Q[i][1]) = Q[i][2]
        BY <1>2, <2>1, SourceFacts
      <3> QED
        BY <2>1, <2>2, <2>5, <3>1, <3>2
    <2>4. \A j \in DOMAIN P : P[j][1] # Q[i][2]
      <3> TAKE j \in DOMAIN P
      <3>1. j \in DOMAIN R /\ R[j] = P[j] /\ j < i + k
        BY <1>1, <1>2, <1>3, <2>1, SMTT(60)
      <3>2. R[j][2] < R[i + k][2] /\ R[j][1] <= R[j][2]
        BY <1>3, <2>2, <3>1 DEF Ordered
      <3>3. R[j][1] \in Nat /\ R[j][2] \in Nat /\ R[i + k][2] \in Nat
        BY <1>3, <2>2, <3>1, SourceFacts, SlotFacts
      <3> QED
        BY <2>2, <3>1, <3>2, <3>3
    <2>6. Source(P, Q[i][2]) = Q[i][2]
      BY <1>1, <2>4, SourceFacts
    <2> QED
      BY <2>3, <2>6 DEF P, Q, R
  <1>5. CASE \A i \in DOMAIN Q : Q[i][1] # s
    <2>1. Source(Q, s) = s
      BY <1>2, <1>5, SourceFacts, ZenonT(60)
    <2>2. Source(P, s) = Source(R, s)
      <3>1. CASE \E i \in DOMAIN P : P[i][1] = s
        <4>1. PICK i \in DOMAIN P : P[i][1] = s
          BY <3>1
        <4>2. i \in DOMAIN R /\ R[i] = P[i]
          BY <1>1, <1>3, <4>1
        <4> QED
          BY <1>1, <1>3, <4>1, <4>2, SourceFacts
      <3>2. CASE \A i \in DOMAIN P : P[i][1] # s
        <4>1. \A i \in DOMAIN R : R[i][1] # s
          <5> TAKE i \in DOMAIN R
          <5>1. CASE i <= k
            BY <1>1, <1>3, <3>2, <5>1
          <5>2. CASE i > k
            <6>1. i - k \in DOMAIN Q /\ Q[i - k] = R[i]
              BY <1>2, <1>3, <5>2
            <6> QED
              BY <1>5, <6>1
          <5> QED
            BY <1>3, <5>1, <5>2
        <4> QED
          BY <1>1, <1>3, <3>2, <4>1, SourceFacts, SMTT(60)
      <3> QED
        BY <3>1, <3>2
    <2> QED
      BY <2>1, <2>2 DEF P, Q, R
  <1> QED
    BY <1>4, <1>5

LEMMA LaunchStep ==
    ASSUME c \in Configs, NEW pairs, Ordered(pairs), NEW k \in Nat, NEW m \in Nat,
           m <= Len(pairs), k <= m, NEW p, NEW f, IsTensor(f, p)
    PROVE  MoveRows(MoveRows(f, p, SubSeq(pairs, 1, k)), p, SubSeq(pairs, k + 1, m))
             = MoveRows(f, p, SubSeq(pairs, 1, m))
  <1> DEFINE P == SubSeq(pairs, 1, k)
             Q == SubSeq(pairs, k + 1, m)
             R == SubSeq(pairs, 1, m)
  <1>1. Ordered(P) /\ Ordered(Q) /\ Ordered(R)
    <2>1. Len(pairs) \in Nat /\ k <= Len(pairs)
      BY DEF Ordered
    <2>2. Ordered(SubSeq(pairs, 0 + 1, k)) /\ Ordered(SubSeq(pairs, 0 + 1, m))
      BY <2>1, OrderedPart
    <2> QED
      BY <2>2, OrderedPart
  <1>2. \A s \in Slots : Source(P, Source(Q, s)) = Source(R, s)
    BY LaunchSource
  <1> HIDE DEF P, Q, R
  <1>3. IsTensor(MoveRows(f, p, P), p) /\ IsTensor(MoveRows(f, p, R), p)
    BY <1>1, MoveRowsRows
  <1>4. IsTensor(MoveRows(MoveRows(f, p, P), p, Q), p)
    BY <1>1, <1>3, MoveRowsRows
  <1>5. ASSUME NEW s \in Slots
        PROVE  MoveRows(MoveRows(f, p, P), p, Q)[Address(p, s)]
                 = MoveRows(f, p, R)[Address(p, s)]
    <2>1. Source(Q, s) \in Slots
      BY <1>1, SourceFacts
    <2>2. MoveRows(MoveRows(f, p, P), p, Q)[Address(p, s)]
            = MoveRows(f, p, P)[Address(p, Source(Q, s))]
      BY <1>1, <1>3, MoveRowsRows
    <2>3. MoveRows(f, p, P)[Address(p, Source(Q, s))] = f[Address(p, Source(P, Source(Q, s)))]
      BY <1>1, <2>1, MoveRowsRows
    <2>4. MoveRows(f, p, R)[Address(p, s)] = f[Address(p, Source(R, s))]
      BY <1>1, MoveRowsRows
    <2> QED
      BY <1>2, <2>2, <2>3, <2>4
  <1>6. MoveRows(MoveRows(f, p, P), p, Q) = MoveRows(f, p, R)
    BY <1>3, <1>4, <1>5, SameRows
  <1> QED
    BY <1>6 DEF P, Q, R

\* The launches of the tiled copy, whatever their size, add up to the one move of
\* an ascending compaction they were cut from: none overwrites a later source.
THEOREM TiledIsMove ==
    ASSUME c \in Configs, c.cap > 0, NEW pairs, Ordered(pairs), NEW p, NEW f, IsTensor(f, p)
    PROVE  TiledMoved(f, p, pairs) = MoveRows(f, p, pairs)
  <1> DEFINE cap == c.cap
             L == Len(pairs)
             n == (L + cap - 1) \div cap
             Cut(i) == IF i * cap < L THEN i * cap ELSE L
             ch == TiledChunks(pairs)
             G == [i \in 0 .. n |-> MoveRows(f, p, SubSeq(pairs, 1, Cut(i)))]
  <1>1. cap \in Nat \ {0} /\ L \in Nat
    BY ConfigFacts DEF Ordered
  <1>2. n \in Nat /\ cap * n \in Nat /\ cap * n <= L + cap - 1 /\ L <= cap * n
    BY <1>1, CeilDiv
  <1>3. ch = [i \in 1 .. n |-> SubSeq(pairs, (i - 1) * cap + 1, Cut(i))]
    BY DEF TiledChunks
  <1> HIDE DEF cap, L, n
  <1>4. \A i \in 0 .. n : Cut(i) \in Nat /\ Cut(i) <= L
    <2> TAKE i \in 0 .. n
    <2>1. i * cap \in Nat
      BY <1>1
    <2> QED
      BY <1>1, <2>1
  <1>5. ASSUME NEW i \in 1 .. n PROVE Cut(i - 1) = (i - 1) * cap /\ Cut(i - 1) <= Cut(i)
    <2>1. i \in Nat /\ i - 1 \in Nat /\ i <= n
      BY <1>2
    <2>2. cap * i <= cap * n
      BY <1>1, <1>2, <2>1, SMT
    <2>3. (i - 1) * cap = cap * i - cap /\ i * cap = cap * i /\ cap * i \in Nat
      BY <1>1, <2>1, SMT
    <2> QED
      BY <1>1, <1>2, <2>2, <2>3
  <1>6. Cut(0) = 0 /\ Cut(n) = L
    <2>1. 0 * cap = 0 /\ n * cap = cap * n
      BY <1>1, <1>2, SMT
    <2> QED
      BY <1>1, <1>2, <2>1
  <1>7. Len(ch) = n /\ \A i \in 1 .. n : ch[i] = SubSeq(pairs, (i - 1) * cap + 1, Cut(i))
    <2> HIDE DEF Cut, ch
    <2>1. DOMAIN ch = 1 .. n
      BY <1>3
    <2>2. \A i \in 1 .. n : ch[i] = SubSeq(pairs, (i - 1) * cap + 1, Cut(i))
      BY <1>3
    <2>3. ch \in Seq({ch[i] : i \in 1 .. n})
      <3>1. ch = [i \in 1 .. n |-> ch[i]]
        BY <1>3
      <3> QED
        BY <1>2, <3>1
    <2>4. Len(ch) = n
      BY <1>2, <2>1, <2>3, LenProperties
    <2> QED
      BY <2>2, <2>4
  <1> HIDE DEF Cut, ch
  <1>8. G[0] = f
    <2>1. SubSeq(pairs, 1, Cut(0)) = SubSeq(pairs, 0 + 1, 0)
      BY <1>6
    <2>2. Ordered(SubSeq(pairs, 0 + 1, 0)) /\ DOMAIN SubSeq(pairs, 0 + 1, 0) = {}
      <3>1. DOMAIN SubSeq(pairs, 0 + 1, 0) = 1 .. 0 - 0 /\ Ordered(SubSeq(pairs, 0 + 1, 0))
        BY <1>1, OrderedPart DEF L
      <3> QED
        BY <3>1
    <2>3. \A s \in Slots : Source(SubSeq(pairs, 0 + 1, 0), s) = s
      BY <2>2, SourceFacts, ZenonT(60)
    <2>4. IsTensor(MoveRows(f, p, SubSeq(pairs, 0 + 1, 0)), p)
      BY <2>2, MoveRowsRows
    <2>5. \A s \in Slots : MoveRows(f, p, SubSeq(pairs, 0 + 1, 0))[Address(p, s)] = f[Address(p, s)]
      BY <2>2, <2>3, MoveRowsRows
    <2>6. MoveRows(f, p, SubSeq(pairs, 0 + 1, 0)) = f
      BY <2>4, <2>5, SameRows
    <2>7. G[0] = MoveRows(f, p, SubSeq(pairs, 1, Cut(0)))
      BY <1>2
    <2> QED
      BY <2>1, <2>6, <2>7
  <1>9. ASSUME NEW i \in 1 .. n PROVE G[i] = MoveRows(G[i - 1], p, ch[i])
    <2>1. i - 1 \in 0 .. n /\ i \in 0 .. n
      BY <1>2
    <2>2. Cut(i - 1) = (i - 1) * cap /\ Cut(i - 1) <= Cut(i)
      BY <1>5
    <2>3. Cut(i - 1) \in Nat /\ Cut(i) \in Nat /\ Cut(i) <= L
      BY <1>4, <2>1
    <2>4. MoveRows(MoveRows(f, p, SubSeq(pairs, 1, Cut(i - 1))), p,
                   SubSeq(pairs, Cut(i - 1) + 1, Cut(i)))
            = MoveRows(f, p, SubSeq(pairs, 1, Cut(i)))
      BY <2>2, <2>3, LaunchStep DEF L
    <2>5. ch[i] = SubSeq(pairs, Cut(i - 1) + 1, Cut(i))
      BY <1>7, <2>2
    <2> QED
      BY <2>1, <2>4, <2>5
  <1> DEFINE H == Launched(f, p, ch)
             Step(g) == [i \in 0 .. Len(ch) |-> IF i = 0 THEN f ELSE MoveRows(g[i - 1], p, ch[i])]
  <1>10. G = Step(G)
    <2>1. \A i \in 0 .. n : G[i] = IF i = 0 THEN f ELSE MoveRows(G[i - 1], p, ch[i])
      <3> TAKE i \in 0 .. n
      <3>1. CASE i = 0
        BY <1>8, <3>1
      <3>2. CASE i # 0
        <4>1. i \in 1 .. n
          BY <1>2, <3>2
        <4> QED
          BY <1>9, <3>2, <4>1
      <3> QED
        BY <3>1, <3>2
    <2>2. G = [i \in 0 .. n |-> G[i]]
      OBVIOUS
    <2> HIDE DEF G
    <2> QED
      BY <1>7, <2>1, <2>2
  <1>11. H = Step(H)
    <2>1. H = CHOOSE g : g = Step(g)
      BY DEF Launched
    <2> HIDE DEF G, H, Step
    <2> QED
      BY <1>10, <2>1
  <1>12. \A i \in 0 .. n : H[i] = IF i = 0 THEN f ELSE MoveRows(H[i - 1], p, ch[i])
    <2> HIDE DEF H
    <2> QED
      BY <1>7, <1>11
  <1> HIDE DEF G, H, Step
  <1>13. \A i \in 0 .. n : H[i] = G[i]
    <2> DEFINE Bad == {i \in 0 .. n : H[i] # G[i]}
    <2>1. SUFFICES ASSUME Bad # {} PROVE FALSE
      OBVIOUS
    <2>2. Bad \in SUBSET Nat
      BY <1>2
    <2>3. PICK i \in Bad : \A k \in Bad : i <= k
      BY <2>1, <2>2, LeastNumber
    <2>4. i # 0
      BY <1>2, <1>8, <1>12, <2>3
    <2>5. i \in 1 .. n /\ i - 1 \in 0 .. n /\ i - 1 \notin Bad
      BY <1>2, <2>3, <2>4
    <2>6. H[i - 1] = G[i - 1]
      BY <2>5
    <2> QED
      BY <1>9, <1>12, <2>3, <2>4, <2>5, <2>6
  <1>14. TiledMoved(f, p, pairs) = G[n]
    <2>1. TiledMoved(f, p, pairs) = H[n]
      BY <1>7 DEF TiledMoved, H, ch
    <2> QED
      BY <1>2, <1>13, <2>1
  <1>15. G[n] = MoveRows(f, p, SubSeq(pairs, 1, L))
    BY <1>2, <1>6 DEF G
  <1>16. SubSeq(pairs, 1, L) = pairs
    BY DEF L, Ordered
  <1> QED
    BY <1>14, <1>15, <1>16

\* g is a tensor whose rows are rows of f.
From(g, f, p) ==
    IsTensor(g, p) /\ \A s \in Slots : \E t \in Slots : g[Address(p, s)] = f[Address(p, t)]

LEMMA MoveRowsFrom ==
    ASSUME c \in Configs, NEW pairs, Ordered(pairs), NEW p, NEW f, IsTensor(f, p),
           NEW g, From(g, f, p)
    PROVE  From(MoveRows(g, p, pairs), f, p)
  <1>1. IsTensor(g, p)
    BY DEF From
  <1>2. IsTensor(MoveRows(g, p, pairs), p)
        /\ \A s \in Slots : MoveRows(g, p, pairs)[Address(p, s)] = g[Address(p, Source(pairs, s))]
    BY <1>1, MoveRowsRows
  <1>3. \A s \in Slots : Source(pairs, s) \in Slots
    BY SourceFacts
  <1>4. ASSUME NEW s \in Slots
        PROVE  \E t \in Slots : MoveRows(g, p, pairs)[Address(p, s)] = f[Address(p, t)]
    <2>1. PICK t \in Slots : g[Address(p, Source(pairs, s))] = f[Address(p, t)]
      BY <1>3 DEF From
    <2> QED
      BY <1>2, <2>1
  <1> QED
    BY <1>2, <1>4 DEF From

\* A class whose move names every tensor once.
WholeMoves == c.kind # "mla_fp4" /\ ~(c.kind = "mxfp8" /\ c.native /\ ~SfInterleaved)

LEMMA MhaMovedFacts ==
    ASSUME c \in Configs, c.hnd \/ c.native \/ c.cap > 0, NEW pairs, Ordered(pairs),
           NEW p, NEW f, IsTensor(f, p)
    PROVE  /\ MhaMoved(f, p, pairs) \in {f, MoveRows(f, p, pairs)}
           /\ c.hnd \/ c.native \/ p \in SlotMovePointers =>
                 MhaMoved(f, p, pairs) = MoveRows(f, p, pairs)
           /\ ~(c.hnd \/ c.native) /\ p \notin SlotMovePointers => MhaMoved(f, p, pairs) = f
  <1>1. CASE c.hnd \/ c.native
    BY <1>1 DEF MhaMoved
  <1>2. CASE ~(c.hnd \/ c.native)
    <2>1. TiledMoved(f, p, pairs) = MoveRows(f, p, pairs)
      BY <1>2, TiledIsMove
    <2> QED
      BY <1>2, <2>1 DEF MhaMoved
  <1> QED
    BY <1>1, <1>2

\* Whatever the class, a move leaves rows that were there; a class that names
\* every tensor moves all of them by the same pairs.
LEMMA MovedFacts ==
    ASSUME c \in Configs, CanMove, NEW pairs, Ordered(pairs), NEW p \in Tensors,
           NEW f, IsTensor(f, p)
    PROVE  /\ From(Moved(f, p, pairs), f, p)
           /\ WholeMoves => Moved(f, p, pairs) = MoveRows(f, p, pairs)
  <1>1. From(f, f, p)
    BY DEF From
  <1>2. From(MoveRows(f, p, pairs), f, p)
    BY <1>1, MoveRowsFrom
  <1>3. From(MoveRows(MoveRows(f, p, pairs), p, pairs), f, p)
    BY <1>2, MoveRowsFrom
  <1>4. CASE c.kind \in {"mha", "quant", "fp4"}
    <2>1. Moved(f, p, pairs) = MhaMoved(f, p, pairs)
      BY <1>4 DEF Moved
    <2>2. c.hnd \/ c.native \/ (c.cap > 0 /\ c.kind # "fp4")
      BY <1>4 DEF CanMove
    <2>3. c.kind # "fp4" => p \in SlotMovePointers
      BY <1>4 DEF Tensors, SlotMovePointers, MhaTensors, QuantTensors
    <2>4. MhaMoved(f, p, pairs) = MoveRows(f, p, pairs)
      BY <2>2, <2>3, MhaMovedFacts
    <2> QED
      BY <1>2, <2>1, <2>4
  <1>5. CASE c.kind = "page_major"
    BY <1>2, <1>5 DEF Moved
  <1>6. CASE c.kind = "mxfp8"
    <2>1. Moved(f, p, pairs) = Mxfp8Moved(f, p, pairs)
      BY <1>6 DEF Moved
    <2>2. CASE SfInterleaved
      <3>1. Mxfp8Moved(f, p, pairs) = MoveRows(f, p, pairs)
        BY <2>2 DEF Mxfp8Moved
      <3> QED
        BY <1>2, <2>1, <3>1
    <2>3. CASE ~SfInterleaved
      <3>1. c.native \/ c.cap > 0
        BY <1>6, <2>3 DEF CanMove
      <3>2. ~c.hnd
        BY <1>6, ConfigFacts
      <3>3. MhaMoved(f, p, pairs) \in {f, MoveRows(f, p, pairs)}
        BY <3>1, MhaMovedFacts
      <3>4. CASE p \in Scales
        <4>1. Mxfp8Moved(f, p, pairs) = MoveRows(MhaMoved(f, p, pairs), p, pairs)
          BY <2>3, <3>4 DEF Mxfp8Moved
        <4>2. p \notin SlotMovePointers
          BY <1>6, <3>4 DEF SlotMovePointers, MhaTensors, Scales
        <4>3. ~c.native => MhaMoved(f, p, pairs) = f
          BY <3>1, <3>2, <4>2, MhaMovedFacts
        <4>4. WholeMoves => MhaMoved(f, p, pairs) = f
          BY <1>6, <2>3, <4>3 DEF WholeMoves
        <4> QED
          BY <1>2, <1>3, <2>1, <3>3, <4>1, <4>4
      <3>5. CASE p \notin Scales
        <4>1. Mxfp8Moved(f, p, pairs) = MhaMoved(f, p, pairs)
          BY <2>3, <3>5 DEF Mxfp8Moved
        <4>2. p \in SlotMovePointers
          BY <1>6, <3>5 DEF SlotMovePointers, MhaTensors, Scales, Tensors, Mxfp8Tensors
        <4>3. MhaMoved(f, p, pairs) = MoveRows(f, p, pairs)
          BY <3>1, <4>2, MhaMovedFacts
        <4> QED
          BY <1>2, <2>1, <4>1, <4>3
      <3> QED
        BY <3>4, <3>5
    <2> QED
      BY <2>2, <2>3
  <1>7. CASE c.kind \in {"mla", "mla_fp4"}
    <2>1. Moved(f, p, pairs) = MlaMoved(f, p, pairs)
      BY <1>7 DEF Moved
    <2>2. MlaMoved(f, p, pairs) \in {f, MoveRows(f, p, pairs)}
      BY DEF MlaMoved
    <2>3. WholeMoves => p = "kv"
      BY <1>7 DEF WholeMoves, Tensors, MlaTensors
    <2>4. p = "kv" => MlaMoved(f, p, pairs) = MoveRows(f, p, pairs)
      BY DEF MlaMoved
    <2> QED
      BY <1>1, <1>2, <2>1, <2>2, <2>3, <2>4
  <1>8. CASE c.kind = "dsa"
    <2>1. Moved(f, p, pairs) = DsaMoved(f, p, pairs)
      BY <1>8 DEF Moved
    <2>2. p \in {"kv", "ik"}
      BY <1>8 DEF Tensors, DsaTensors
    <2>3. DsaMoved(f, p, pairs) = MoveRows(f, p, pairs)
      BY <2>2 DEF DsaMoved, MlaMoved
    <2> QED
      BY <1>2, <2>1, <2>3
  <1>9. c.kind # "minimax"
    BY DEF CanMove
  <1> QED
    BY <1>4, <1>5, <1>6, <1>7, <1>8, <1>9, ConfigFacts

----------------------------------------------------------------------------
(* The invariant.  Its parts take the state they speak of as arguments and  *)
(* read nothing else but the configuration, which no step changes.          *)

Contents == Tokens \cup {Zero}
Row == Contents \X ({Unit} \cup {Global(i) : i \in Local})

\* Every tensor of every layer has a row for each slot.
MemOK(m) ==
    /\ m = [l \in Local |-> [p \in Tensors |-> m[l][p]]]
    /\ \A l \in Local, p \in Tensors :
          IsTensor(m[l][p], p) /\ \A s \in Slots : m[l][p][Address(p, s)] \in Row

\* The promise speaks of the stored layers and the slots of the requests only.
KvOK(k) ==
    /\ k \in [0 .. MaxLayers - 1 -> [1 .. NumSlots -> Contents]]
    /\ \A l \in 0 .. MaxLayers - 1, n \in 1 .. NumSlots :
          l \notin Local \/ n > c.slots => k[l][n] = Zero

\* The row of the host copy h that HostRow reads, and the length HostLen finds.
RowOf(h, l, p, i) == h[l][p][((i - 1) \div OffloadChunk) + 1][((i - 1) % OffloadChunk) + 1]
LenOf(h) == LET chunks == h[0][CHOOSE p \in DOMAIN h[0] : TRUE]
            IN  (Len(chunks) - 1) * OffloadChunk + Len(chunks[Len(chunks)])

\* A host copy and the promise about it come and go together.
HostOK(h, k) ==
    /\ h = None <=> k = None
    /\ h # None =>
          /\ CanOffload
          /\ LenOf(h) \in Nat \ {0}
          /\ \A l \in Local, p \in CopiedTensors, i \in 1 .. LenOf(h) : RowOf(h, l, p, i) \in Row
          /\ k \in [0 .. MaxLayers - 1 -> [1 .. LenOf(h) -> Contents]]
          /\ \A l \in (0 .. MaxLayers - 1) \ Local, i \in 1 .. LenOf(h) : k[l][i] = Zero

\* A transfer is for the slots of the copy and has layers left to load.
TransferOK(t, h) ==
    t # None =>
        /\ h # None /\ c.layerwise
        /\ t \in [at : Seq(Slots), done : Nat]
        /\ Len(t.at) = LenOf(h)
        /\ \A i, j \in DOMAIN t.at : t.at[i] = t.at[j] => i = j
        /\ c.start + t.done <= c.full[Len(c.full)]

\* A row of layer l that holds t.
Cell(l, t) == <<t, IF t = Zero THEN Unit ELSE ScaleOf(Global(l))>>

\* Every tensor of a slot holds the token the slot was promised.
CellsTrue(m, k) ==
    \A l \in Local, p \in Tensors, s \in Slots :
        m[l][p][Address(p, s)] = Cell(l, k[l][Nth(s)])

\* So does every tensor of the copy.
HostTrue(h, k) ==
    h # None => \A l \in Local, p \in CopiedTensors, i \in 1 .. LenOf(h) :
                    RowOf(h, l, p, i) = Cell(l, k[l][i])

\* The layers a transfer has passed hold the copied slots.
LoadedTrue(t, m, k) ==
    t # None => \A l \in Local : Global(l) < c.start + t.done =>
                    \A i \in DOMAIN t.at : m[l][Nth(t.at[i])] = k[l][i]

BaseInv ==
    /\ c \in Configs
    /\ MemOK(mem) /\ KvOK(kv) /\ HostOK(host, copy) /\ TransferOK(transfer, host)
    /\ (dq = None) = (job = None)
    /\ size \in 1 .. ReservedSize
TrueInv == CellsTrue(mem, kv) /\ HostTrue(host, copy) /\ LoadedTrue(transfer, kv, copy)

\* A store of some rows in some tensors of one layer, and the write it stands for.
WrittenMem(m, l, T, rows) ==
    [m EXCEPT ![l] = [p \in Tensors |-> IF p \in T THEN Scatter(m[l][p], p, rows) ELSE m[l][p]]]
WrittenKv(k, l, rows) ==
    [k EXCEPT ![l] = [n \in 1 .. NumSlots |-> IF n \in DOMAIN rows THEN rows[n] ELSE @[n]]]

LEMMA Written ==
    ASSUME c \in Configs, NEW m, MemOK(m), NEW l \in Local, NEW T, NEW rows,
           DOMAIN rows \subseteq Slots, \A s \in DOMAIN rows : rows[s] \in Row
    PROVE  /\ MemOK(WrittenMem(m, l, T, rows))
           /\ \A k \in Local, p \in Tensors, s \in Slots :
                 WrittenMem(m, l, T, rows)[k][p][Address(p, s)] =
                    IF k = l /\ p \in T /\ s \in DOMAIN rows THEN rows[s]
                    ELSE m[k][p][Address(p, s)]
  <1> DEFINE m2 == WrittenMem(m, l, T, rows)
  <1>1. DOMAIN m = Local /\ m = [k \in Local |-> m[k]]
    BY DEF MemOK
  <1>2. m2 = [k \in Local |-> IF k = l THEN [p \in Tensors |->
                           IF p \in T THEN Scatter(m[l][p], p, rows) ELSE m[l][p]] ELSE m[k]]
    BY <1>1 DEF WrittenMem
  <1> HIDE DEF m2
  <1>3. ASSUME NEW k \in Local, NEW p \in Tensors
        PROVE  /\ m2[k][p] = IF k = l /\ p \in T THEN Scatter(m[l][p], p, rows) ELSE m[k][p]
               /\ IsTensor(m[k][p], p)
               /\ IsTensor(Scatter(m[l][p], p, rows), p)
               /\ \A s \in Slots : Scatter(m[l][p], p, rows)[Address(p, s)] =
                     IF s \in DOMAIN rows THEN rows[s] ELSE m[l][p][Address(p, s)]
    <2>1. m2[k][p] = IF k = l /\ p \in T THEN Scatter(m[l][p], p, rows) ELSE m[k][p]
      BY <1>2
    <2>2. IsTensor(m[k][p], p) /\ IsTensor(m[l][p], p)
      BY DEF MemOK
    <2> QED
      BY <2>1, <2>2, ScatterRows
  <1>4. \A k \in Local, p \in Tensors, s \in Slots :
          m2[k][p][Address(p, s)] = IF k = l /\ p \in T /\ s \in DOMAIN rows THEN rows[s]
                                    ELSE m[k][p][Address(p, s)]
    BY <1>3
  <1>5. \A k \in Local, p \in Tensors : IsTensor(m2[k][p], p)
    BY <1>3
  <1>6. \A k \in Local, p \in Tensors, s \in Slots : m2[k][p][Address(p, s)] \in Row
    BY <1>4 DEF MemOK
  <1>7. m2 = [k \in Local |-> [p \in Tensors |-> m2[k][p]]]
    <2>1. \A k \in Local : m[k] = [p \in Tensors |-> m[k][p]]
      BY DEF MemOK
    <2>2. \A k \in Local : m2[k] = [p \in Tensors |-> m2[k][p]]
      BY <1>2, <2>1
    <2>3. m2 = [k \in Local |-> m2[k]]
      BY <1>2
    <2> QED
      BY <2>2, <2>3
  <1> QED
    BY <1>4, <1>5, <1>6, <1>7 DEF MemOK, m2

\* What the promise of a write says, slot by slot.
LEMMA Promised ==
    ASSUME c \in Configs, NEW k, KvOK(k), NEW l \in Local, NEW rows,
           DOMAIN rows \subseteq 1 .. c.slots, \A n \in DOMAIN rows : rows[n] \in Tokens
    PROVE  /\ KvOK(WrittenKv(k, l, rows))
           /\ \A j \in 0 .. MaxLayers - 1, n \in 1 .. NumSlots :
                 WrittenKv(k, l, rows)[j][n] = IF j = l /\ n \in DOMAIN rows THEN rows[n] ELSE k[j][n]
  <1> DEFINE k2 == WrittenKv(k, l, rows)
  <1>1. Local \subseteq 0 .. MaxLayers - 1 /\ 1 .. c.slots \subseteq 1 .. NumSlots
    BY LayerFacts, SlotFacts
  <1>2. k \in [0 .. MaxLayers - 1 -> [1 .. NumSlots -> Contents]]
    BY DEF KvOK
  <1>3. k2 = [j \in 0 .. MaxLayers - 1 |-> IF j = l THEN [n \in 1 .. NumSlots |->
                 IF n \in DOMAIN rows THEN rows[n] ELSE k[l][n]] ELSE k[j]]
    BY <1>1, <1>2 DEF WrittenKv
  <1> HIDE DEF k2
  <1>4. \A j \in 0 .. MaxLayers - 1, n \in 1 .. NumSlots :
          k2[j][n] = IF j = l /\ n \in DOMAIN rows THEN rows[n] ELSE k[j][n]
    BY <1>3
  <1>5. k2 \in [0 .. MaxLayers - 1 -> [1 .. NumSlots -> Contents]]
    <2>1. [n \in 1 .. NumSlots |-> IF n \in DOMAIN rows THEN rows[n] ELSE k[l][n]]
             \in [1 .. NumSlots -> Contents]
      BY <1>1, <1>2 DEF Contents
    <2> QED
      BY <1>2, <1>3, <2>1
  <1>6. ASSUME NEW j \in 0 .. MaxLayers - 1, NEW n \in 1 .. NumSlots, j \notin Local \/ n > c.slots
        PROVE  k2[j][n] = Zero
    <2>1. ~(j = l /\ n \in DOMAIN rows)
      BY <1>6, ConfigFacts, PoolAssumption, SMTT(60)
    <2>2. k[j][n] = Zero
      BY <1>6 DEF KvOK
    <2> QED
      BY <1>4, <2>1, <2>2
  <1> QED
    BY <1>4, <1>5, <1>6 DEF KvOK, k2

----------------------------------------------------------------------------
(* Stores                                                                  *)

\* Slots of one call.
LEMMA PlacesFacts ==
    ASSUME c \in Configs, NEW at \in Places(Owned)
    PROVE  /\ at \in Seq(Slots) /\ Len(at) \in 1 .. MaxPlaces /\ DOMAIN at = 1 .. Len(at)
           /\ \A i \in DOMAIN at : at[i] \in Owned /\ at[i] \in Slots
           /\ \A i, j \in DOMAIN at : at[i] = at[j] => i = j
  <1>1. PICK n \in 1 .. MaxPlaces : at \in [1 .. n -> Owned]
    BY DEF Places
  <1>2. Owned \subseteq Slots /\ n \in Nat
    BY <1>1, PoolAssumption DEF Owned
  <1>3. at \in Seq(Slots) /\ Len(at) = n /\ DOMAIN at = 1 .. n
    BY <1>1, <1>2
  <1> QED
    BY <1>1, <1>2, <1>3 DEF Places

LEMMA WriteStep ==
    ASSUME BaseInv, NEW l \in Local, NEW T, NEW rows, NEW nrows,
           DOMAIN rows \subseteq Slots, DOMAIN nrows = {Nth(s) : s \in DOMAIN rows},
           nrows \in [DOMAIN nrows -> Tokens], \A s \in DOMAIN rows : rows[s] \in Row,
           transfer # None => DOMAIN rows \cap Range(transfer.at) = {},
           mem' = WrittenMem(mem, l, T, rows),
           Store!Write(l, nrows)
    PROVE  /\ MemOK(mem') /\ KvOK(kv') /\ copy' = copy
           /\ Store!Next
           /\ TrueInv /\ Tensors \subseteq T
                /\ (\A s \in DOMAIN rows : rows[s] = Cell(l, nrows[Nth(s)]))
                => CellsTrue(mem', kv') /\ LoadedTrue(transfer, kv', copy)
  <1>1. c \in Configs /\ MemOK(mem) /\ KvOK(kv)
    BY DEF BaseInv
  <1>2. /\ MemOK(mem')
        /\ \A k \in Local, p \in Tensors, s \in Slots :
              mem'[k][p][Address(p, s)] =
                 IF k = l /\ p \in T /\ s \in DOMAIN rows THEN rows[s]
                 ELSE mem[k][p][Address(p, s)]
    BY <1>1, Written
  <1>3. kv' = WrittenKv(kv, l, nrows) /\ copy' = copy
    BY DEF Store!Write, WrittenKv
  <1>4. DOMAIN nrows \subseteq 1 .. c.slots
    BY <1>1, SlotFacts
  <1>5. \A n \in DOMAIN nrows : nrows[n] \in Tokens
    OBVIOUS
  <1>6. /\ KvOK(kv')
        /\ \A j \in 0 .. MaxLayers - 1, n \in 1 .. NumSlots :
              kv'[j][n] = IF j = l /\ n \in DOMAIN nrows THEN nrows[n] ELSE kv[j][n]
    BY <1>1, <1>3, <1>4, <1>5, Promised
  <1>7. Local \subseteq 0 .. MaxLayers - 1 /\ 1 .. c.slots \subseteq 1 .. NumSlots
    BY <1>1, LayerFacts, SlotFacts
  <1>8. Store!Next
    <2>1. l \in 0 .. MaxLayers - 1 /\ DOMAIN nrows \in SUBSET (1 .. NumSlots)
      BY <1>4, <1>7
    <2> QED
      BY <2>1 DEF Store!Next
  <1>9. \A s \in Slots : Nth(s) \in 1 .. NumSlots /\ (Nth(s) \in DOMAIN nrows <=> s \in DOMAIN rows)
    BY <1>1, <1>7, SlotFacts
  <1>10. ASSUME TrueInv, Tensors \subseteq T, \A s \in DOMAIN rows : rows[s] = Cell(l, nrows[Nth(s)])
         PROVE  CellsTrue(mem', kv') /\ LoadedTrue(transfer, kv', copy)
    <2>1. ASSUME NEW k \in Local, NEW p \in Tensors, NEW s \in Slots
          PROVE  mem'[k][p][Address(p, s)] = Cell(k, kv'[k][Nth(s)])
      <3>1. kv'[k][Nth(s)] = IF k = l /\ s \in DOMAIN rows THEN nrows[Nth(s)] ELSE kv[k][Nth(s)]
        BY <1>6, <1>7, <1>9
      <3>2. mem[k][p][Address(p, s)] = Cell(k, kv[k][Nth(s)])
        BY <1>10 DEF TrueInv, CellsTrue
      <3> QED
        BY <1>2, <1>10, <3>1, <3>2
    <2>2. LoadedTrue(transfer, kv', copy)
      <3>1. SUFFICES ASSUME transfer # None, NEW k \in Local, Global(k) < c.start + transfer.done,
                            NEW i \in DOMAIN transfer.at
                     PROVE  kv'[k][Nth(transfer.at[i])] = copy[k][i]
        BY DEF LoadedTrue
      <3>2. transfer.at[i] \in Slots /\ transfer.at[i] \notin DOMAIN rows
        BY <3>1 DEF BaseInv, TransferOK, Range
      <3>3. kv'[k][Nth(transfer.at[i])] = kv[k][Nth(transfer.at[i])]
        BY <1>6, <1>7, <1>9, <3>2
      <3> QED
        BY <1>10, <3>1, <3>3 DEF TrueInv, LoadedTrue
    <2> QED
      BY <2>1, <2>2 DEF CellsTrue
  <1> QED
    BY <1>2, <1>3, <1>6, <1>8, <1>10

\* The locations a store ends up with, translated or not.
LEMMA WriteLocFacts ==
    ASSUME c \in Configs, NEW loc \in Seq(Slots)
    PROVE  WriteLoc(loc, IF c.swap THEN [i \in 1 .. Len(loc) + 1 |->
                             IF i <= Len(loc) THEN Translate(loc[i]) ELSE 0] ELSE None)
             = [i \in 1 .. Len(loc) |-> Translate(loc[i])]
  <1>1. Len(loc) \in Nat /\ loc = [i \in 1 .. Len(loc) |-> loc[i]]
    OBVIOUS
  <1>2. CASE c.swap
    <2> DEFINE full == [i \in 1 .. Len(loc) + 1 |-> IF i <= Len(loc) THEN Translate(loc[i]) ELSE 0]
    <2>1. full # None
      <3>1. 1 \in DOMAIN full
        BY <1>1
      <3> QED
        BY <3>1 DEF None
    <2>2. SubSeq(full, 1, Len(loc)) = [i \in 1 .. Len(loc) |-> Translate(loc[i])]
      <3>1. \A i \in 1 .. Len(loc) : full[i] = Translate(loc[i])
        BY <1>1
      <3> HIDE DEF full
      <3>2. SubSeq(full, 1, Len(loc)) = [i \in 1 .. Len(loc) |-> full[i]]
        BY <1>1
      <3> QED
        BY <3>1, <3>2
    <2> QED
      BY <1>2, <2>1, <2>2 DEF WriteLoc
  <1>3. CASE ~c.swap
    <2>1. \A i \in 1 .. Len(loc) : Translate(loc[i]) = loc[i]
      BY <1>3 DEF Translate
    <2> QED
      BY <1>1, <1>3, <2>1 DEF WriteLoc
  <1> QED
    BY <1>2, <1>3

\* What a step keeps, and what it keeps of the contents.
BaseNext ==
    /\ c' = c
    /\ MemOK(mem') /\ KvOK(kv') /\ HostOK(host', copy') /\ TransferOK(transfer', host')
    /\ (dq' = None) = (job' = None)
    /\ size' \in 1 .. ReservedSize
TrueNext == CellsTrue(mem', kv') /\ HostTrue(host', copy') /\ LoadedTrue(transfer', kv', copy')

LEMMA SetStep ==
    ASSUME BaseInv, NEW l \in Local, NEW loc \in Places(Owned), NEW given \in {"none", "host"},
           NEW toks \in [DOMAIN loc -> Tokens], NEW mask \in SUBSET DOMAIN loc,
           SetKvBuffer(Global(l), loc, toks, mask, given)
    PROVE  BaseNext /\ Store!Next /\ (TrueInv => TrueNext)
  <1> DEFINE at == [i \in 1 .. Len(loc) |-> Translate(loc[i])]
             scale == IF c.kind = "quant" THEN QuantizedScale(Global(l), given) ELSE Unit
             rows == MaskedRows(at, toks, mask, scale)
             nrows == [n \in {Nth(Translate(loc[i])) : i \in mask} |->
                            toks[CHOOSE i \in mask : Nth(Translate(loc[i])) = n]]
  <1>1. c \in Configs
    BY DEF BaseInv
  <1>2. /\ loc \in Seq(Slots) /\ DOMAIN loc = 1 .. Len(loc)
        /\ \A i \in DOMAIN loc : loc[i] \in Owned /\ loc[i] \in Slots
        /\ \A i, j \in DOMAIN loc : loc[i] = loc[j] => i = j
    BY <1>1, PlacesFacts
  <1>3. TransferId(Global(l)) = l
    BY <1>1, LayerFacts
  <1>4. WriteLoc(loc, IF c.swap THEN [i \in 1 .. Len(loc) + 1 |->
                             IF i <= Len(loc) THEN Translate(loc[i]) ELSE 0] ELSE None) = at
    BY <1>1, <1>2, WriteLocFacts
  <1>5. mem' = WrittenMem(mem, l, Stored, rows)
    <2> HIDE DEF at, scale
    <2>1. mem' = [mem EXCEPT ![l] = StoredLayer(l, rows)]
      BY <1>3, <1>4 DEF SetKvBuffer, scale
    <2> HIDE DEF rows
    <2> QED
      BY <2>1 DEF StoredLayer, WrittenMem
  <1>6. /\ Store!Write(l, nrows)
        /\ c' = c /\ host' = host /\ transfer' = transfer /\ dq' = dq /\ job' = job /\ size' = size
    <2> HIDE DEF at, scale, rows
    <2> QED
      BY <1>3 DEF SetKvBuffer
  <1>7. \A i \in mask : at[i] = Translate(loc[i]) /\ at[i] \in Slots /\ i \in DOMAIN loc
    BY <1>1, <1>2, SlotFacts
  <1>8. ASSUME NEW i \in mask, NEW j \in mask, at[i] = at[j] \/ Nth(at[i]) = Nth(at[j])
        PROVE  i = j
    <2>1. at[i] = at[j]
      BY <1>1, <1>7, <1>8, SlotFacts, ZenonT(60)
    <2>2. loc[i] = loc[j]
      BY <1>1, <1>2, <1>7, <2>1, SlotFacts
    <2> QED
      BY <1>2, <1>7, <2>2
  <1>9. DOMAIN rows = {at[i] : i \in mask}
    BY DEF MaskedRows
  <1>10. DOMAIN nrows = {Nth(at[i]) : i \in mask}
    <2>1. \A i \in mask : Nth(Translate(loc[i])) = Nth(at[i])
      BY <1>7
    <2>2. DOMAIN nrows = {Nth(Translate(loc[i])) : i \in mask}
      OBVIOUS
    <2> HIDE DEF at, nrows
    <2> QED
      BY <2>1, <2>2
  <1>11. ASSUME NEW i \in mask
         PROVE  rows[at[i]] = <<toks[i], scale>> /\ nrows[Nth(at[i])] = toks[i]
    <2>1. rows[at[i]] = <<toks[CHOOSE j \in mask : at[j] = at[i]], scale>>
      <3> HIDE DEF at, scale
      <3> QED
        BY DEF MaskedRows
    <2>2. \A j \in mask : at[j] = at[i] <=> j = i
      BY <1>8
    <2>3. \A j \in mask : Nth(Translate(loc[j])) = Nth(at[i]) <=> j = i
      <3>1. \A j \in mask : Nth(Translate(loc[j])) = Nth(at[j])
        BY <1>7
      <3> HIDE DEF at
      <3> QED
        BY <1>8, <3>1
    <2>4. nrows[Nth(at[i])] = toks[CHOOSE j \in mask : Nth(Translate(loc[j])) = Nth(at[i])]
      <3>1. Nth(at[i]) = Nth(Translate(loc[i]))
        BY <1>7
      <3> HIDE DEF at
      <3> QED
        BY <3>1
    <2> HIDE DEF at, rows, nrows
    <2>5. (CHOOSE j \in mask : at[j] = at[i]) = i
      BY <2>2
    <2>6. (CHOOSE j \in mask : Nth(Translate(loc[j])) = Nth(at[i])) = i
      BY <2>3
    <2> QED
      BY <2>1, <2>4, <2>5, <2>6
  <1>12. \A i \in mask : toks[i] \in Tokens /\ toks[i] # Zero
    BY <1>7, PoolAssumption
  <1>13. scale \in {Unit} \cup {Global(k) : k \in Local} /\ scale = ScaleOf(Global(l))
    BY DEF ScaleOf, QuantizedScale
  <1> HIDE DEF at, scale, rows, nrows
  <1>14. nrows \in [DOMAIN nrows -> Tokens]
    <2>1. \A n \in DOMAIN nrows : nrows[n] \in Tokens
      BY <1>10, <1>11, <1>12
    <2>2. nrows = [n \in DOMAIN nrows |-> nrows[n]]
      BY DEF nrows
    <2> QED
      BY <2>1, <2>2
  <1>15. \A s \in DOMAIN rows : rows[s] \in Row /\ rows[s] = Cell(l, nrows[Nth(s)])
    <2>1. SUFFICES ASSUME NEW i \in mask
                   PROVE  rows[at[i]] \in Row /\ rows[at[i]] = Cell(l, nrows[Nth(at[i])])
      BY <1>9
    <2>2. rows[at[i]] = <<toks[i], scale>> /\ nrows[Nth(at[i])] = toks[i]
      BY <1>11
    <2>3. toks[i] \in Contents /\ toks[i] # Zero
      BY <1>12 DEF Contents
    <2> QED
      BY <1>13, <2>2, <2>3 DEF Row, Cell
  <1>16. DOMAIN rows \subseteq Slots /\ DOMAIN nrows = {Nth(s) : s \in DOMAIN rows}
    BY <1>7, <1>9, <1>10
  <1>17. transfer # None => DOMAIN rows \cap Range(transfer.at) = {}
    <2>1. SUFFICES ASSUME transfer # None, NEW i \in mask PROVE at[i] \notin Range(transfer.at)
      BY <1>9
    <2> QED
      BY <1>2, <1>7, <2>1 DEF Owned
  <1>18. /\ MemOK(mem') /\ KvOK(kv') /\ copy' = copy
         /\ Store!Next
         /\ TrueInv /\ Tensors \subseteq Stored
              /\ (\A s \in DOMAIN rows : rows[s] = Cell(l, nrows[Nth(s)]))
              => CellsTrue(mem', kv') /\ LoadedTrue(transfer, kv', copy)
    BY <1>5, <1>6, <1>14, <1>15, <1>16, <1>17, WriteStep
  <1>19. Stored = Tensors
    BY <1>1, StoredTensors
  <1>20. BaseNext
    BY <1>6, <1>18 DEF BaseNext, BaseInv
  <1>21. TrueInv => TrueNext
    BY <1>6, <1>15, <1>18, <1>19 DEF TrueNext, TrueInv
  <1> QED
    BY <1>18, <1>20, <1>21

\* Quantized pools inherit commits and host copies that leave their scales
\* behind, one class moves its payload only, and one moves flat scales twice.
Complete ==
    \A d \in Configs :
        /\ d.prefix => d.kind \notin {"quant", "fp4"}
        /\ d.offload => d.kind \notin {"quant", "fp4", "mla_fp4"}
        /\ d.moves => /\ d.kind # "mla_fp4"
                      /\ ~(d.kind = "mxfp8" /\ d.native /\ d.page # BlockSize * BlockSize)

LEMMA CompleteFacts ==
    ASSUME c \in Configs, Complete
    PROVE  /\ c.prefix => c.kind \notin {"quant", "fp4"}
           /\ CanOffload => CopiedTensors = Tensors
           /\ c.moves => WholeMoves
  <1>1. CASE CanOffload
    <2>1. c.kind \in {"mha", "mla", "dsa"}
      BY <1>1 DEF CanOffload, CopiedTensors, Complete
    <2> QED
      BY <1>1, <2>1 DEF CanOffload, CopiedTensors, Tensors, MhaCopied, MlaCopied, DsaCopied,
           MhaTensors, MlaTensors, DsaTensors, Complete, WholeMoves
  <1>2. c.moves => WholeMoves
    BY DEF Complete, WholeMoves, SfInterleaved
  <1>3. c.prefix => c.kind \notin {"quant", "fp4"}
    BY DEF Complete
  <1> QED
    BY <1>1, <1>2, <1>3

LEMMA PrefixStep ==
    ASSUME BaseInv, NEW l \in Local, NEW W \in Nat, NEW loc2d, NEW tok \in Tokens, NEW lens,
           DOMAIN loc2d = 1 .. Len(loc2d), Len(loc2d[1]) = W,
           \A b \in DOMAIN loc2d, i \in 1 .. W : loc2d[b][i] \in Owned,
           lens \in [DOMAIN loc2d -> 0 .. W],
           SetKvBufferPrefixValid(Global(l), loc2d, tok, lens)
    PROVE  BaseNext /\ Store!Next /\ (Complete /\ TrueInv => TrueNext)
  <1> DEFINE D == {loc2d[x[1]][x[2]] : x \in Committed(loc2d, lens)}
             rows == [s \in D |-> <<tok, Unit>>]
             nrows == [n \in UNION {{Nth(loc2d[b][i]) : i \in 1 .. lens[b]} : b \in DOMAIN lens}
                          |-> tok]
  <1>1. c \in Configs
    BY DEF BaseInv
  <1>2. TransferId(Global(l)) = l
    BY <1>1, LayerFacts
  <1>3. Owned \subseteq Slots
    BY DEF Owned
  <1>4. \A s : s \in D <=> \E b \in DOMAIN loc2d : \E i \in 1 .. lens[b] : s = loc2d[b][i]
    <2>1. ASSUME NEW s \in D PROVE \E b \in DOMAIN loc2d : \E i \in 1 .. lens[b] : s = loc2d[b][i]
      <3>1. PICK x \in (1 .. Len(loc2d)) \X (1 .. W) : x[2] <= lens[x[1]] /\ s = loc2d[x[1]][x[2]]
        BY DEF Committed
      <3>2. x[1] \in DOMAIN loc2d /\ x[2] \in 1 .. lens[x[1]]
        BY <3>1
      <3> QED
        BY <3>1, <3>2
    <2>2. ASSUME NEW b \in DOMAIN loc2d, NEW i \in 1 .. lens[b] PROVE loc2d[b][i] \in D
      <3>1. <<b, i>> \in Committed(loc2d, lens)
        BY DEF Committed
      <3> QED
        BY <3>1
    <2> QED
      BY <2>1, <2>2
  <1>5. D \subseteq Owned
    <2>1. SUFFICES ASSUME NEW s \in D PROVE s \in Owned
      OBVIOUS
    <2> HIDE DEF D
    <2>2. PICK b \in DOMAIN loc2d : \E i \in 1 .. lens[b] : s = loc2d[b][i]
      BY <1>4, <2>1
    <2>3. PICK i \in 1 .. lens[b] : s = loc2d[b][i]
      BY <2>2
    <2>4. lens[b] \in 0 .. W
      OBVIOUS
    <2>5. i \in 1 .. W
      BY <2>4
    <2> QED
      BY <2>3, <2>5
  <1>6. DOMAIN rows = D /\ DOMAIN nrows = {Nth(s) : s \in D}
    <2>1. DOMAIN nrows = UNION {{Nth(loc2d[b][i]) : i \in 1 .. lens[b]} : b \in DOMAIN loc2d}
      OBVIOUS
    <2> HIDE DEF D, nrows
    <2>2. \A n : n \in DOMAIN nrows <=> \E b \in DOMAIN loc2d : \E i \in 1 .. lens[b] : n = Nth(loc2d[b][i])
      BY <2>1
    <2>3. \A n : n \in DOMAIN nrows <=> \E s \in D : n = Nth(s)
      BY <1>4, <2>2
    <2> QED
      BY <2>3
  <1>7. mem' = WrittenMem(mem, l, MhaTensors, rows)
    <2>1. mem' = [mem EXCEPT ![l] = CommittedLayer(l, rows)]
      BY <1>2 DEF SetKvBufferPrefixValid
    <2> HIDE DEF rows
    <2> QED
      BY <2>1 DEF CommittedLayer, WrittenMem
  <1>8. /\ Store!Write(l, nrows)
        /\ c' = c /\ host' = host /\ transfer' = transfer /\ dq' = dq /\ job' = job /\ size' = size
        /\ c.prefix /\ c.kind \in {"mha", "quant", "fp4"}
    BY <1>2 DEF SetKvBufferPrefixValid
  <1>9. nrows \in [DOMAIN nrows -> Tokens]
    OBVIOUS
  <1>10. \A s \in DOMAIN rows : nrows[Nth(s)] = tok /\ rows[s] = <<tok, Unit>>
    <2>1. \A n \in DOMAIN nrows : nrows[n] = tok
      OBVIOUS
    <2>2. \A s \in D : rows[s] = <<tok, Unit>>
      OBVIOUS
    <2> HIDE DEF D, rows, nrows
    <2> QED
      BY <1>6, <2>1, <2>2
  <1> HIDE DEF D, rows, nrows
  <1>11. tok # Zero
    BY PoolAssumption
  <1>12. \A s \in DOMAIN rows : rows[s] \in Row
    BY <1>10 DEF Row, Contents
  <1>13. c.kind = "mha" => \A s \in DOMAIN rows : rows[s] = Cell(l, nrows[Nth(s)])
    BY <1>10, <1>11 DEF Cell, ScaleOf
  <1>14. c.kind = "mha" => Tensors \subseteq MhaTensors
    BY DEF Tensors
  <1>15. DOMAIN rows \subseteq Slots
    BY <1>3, <1>5, <1>6
  <1>16. transfer # None => DOMAIN rows \cap Range(transfer.at) = {}
    BY <1>5, <1>6 DEF Owned
  <1>17. /\ MemOK(mem') /\ KvOK(kv') /\ copy' = copy
         /\ Store!Next
         /\ TrueInv /\ Tensors \subseteq MhaTensors
              /\ (\A s \in DOMAIN rows : rows[s] = Cell(l, nrows[Nth(s)]))
              => CellsTrue(mem', kv') /\ LoadedTrue(transfer, kv', copy)
    BY <1>6, <1>7, <1>8, <1>9, <1>12, <1>15, <1>16, WriteStep
  <1>18. BaseNext
    BY <1>8, <1>17 DEF BaseNext, BaseInv
  <1>19. Complete /\ TrueInv => TrueNext
    <2>1. Complete => c.kind = "mha"
      BY <1>1, <1>8, CompleteFacts
    <2> QED
      BY <1>8, <1>13, <1>14, <1>17, <2>1 DEF TrueNext, TrueInv
  <1> QED
    BY <1>17, <1>18, <1>19

----------------------------------------------------------------------------
(* Moves                                                                   *)

\* A compaction of slots is an ascending sequence of pairs.
LEMMA CompactionOrdered ==
    ASSUME c \in Configs, NEW pairs \in Compactions
    PROVE  Ordered(pairs)
  <1>1. PICK n \in 1 .. MaxPlaces :
           pairs \in [1 .. n -> {x \in Owned \X Owned : x[1] <= x[2]}]
    BY DEF Compactions
  <1>2. Owned \subseteq Slots /\ n \in Nat
    BY <1>1, PoolAssumption DEF Owned
  <1>3. pairs \in Seq(Slots \X Slots) /\ DOMAIN pairs = 1 .. n
    BY <1>1, <1>2
  <1> QED
    BY <1>1, <1>3 DEF Ordered, Compactions

MovedKv(k, from) ==
    [l \in 0 .. MaxLayers - 1 |-> [s \in 1 .. NumSlots |->
        k[l][IF s \in DOMAIN from THEN from[s] ELSE s]]]

LEMMA MoveStep ==
    ASSUME BaseInv, NEW pairs \in Compactions, c.moves, transfer = None, MoveKvCache(pairs)
    PROVE  BaseNext /\ Store!Next /\ (Complete /\ TrueInv => TrueNext)
  <1> DEFINE from == [n \in {Nth(pairs[i][1]) : i \in DOMAIN pairs} |->
                        Nth(pairs[CHOOSE i \in DOMAIN pairs : Nth(pairs[i][1]) = n][2])]
             m2 == [l \in Local |-> [p \in Tensors |-> Moved(mem[l][p], p, pairs)]]
             k2 == MovedKv(kv, from)
  <1>1. c \in Configs /\ MemOK(mem) /\ KvOK(kv)
    BY DEF BaseInv
  <1>2. Ordered(pairs)
    BY <1>1, CompactionOrdered
  <1>3. /\ mem' = m2 /\ CanMove
        /\ c' = c /\ host' = host /\ transfer' = transfer /\ dq' = dq /\ job' = job /\ size' = size
    BY DEF MoveKvCache
  <1>4. kv' = k2 /\ copy' = copy /\ Store!Move(from)
    <2>1. Store!Move(from)
      BY DEF MoveKvCache
    <2> HIDE DEF from
    <2> QED
      BY <2>1 DEF Store!Move, MovedKv
  <1>5. \A i \in DOMAIN pairs : pairs[i][1] \in Slots /\ pairs[i][2] \in Slots
    BY <1>1, <1>2, SourceFacts
  <1>6. Local \subseteq 0 .. MaxLayers - 1 /\ 1 .. c.slots \subseteq 1 .. NumSlots
    BY <1>1, LayerFacts, SlotFacts
  <1>7. DOMAIN from = {Nth(pairs[i][1]) : i \in DOMAIN pairs} /\ from = [n \in DOMAIN from |-> from[n]]
    OBVIOUS
  <1>8. ASSUME NEW i \in DOMAIN pairs PROVE from[Nth(pairs[i][1])] = Nth(pairs[i][2])
    <2>1. \A j \in DOMAIN pairs : Nth(pairs[j][1]) = Nth(pairs[i][1]) <=> j = i
      <3> TAKE j \in DOMAIN pairs
      <3>1. Nth(pairs[j][1]) = Nth(pairs[i][1]) => pairs[j][1] = pairs[i][1]
        BY <1>1, <1>5, SlotFacts
      <3>2. pairs[j][1] = pairs[i][1] => j = i
        BY <1>1, <1>2, SourceFacts
      <3> QED
        BY <3>1, <3>2
    <2>2. (CHOOSE j \in DOMAIN pairs : Nth(pairs[j][1]) = Nth(pairs[i][1])) = i
      BY <2>1
    <2> QED
      BY <2>2
  <1> HIDE DEF from, m2, k2
  <1>9. ASSUME NEW s \in Slots
        PROVE  /\ Source(pairs, s) \in Slots /\ Nth(s) \in 1 .. c.slots
               /\ Nth(Source(pairs, s)) \in 1 .. c.slots
               /\ (IF Nth(s) \in DOMAIN from THEN from[Nth(s)] ELSE Nth(s)) = Nth(Source(pairs, s))
    <2>1. Source(pairs, s) \in Slots
      BY <1>1, <1>2, SourceFacts
    <2>2. CASE \E i \in DOMAIN pairs : pairs[i][1] = s
      <3>1. PICK i \in DOMAIN pairs : pairs[i][1] = s
        BY <2>2
      <3>2. Source(pairs, s) = pairs[i][2]
        BY <1>1, <1>2, <3>1, SourceFacts
      <3>3. Nth(s) \in DOMAIN from /\ from[Nth(s)] = Nth(pairs[i][2])
        BY <1>7, <1>8, <3>1
      <3> QED
        BY <1>1, <2>1, <3>2, <3>3, SlotFacts
    <2>3. CASE \A i \in DOMAIN pairs : pairs[i][1] # s
      <3>1. Source(pairs, s) = s
        BY <1>1, <1>2, <2>3, SourceFacts
      <3>2. Nth(s) \notin DOMAIN from
        BY <1>1, <1>5, <1>7, <2>3, SlotFacts
      <3> QED
        BY <1>1, <2>1, <3>1, <3>2, SlotFacts
    <2> QED
      BY <2>2, <2>3
  <1>10. DOMAIN from \subseteq 1 .. c.slots /\ \A n \in DOMAIN from : from[n] \in 1 .. c.slots
    <2>1. \A i \in DOMAIN pairs : Nth(pairs[i][1]) \in 1 .. c.slots /\ Nth(pairs[i][2]) \in 1 .. c.slots
      BY <1>1, <1>5, SlotFacts
    <2> QED
      BY <1>7, <1>8, <2>1
  <1>11. MemOK(m2)
    <2>1. \A l \in Local, p \in Tensors : m2[l][p] = Moved(mem[l][p], p, pairs)
      BY DEF m2
    <2>2. \A l \in Local, p \in Tensors : From(m2[l][p], mem[l][p], p)
      <3> TAKE l \in Local, p \in Tensors
      <3>1. IsTensor(mem[l][p], p)
        BY <1>1 DEF MemOK
      <3> QED
        BY <1>1, <1>2, <1>3, <2>1, <3>1, MovedFacts
    <2>3. m2 = [l \in Local |-> [p \in Tensors |-> m2[l][p]]]
      BY DEF m2
    <2>5. \A l \in Local, p \in Tensors : IsTensor(m2[l][p], p)
      BY <2>2 DEF From
    <2>4. ASSUME NEW l \in Local, NEW p \in Tensors, NEW s \in Slots
          PROVE  m2[l][p][Address(p, s)] \in Row
      <3>1. \E t \in Slots : m2[l][p][Address(p, s)] = mem[l][p][Address(p, t)]
        BY <2>2 DEF From
      <3> QED
        BY <1>1, <3>1 DEF MemOK
    <2> QED
      BY <2>3, <2>4, <2>5 DEF MemOK
  <1>12. \A l \in 0 .. MaxLayers - 1, n \in 1 .. NumSlots :
            k2[l][n] = kv[l][IF n \in DOMAIN from THEN from[n] ELSE n]
    BY DEF k2, MovedKv
  <1>13. KvOK(k2)
    <2>1. kv \in [0 .. MaxLayers - 1 -> [1 .. NumSlots -> Contents]]
      BY <1>1 DEF KvOK
    <2>2. \A n \in 1 .. NumSlots : (IF n \in DOMAIN from THEN from[n] ELSE n) \in 1 .. NumSlots
      BY <1>6, <1>10
    <2>3. k2 \in [0 .. MaxLayers - 1 -> [1 .. NumSlots -> Contents]]
      BY <2>1, <2>2 DEF k2, MovedKv
    <2>4. ASSUME NEW l \in 0 .. MaxLayers - 1, NEW n \in 1 .. NumSlots, l \notin Local \/ n > c.slots
          PROVE  k2[l][n] = Zero
      <3>1. CASE l \notin Local
        BY <1>1, <1>12, <2>2, <3>1 DEF KvOK
      <3>2. CASE n > c.slots
        <4>1. n \notin DOMAIN from
          BY <1>1, <1>10, <3>2, ConfigFacts, PoolAssumption, SMTT(60)
        <4> QED
          BY <1>1, <1>12, <3>2, <4>1 DEF KvOK
      <3> QED
        BY <2>4, <3>1, <3>2
    <2> QED
      BY <2>3, <2>4 DEF KvOK
  <1>14. Store!Next
    <2>1. from \in [DOMAIN from -> 1 .. NumSlots] /\ DOMAIN from \in SUBSET (1 .. NumSlots)
      BY <1>6, <1>7, <1>10
    <2> QED
      BY <1>4, <2>1 DEF Store!Next
  <1>15. ASSUME Complete, TrueInv PROVE CellsTrue(m2, k2)
    <2>1. SUFFICES ASSUME NEW l \in Local, NEW p \in Tensors, NEW s \in Slots
                   PROVE  m2[l][p][Address(p, s)] = Cell(l, k2[l][Nth(s)])
      BY DEF CellsTrue
    <2>2. IsTensor(mem[l][p], p)
      BY <1>1 DEF MemOK
    <2>3. m2[l][p] = MoveRows(mem[l][p], p, pairs)
      <3>1. WholeMoves
        BY <1>1, <1>15, CompleteFacts
      <3>2. m2[l][p] = Moved(mem[l][p], p, pairs)
        BY DEF m2
      <3> QED
        BY <1>1, <1>2, <1>3, <2>2, <3>1, <3>2, MovedFacts
    <2>4. m2[l][p][Address(p, s)] = mem[l][p][Address(p, Source(pairs, s))]
      BY <1>1, <1>2, <2>2, <2>3, MoveRowsRows
    <2>5. mem[l][p][Address(p, Source(pairs, s))] = Cell(l, kv[l][Nth(Source(pairs, s))])
      BY <1>9, <1>15 DEF TrueInv, CellsTrue
    <2>6. k2[l][Nth(s)] = kv[l][Nth(Source(pairs, s))]
      BY <1>6, <1>9, <1>12
    <2> QED
      BY <2>4, <2>5, <2>6
  <1>16. BaseNext
    BY <1>3, <1>4, <1>11, <1>13 DEF BaseNext, BaseInv
  <1>17. Complete /\ TrueInv => TrueNext
    <2>1. LoadedTrue(transfer', kv', copy')
      BY <1>3 DEF LoadedTrue
    <2> QED
      BY <1>3, <1>4, <1>15, <2>1 DEF TrueNext, TrueInv
  <1> QED
    BY <1>14, <1>16, <1>17

----------------------------------------------------------------------------
(* Host copies                                                             *)

\* The copy of the slots of at that GetCpuCopy takes.
CopyOf(m, at) ==
    [l \in Local |-> [p \in CopiedTensors |->
        [i \in DOMAIN Chunks(at) |-> [j \in DOMAIN Chunks(at)[i] |->
            m[l][p][Flat(Chunks(at)[i][j])]]]]]

\* Row i of the copy is the row of the i-th slot, whatever the chunk size.
LEMMA CopyFacts ==
    ASSUME c \in Configs, CopiedTensors # {}, NEW m, NEW at \in Seq(Slots), Len(at) > 0
    PROVE  /\ CopyOf(m, at) # None
           /\ LenOf(CopyOf(m, at)) = Len(at)
           /\ \A l \in Local, p \in CopiedTensors, i \in 1 .. Len(at) :
                 RowOf(CopyOf(m, at), l, p, i) = m[l][p][Flat(at[i])]
  <1> DEFINE L == Len(at)
             d == OffloadChunk
             n == (L + d - 1) \div d
             Start(i) == (i - 1) * d
             Cut(i) == IF i * d < L THEN i * d ELSE L
             ch == Chunks(at)
             h == CopyOf(m, at)
  <1>1. d \in Nat \ {0} /\ L \in Nat \ {0} /\ DOMAIN at = 1 .. L /\ at = [i \in 1 .. L |-> at[i]]
    BY PoolAssumption
  <1>2. n \in Nat /\ d * n \in Nat /\ d * n <= L + d - 1 /\ L <= d * n
    BY <1>1, CeilDiv
  <1>3. ch = [i \in 1 .. n |-> SubSeq(at, Start(i) + 1, Cut(i))]
    BY DEF Chunks
  <1>4. 0 \in Local
    BY LayerFacts
  <1> HIDE DEF L, d, n, ch, h
  <1>5. n > 0
    BY <1>1, <1>2
  <1>6. ASSUME NEW i \in 1 .. n
        PROVE  /\ Start(i) \in Nat /\ Start(i) = d * i - d /\ d * i \in Nat
               /\ Start(i) < L /\ Start(i) < Cut(i) /\ Cut(i) <= L /\ Cut(i) \in Nat
               /\ (Cut(i) = d * i \/ (Cut(i) = L /\ L <= d * i))
    <2>1. i \in Nat /\ i >= 1 /\ i <= n
      BY <1>2
    <2>2. d * i <= d * n
      BY <1>1, <1>2, <2>1, SMT
    <2>3. (i - 1) * d = d * i - d /\ i * d = d * i
      BY <1>1, <2>1, SMT
    <2>4. d * i \in Nat /\ d * i >= d
      BY <1>1, <2>1, SMT
    <2> QED
      BY <1>1, <1>2, <2>2, <2>3, <2>4, SMTT(60)
  <1> HIDE DEF Cut, Start
  <1>7. ASSUME NEW i \in 1 .. n
        PROVE  /\ DOMAIN ch[i] = 1 .. Cut(i) - Start(i)
               /\ \A j \in 1 .. Cut(i) - Start(i) : ch[i][j] = at[j + Start(i)]
    <2>1. ch[i] = SubSeq(at, Start(i) + 1, Cut(i))
      BY <1>3
    <2> DEFINE a == Start(i)
               b == Cut(i)
    <2>2. a \in Nat /\ b \in Nat /\ b <= L /\ a < b
      BY <1>6
    <2>3. ch[i] = SubSeq(at, a + 1, b)
      BY <2>1
    <2> HIDE DEF a, b
    <2>4. ch[i] = [j \in 1 .. b - a |-> at[j + a]]
      BY <1>1, <2>2, <2>3, SMTT(60)
    <2>5. DOMAIN ch[i] = 1 .. b - a /\ \A j \in 1 .. b - a : ch[i][j] = at[j + a]
      BY <2>4
    <2> QED
      BY <2>5 DEF a, b
  <1>8. DOMAIN ch = 1 .. n
    BY <1>3
  <1>9. ASSUME NEW l \in Local, NEW p \in CopiedTensors
        PROVE  h[l][p] = [i \in 1 .. n |-> [j \in DOMAIN ch[i] |-> m[l][p][Flat(ch[i][j])]]]
    BY <1>8 DEF h, CopyOf, ch
  <1>10. h # None
    <2>1. 0 \in DOMAIN h
      BY <1>4 DEF h, CopyOf
    <2> QED
      BY <2>1 DEF None
  <1>11. LenOf(h) = L
    <2> DEFINE p0 == CHOOSE p \in DOMAIN h[0] : TRUE
               chunks == h[0][p0]
    <2>1. DOMAIN h[0] = CopiedTensors
      BY <1>4 DEF h, CopyOf
    <2>2. p0 \in CopiedTensors
      BY <2>1
    <2>3. chunks = [i \in 1 .. n |-> [j \in DOMAIN ch[i] |-> m[0][p0][Flat(ch[i][j])]]]
      BY <1>4, <1>9, <2>2
    <2> HIDE DEF p0, chunks
    <2>4. Len(chunks) = n
      <3>1. DOMAIN chunks = 1 .. n /\ chunks = [i \in 1 .. n |-> chunks[i]]
        BY <2>3
      <3>2. chunks \in Seq({chunks[i] : i \in 1 .. n})
        BY <1>2, <3>1
      <3> QED
        BY <1>2, <3>1, <3>2, LenProperties
    <2>8. n \in 1 .. n
      BY <1>2, <1>5
    <2>9. Start(n) \in Nat /\ Start(n) < L
      BY <1>6, <2>8
    <2>5. Len(chunks[n]) = L - Start(n)
      <3>1. DOMAIN ch[n] = 1 .. Cut(n) - Start(n)
        BY <1>7, <2>8
      <3>2. Cut(n) = L
        <4>1. Cut(n) <= L /\ Cut(n) \in Nat /\ (Cut(n) = d * n \/ Cut(n) = L)
          BY <1>6, <2>8
        <4> QED
          BY <1>1, <1>2, <4>1
      <3>3. L - Start(n) \in Nat
        BY <1>1, <2>9
      <3> DEFINE k == L - Start(n)
                 x == chunks[n]
      <3>4. x = [j \in 1 .. k |-> m[0][p0][Flat(ch[n][j])]]
        <4>1. n \in 1 .. n
          BY <1>2, <1>5
        <4>2. x = [j \in DOMAIN ch[n] |-> m[0][p0][Flat(ch[n][j])]]
          BY <2>3, <4>1
        <4>3. DOMAIN ch[n] = 1 .. k
          BY <3>1, <3>2
        <4> QED
          BY <4>2, <4>3
      <3>5. k \in Nat
        BY <3>3
      <3> HIDE DEF k, x
      <3>6. DOMAIN x = 1 .. k /\ x = [j \in 1 .. k |-> x[j]]
        BY <3>4
      <3>7. x \in Seq({x[j] : j \in 1 .. k})
        BY <3>5, <3>6
      <3>8. Len(x) = k
        BY <3>5, <3>6, <3>7, LenProperties
      <3> QED
        BY <3>8 DEF k, x
    <2>6. LenOf(h) = Start(Len(chunks)) + Len(chunks[Len(chunks)])
      BY DEF LenOf, chunks, p0, d, Start
    <2>7. LenOf(h) = Start(n) + (L - Start(n))
      BY <2>4, <2>5, <2>6
    <2> QED
      BY <1>1, <2>7, <2>9
  <1>12. ASSUME NEW l \in Local, NEW p \in CopiedTensors, NEW i \in 1 .. L
         PROVE  RowOf(h, l, p, i) = m[l][p][Flat(at[i])]
    <2> DEFINE q == (i - 1) \div d
               r == (i - 1) % d
    <2>1. i - 1 \in Nat /\ i - 1 < L
      BY <1>1
    <2>2. q \in Nat /\ r \in 0 .. d - 1 /\ i - 1 = d * q + r
      BY <1>1, <2>1, DivMod
    <2>3. RowOf(h, l, p, i) = h[l][p][q + 1][r + 1]
      BY DEF RowOf, d
    <2> HIDE DEF q, r
    <2>4. q + 1 \in 1 .. n
      <3>1. SUFFICES ASSUME q >= n PROVE FALSE
        BY <1>2, <2>2
      <3>2. d * q >= d * n
        BY <1>1, <1>2, <2>2, <3>1, SMTT(60)
      <3>3. d * q \in Nat
        BY <1>1, <2>2, SMT
      <3> QED
        BY <1>1, <1>2, <2>1, <2>2, <3>2, <3>3, SMTT(60)
    <2> DEFINE e == q + 1
    <2>5. d * e = d * q + d /\ d * q \in Nat
      BY <1>1, <2>2, SMT
    <2>6. /\ Start(e) = d * e - d /\ Cut(e) \in Nat
          /\ Cut(e) = d * e \/ (Cut(e) = L /\ L <= d * e)
      BY <1>6, <2>4
    <2>11. \A j \in 1 .. Cut(e) - Start(e) : ch[e][j] = at[j + Start(e)]
      BY <1>7, <2>4
    <2>12. DOMAIN ch[e] = 1 .. Cut(e) - Start(e)
      BY <1>7, <2>4
    <2> HIDE DEF e
    <2>13. Start(e) = d * q
      BY <1>1, <2>5, <2>6
    <2>14. r + 1 + d * q = i /\ r + 1 <= d /\ i <= L /\ r \in Nat /\ i \in Nat
      BY <1>1, <2>1, <2>2, <2>5, SMTT(60)
    <2> DEFINE z == d * q
    <2>15. /\ z \in Nat /\ Start(e) = z /\ r + 1 + z = i
           /\ Cut(e) = z + d \/ (Cut(e) = L /\ L <= z + d)
      BY <2>5, <2>6, <2>13, <2>14
    <2> HIDE DEF z
    <2>7. r + 1 \in 1 .. Cut(e) - Start(e)
      BY <1>1, <2>6, <2>14, <2>15
    <2>9. r + 1 + Start(e) = i
      BY <2>15
    <2>8. ch[q + 1][r + 1] = at[i] /\ r + 1 \in DOMAIN ch[q + 1]
      BY <2>7, <2>9, <2>11, <2>12 DEF e
    <2>10. h[l][p][q + 1][r + 1] = m[l][p][Flat(ch[q + 1][r + 1])]
      <3>1. h[l][p] = [k \in 1 .. n |-> [j \in DOMAIN ch[k] |-> m[l][p][Flat(ch[k][j])]]]
        BY <1>9
      <3>2. h[l][p][q + 1] = [j \in DOMAIN ch[q + 1] |-> m[l][p][Flat(ch[q + 1][j])]]
        BY <2>4, <3>1
      <3> QED
        BY <2>8, <3>2
    <2> QED
      BY <2>3, <2>8, <2>10
  <1> QED
    BY <1>10, <1>11, <1>12 DEF h, L

\* The slots of a request, counted from the first one.
Counted(at) == [i \in DOMAIN at |-> Nth(at[i])]

LEMMA StorePlaces ==
    ASSUME c \in Configs, NEW at \in Seq(Slots), Len(at) > 0,
           \A i, j \in DOMAIN at : at[i] = at[j] => i = j
    PROVE  /\ Counted(at) \in Store!Places
           /\ DOMAIN Counted(at) = 1 .. Len(at)
           /\ \A i \in 1 .. Len(at) : Counted(at)[i] = Nth(at[i]) /\ Counted(at)[i] \in 1 .. c.slots
           /\ \A i, j \in 1 .. Len(at) : Counted(at)[i] = Counted(at)[j] => i = j
  <1> DEFINE nat == Counted(at)
             n == Len(at)
  <1>1. n \in Nat \ {0} /\ DOMAIN at = 1 .. n /\ NumSlots \in Nat \ {0}
    BY PoolAssumption
  <1>2. nat = [i \in 1 .. n |-> Nth(at[i])]
    BY <1>1 DEF Counted
  <1>3. \A i \in 1 .. n : at[i] \in Slots
    BY <1>1
  <1> HIDE DEF nat, n
  <1>4. DOMAIN nat = 1 .. n /\ \A i \in 1 .. n : nat[i] = Nth(at[i]) /\ nat[i] \in 1 .. c.slots
    BY <1>2, <1>3, SlotFacts
  <1>5. \A i, j \in 1 .. n : nat[i] = nat[j] => i = j
    <2> TAKE i, j \in 1 .. n
    <2>1. nat[i] = nat[j] => at[i] = at[j]
      BY <1>3, <1>4, SlotFacts
    <2> QED
      BY <1>1, <2>1
  <1>6. nat \in [1 .. n -> 1 .. NumSlots]
    <2>1. 1 .. c.slots \subseteq 1 .. NumSlots
      BY SlotFacts
    <2> QED
      BY <1>2, <1>4, <2>1
  <1>7. Cardinality(1 .. n) = n /\ Cardinality(1 .. NumSlots) = NumSlots
        /\ IsFiniteSet(1 .. n) /\ IsFiniteSet(1 .. NumSlots)
    <2>1. 1 \in Int /\ n \in Int /\ NumSlots \in Int /\ ~(1 > n) /\ ~(1 > NumSlots)
      BY <1>1
    <2>2. IsFiniteSet(1 .. n) /\ Cardinality(1 .. n) = n - 1 + 1
      BY <2>1, FS_Interval
    <2>3. IsFiniteSet(1 .. NumSlots) /\ Cardinality(1 .. NumSlots) = NumSlots - 1 + 1
      BY <2>1, FS_Interval
    <2> QED
      BY <1>1, <2>2, <2>3
  <1>8. n <= NumSlots
    <2>1. SUFFICES ASSUME NumSlots < n PROVE FALSE
      BY <1>1
    <2>2. \E x, y \in 1 .. n : x # y /\ nat[x] = nat[y]
      BY <1>6, <1>7, <2>1, FS_PigeonHole, ZenonT(60)
    <2> QED
      BY <1>5, <2>2
  <1>9. nat \in Store!Places
    <2>1. n \in 1 .. Cardinality(1 .. NumSlots)
      BY <1>1, <1>7, <1>8
    <2>2. nat \in UNION {[1 .. k -> 1 .. NumSlots] : k \in 1 .. Cardinality(1 .. NumSlots)}
      BY <1>6, <2>1
    <2>3. \A i, j \in DOMAIN nat : nat[i] = nat[j] => i = j
      BY <1>4, <1>5
    <2>4. Store!Cardinality(1 .. NumSlots) = Cardinality(1 .. NumSlots)
      BY DEF Store!Cardinality, Cardinality
    <2>5. nat \in UNION {[1 .. k -> 1 .. NumSlots] : k \in 1 .. Store!Cardinality(1 .. NumSlots)}
      BY <2>2, <2>4
    <2> QED
      BY <2>3, <2>5, Zenon DEF Store!Places
  <1> QED
    BY <1>4, <1>5, <1>9 DEF nat, n

\* The classes that copy to the host store slot s in row s.
LEMMA FlatAddress ==
    ASSUME c \in Configs, CanOffload, NEW p, NEW s
    PROVE  Address(p, s) = Flat(s)
  <1>1. c.kind \in {"mha", "quant", "fp4", "mla", "mla_fp4", "dsa"} /\ ~c.hnd
    BY DEF CanOffload, CopiedTensors
  <1> QED
    BY <1>1 DEF Address, SfInterleaved

LEMMA OffloadStep ==
    ASSUME BaseInv, host = None, NEW at \in Places(Owned), GetCpuCopy(at)
    PROVE  BaseNext /\ Store!Next /\ (Complete /\ TrueInv => TrueNext)
  <1> DEFINE nat == Counted(at)
             cp == [l \in 0 .. MaxLayers - 1 |-> [i \in DOMAIN nat |-> kv[l][nat[i]]]]
             h == CopyOf(mem, at)
  <1>1. c \in Configs /\ MemOK(mem) /\ KvOK(kv) /\ MaxLayers \in Nat \ {0}
    BY PoolAssumption DEF BaseInv
  <1>2. /\ at \in Seq(Slots) /\ DOMAIN at = 1 .. Len(at) /\ Len(at) \in Nat /\ Len(at) > 0
        /\ \A i, j \in DOMAIN at : at[i] = at[j] => i = j
        /\ \A i \in DOMAIN at : at[i] \in Slots
    BY <1>1, PlacesFacts, PoolAssumption
  <1>3. /\ nat \in Store!Places /\ DOMAIN nat = 1 .. Len(at)
        /\ \A i \in 1 .. Len(at) : nat[i] = Nth(at[i]) /\ nat[i] \in 1 .. c.slots
    BY <1>1, <1>2, StorePlaces
  <1>4. /\ CanOffload /\ CopiedTensors # {} /\ host' = h
        /\ c' = c /\ mem' = mem /\ transfer' = transfer /\ dq' = dq /\ job' = job /\ size' = size
    BY DEF GetCpuCopy, CopyOf, CanOffload
  <1>5. Store!Offload(nat)
    BY DEF GetCpuCopy, Counted
  <1>6. copy' = cp /\ kv' = kv
    <2> HIDE DEF nat
    <2> QED
      BY <1>5 DEF Store!Offload
  <1>7. /\ h # None /\ LenOf(h) = Len(at)
        /\ \A l \in Local, p \in CopiedTensors, i \in 1 .. Len(at) :
              RowOf(h, l, p, i) = mem[l][p][Flat(at[i])]
    BY <1>1, <1>2, <1>4, CopyFacts
  <1> HIDE DEF h, nat
  <1>8. Store!Next
    BY <1>3, <1>5 DEF Store!Next
  <1>9. \A l \in Local, p \in CopiedTensors, i \in 1 .. Len(at) :
          RowOf(h, l, p, i) = mem[l][p][Address(p, at[i])] /\ p \in Tensors /\ at[i] \in Slots
    BY <1>1, <1>2, <1>4, <1>7, FlatAddress, StoredTensors
  <1>10. \A l \in 0 .. MaxLayers - 1, i \in 1 .. Len(at) : cp[l][i] = kv[l][Nth(at[i])]
    BY <1>3
  <1>11. 1 .. c.slots \subseteq 1 .. NumSlots /\ Local \subseteq 0 .. MaxLayers - 1
    BY <1>1, SlotFacts, LayerFacts
  <1>12. cp # None
    <2>1. 0 \in DOMAIN cp
      BY <1>1
    <2> QED
      BY <2>1 DEF None
  <1>13. cp \in [0 .. MaxLayers - 1 -> [1 .. Len(at) -> Contents]]
    BY <1>1, <1>3, <1>11 DEF KvOK
  <1> HIDE DEF cp
  <1>14. HostOK(h, cp)
    <2>1. \A l \in Local, p \in CopiedTensors, i \in 1 .. Len(at) : RowOf(h, l, p, i) \in Row
      BY <1>1, <1>9 DEF MemOK
    <2>2. \A l \in (0 .. MaxLayers - 1) \ Local, i \in 1 .. Len(at) : cp[l][i] = Zero
      <3> TAKE l \in (0 .. MaxLayers - 1) \ Local, i \in 1 .. Len(at)
      <3>1. Nth(at[i]) \in 1 .. NumSlots
        BY <1>3, <1>11
      <3> QED
        BY <1>1, <1>10, <3>1 DEF KvOK
    <2> QED
      BY <1>2, <1>4, <1>7, <1>12, <1>13, <2>1, <2>2 DEF HostOK
  <1>15. transfer = None
    BY DEF BaseInv, TransferOK
  <1>16. BaseNext
    BY <1>1, <1>4, <1>6, <1>14, <1>15 DEF BaseNext, BaseInv, TransferOK
  <1>17. ASSUME TrueInv, Complete PROVE TrueNext
    <2>1. CellsTrue(mem, kv)
      BY <1>17 DEF TrueInv
    <2>2. HostTrue(h, cp)
      <3>1. SUFFICES ASSUME NEW l \in Local, NEW p \in CopiedTensors, NEW i \in 1 .. Len(at)
                     PROVE  RowOf(h, l, p, i) = Cell(l, cp[l][i])
        BY <1>7 DEF HostTrue
      <3>2. RowOf(h, l, p, i) = Cell(l, kv[l][Nth(at[i])])
        BY <1>9, <2>1 DEF CellsTrue
      <3> QED
        BY <1>10, <1>11, <3>2
    <2>3. LoadedTrue(transfer', kv', copy')
      BY <1>4, <1>15 DEF LoadedTrue
    <2> QED
      BY <1>4, <1>6, <2>1, <2>2, <2>3 DEF TrueNext
  <1> QED
    BY <1>8, <1>16, <1>17

\* A layer after a load: the rows of the copy in the slots of at.
LEMMA LoadedFacts ==
    ASSUME c \in Configs, MemOK(mem), HostOK(host, copy), host # None,
           NEW at \in Seq(Slots), Len(at) = LenOf(host),
           \A i, j \in DOMAIN at : at[i] = at[j] => i = j, NEW l \in Local
    PROVE  /\ Loaded(l, at) = [p \in Tensors |-> Loaded(l, at)[p]]
           /\ \A p \in Tensors :
                 /\ IsTensor(Loaded(l, at)[p], p)
                 /\ \A s \in Slots : Loaded(l, at)[p][Address(p, s)] \in Row
                 /\ \A i \in DOMAIN at : p \in CopiedTensors =>
                       Loaded(l, at)[p][Address(p, at[i])] = RowOf(host, l, p, i)
                 /\ \A s \in Slots : s \notin Range(at) =>
                       Loaded(l, at)[p][Address(p, s)] = mem[l][p][Address(p, s)]
  <1>1. Loaded(l, at) = [p \in Tensors |-> Loaded(l, at)[p]]
    BY DEF Loaded
  <1>2. CanOffload
    BY DEF HostOK
  <1>3. ASSUME NEW p \in Tensors
        PROVE  /\ IsTensor(Loaded(l, at)[p], p)
               /\ \A s \in Slots : Loaded(l, at)[p][Address(p, s)] \in Row
               /\ \A i \in DOMAIN at : p \in CopiedTensors =>
                     Loaded(l, at)[p][Address(p, at[i])] = RowOf(host, l, p, i)
               /\ \A s \in Slots : s \notin Range(at) =>
                     Loaded(l, at)[p][Address(p, s)] = mem[l][p][Address(p, s)]
    <2> DEFINE f == Loaded(l, at)[p]
    <2>1. IsTensor(mem[l][p], p) /\ \A s \in Slots : mem[l][p][Address(p, s)] \in Row
      BY DEF MemOK
    <2>2. CASE p \notin CopiedTensors
      <3>1. f = mem[l][p]
        BY <2>2 DEF Loaded
      <3> QED
        BY <2>1, <2>2, <3>1
    <2>3. CASE p \in CopiedTensors
      <3>1. f = [a \in DOMAIN mem[l][p] |->
                   IF \E i \in DOMAIN at : Flat(at[i]) = a
                   THEN HostRow(l, p, CHOOSE i \in DOMAIN at : Flat(at[i]) = a)
                   ELSE mem[l][p][a]]
        BY <2>3 DEF Loaded
      <3>2. DOMAIN mem[l][p] = Addresses(p)
        BY <2>1 DEF IsTensor
      <3> HIDE DEF f
      <3>3. DOMAIN at = 1 .. LenOf(host) /\ \A i \in DOMAIN at : at[i] \in Slots
        BY SMTT(60)
      <3>4. ASSUME NEW i \in DOMAIN at PROVE f[Address(p, at[i])] = RowOf(host, l, p, i)
        <4>1. Address(p, at[i]) = Flat(at[i]) /\ Address(p, at[i]) \in Addresses(p)
          BY <1>2, <3>3, FlatAddress DEF Addresses
        <4>2. \A j \in DOMAIN at : Flat(at[j]) = Flat(at[i]) <=> j = i
          BY DEF Flat
        <4>3. (CHOOSE j \in DOMAIN at : Flat(at[j]) = Flat(at[i])) = i
          BY <4>2
        <4>4. f[Flat(at[i])] = HostRow(l, p, CHOOSE j \in DOMAIN at : Flat(at[j]) = Flat(at[i]))
          BY <3>1, <3>2, <4>1
        <4> QED
          BY <4>1, <4>3, <4>4 DEF HostRow, RowOf
      <3>5. ASSUME NEW s \in Slots, s \notin Range(at)
            PROVE  f[Address(p, s)] = mem[l][p][Address(p, s)]
        <4>1. Address(p, s) = Flat(s) /\ Address(p, s) \in Addresses(p)
          BY <1>2, FlatAddress DEF Addresses
        <4>2. \A i \in DOMAIN at : Flat(at[i]) # Flat(s)
          BY <3>5 DEF Flat, Range
        <4> QED
          BY <3>1, <3>2, <4>1, <4>2
      <3>6. \A s \in Slots : f[Address(p, s)] \in Row
        <4> TAKE s \in Slots
        <4>1. CASE s \in Range(at)
          <5>1. PICK i \in DOMAIN at : at[i] = s
            BY <4>1 DEF Range
          <5> QED
            BY <2>3, <3>3, <3>4, <5>1 DEF HostOK
        <4>2. CASE s \notin Range(at)
          BY <2>1, <3>5, <4>2
        <4> QED
          BY <4>1, <4>2
      <3>7. IsTensor(f, p)
        BY <3>1, <3>2 DEF IsTensor
      <3> QED
        BY <3>4, <3>5, <3>6, <3>7 DEF f
    <2> QED
      BY <2>2, <2>3
  <1> QED
    BY <1>1, <1>3

\* What the promise of a load says, slot by slot.
LoadedKv(k, cp, some, nat) ==
    [l \in 0 .. MaxLayers - 1 |->
        IF l \in some
        THEN [s \in 1 .. NumSlots |-> IF \E i \in DOMAIN nat : nat[i] = s
                                      THEN cp[l][CHOOSE i \in DOMAIN nat : nat[i] = s]
                                      ELSE k[l][s]]
        ELSE k[l]]

LEMMA PromisedLoad ==
    ASSUME c \in Configs, KvOK(kv), HostOK(host, copy), host # None,
           NEW at \in Seq(Slots), Len(at) = LenOf(host),
           \A i, j \in DOMAIN at : at[i] = at[j] => i = j, NEW some
    PROVE  /\ KvOK(LoadedKv(kv, copy, some, Counted(at)))
           /\ \A l \in Local, i \in DOMAIN at : l \in some =>
                 LoadedKv(kv, copy, some, Counted(at))[l][Nth(at[i])] = copy[l][i]
           /\ \A l \in Local, s \in Slots : l \notin some \/ s \notin Range(at) =>
                 LoadedKv(kv, copy, some, Counted(at))[l][Nth(s)] = kv[l][Nth(s)]
  <1> DEFINE nat == Counted(at)
             k2 == LoadedKv(kv, copy, some, nat)
  <1>1. Len(at) > 0 /\ DOMAIN at = 1 .. Len(at) /\ \A i \in DOMAIN at : at[i] \in Slots
    BY DEF HostOK
  <1>2. /\ DOMAIN nat = DOMAIN at
        /\ \A i \in DOMAIN at : nat[i] = Nth(at[i]) /\ nat[i] \in 1 .. c.slots
        /\ \A i, j \in DOMAIN at : nat[i] = nat[j] => i = j
    BY <1>1, StorePlaces
  <1>3. 1 .. c.slots \subseteq 1 .. NumSlots /\ Local \subseteq 0 .. MaxLayers - 1
    BY SlotFacts, LayerFacts
  <1>4. kv \in [0 .. MaxLayers - 1 -> [1 .. NumSlots -> Contents]]
    BY DEF KvOK
  <1>5. copy \in [0 .. MaxLayers - 1 -> [DOMAIN at -> Contents]]
    BY <1>1 DEF HostOK
  <1> HIDE DEF nat
  <1>6. k2 = [l \in 0 .. MaxLayers - 1 |->
                IF l \in some
                THEN [s \in 1 .. NumSlots |-> IF \E i \in DOMAIN nat : nat[i] = s
                                              THEN copy[l][CHOOSE i \in DOMAIN nat : nat[i] = s]
                                              ELSE kv[l][s]]
                ELSE kv[l]]
    BY DEF LoadedKv
  <1> HIDE DEF k2
  <1>7. ASSUME NEW l \in 0 .. MaxLayers - 1, NEW s \in 1 .. NumSlots
        PROVE  k2[l][s] = IF l \in some /\ \E i \in DOMAIN nat : nat[i] = s
                          THEN copy[l][CHOOSE i \in DOMAIN nat : nat[i] = s] ELSE kv[l][s]
    BY <1>6
  <1>8. \A i \in DOMAIN nat : (CHOOSE j \in DOMAIN nat : nat[j] = nat[i]) = i
    BY <1>2
  <1>9. ASSUME NEW l \in 0 .. MaxLayers - 1, NEW s \in 1 .. NumSlots
        PROVE  k2[l][s] \in {kv[l][s]} \cup {copy[l][i] : i \in DOMAIN at}
    <2>1. CASE \E i \in DOMAIN nat : nat[i] = s
      <3>1. (CHOOSE i \in DOMAIN nat : nat[i] = s) \in DOMAIN at
        BY <1>2, <2>1
      <3> QED
        BY <1>7, <3>1, ZenonT(60)
    <2>2. CASE ~\E i \in DOMAIN nat : nat[i] = s
      BY <1>7, <2>2
    <2> QED
      BY <2>1, <2>2
  <1>10. k2 \in [0 .. MaxLayers - 1 -> [1 .. NumSlots -> Contents]]
    <2>1. ASSUME NEW l \in 0 .. MaxLayers - 1, NEW s \in 1 .. NumSlots
          PROVE  k2[l][s] \in Contents
      <3>1. kv[l][s] \in Contents
        BY <1>4
      <3>2. \A i \in DOMAIN at : copy[l][i] \in Contents
        BY <1>5
      <3>3. k2[l][s] = kv[l][s] \/ \E i \in DOMAIN at : k2[l][s] = copy[l][i]
        BY <1>9
      <3> QED
        BY <3>1, <3>2, <3>3
    <2>2. \A l \in 0 .. MaxLayers - 1 : k2[l] = [s \in 1 .. NumSlots |-> k2[l][s]]
      BY <1>4, <1>6
    <2>3. k2 = [l \in 0 .. MaxLayers - 1 |-> k2[l]]
      BY <1>6
    <2> QED
      BY <2>1, <2>2, <2>3
  <1>11. ASSUME NEW l \in 0 .. MaxLayers - 1, NEW s \in 1 .. NumSlots, l \notin Local \/ s > c.slots
         PROVE  k2[l][s] = Zero
    <2>1. kv[l][s] = Zero
      BY <1>11 DEF KvOK
    <2>2. CASE l \notin Local
      <3>1. \A i \in DOMAIN at : copy[l][i] = Zero
        BY <1>1, <2>2 DEF HostOK
      <3> QED
        BY <1>9, <2>1, <3>1
    <2>3. CASE s > c.slots
      <3>1. ~\E i \in DOMAIN nat : nat[i] = s
        BY <1>2, <2>3, ConfigFacts, PoolAssumption, SMTT(60)
      <3> QED
        BY <1>7, <2>1, <3>1
    <2> QED
      BY <1>11, <2>2, <2>3
  <1>12. ASSUME NEW l \in Local, NEW i \in DOMAIN at, l \in some
         PROVE  k2[l][Nth(at[i])] = copy[l][i]
    <2>1. nat[i] \in 1 .. NumSlots /\ l \in 0 .. MaxLayers - 1 /\ i \in DOMAIN nat
      BY <1>2, <1>3
    <2>2. k2[l][nat[i]] = copy[l][CHOOSE j \in DOMAIN nat : nat[j] = nat[i]]
      BY <1>7, <1>12, <2>1
    <2> QED
      BY <1>2, <1>8, <2>1, <2>2
  <1>13. ASSUME NEW l \in Local, NEW s \in Slots, l \notin some \/ s \notin Range(at)
         PROVE  k2[l][Nth(s)] = kv[l][Nth(s)]
    <2>1. Nth(s) \in 1 .. NumSlots /\ l \in 0 .. MaxLayers - 1
      BY <1>3, SlotFacts
    <2>2. s \notin Range(at) => ~\E i \in DOMAIN nat : nat[i] = Nth(s)
      <3>1. \A i \in DOMAIN at : nat[i] = Nth(s) => at[i] = s
        BY <1>1, <1>2, SlotFacts
      <3> QED
        BY <1>2, <3>1 DEF Range
    <2> QED
      BY <1>7, <1>13, <2>1, <2>2
  <1> QED
    BY <1>10, <1>11, <1>12, <1>13 DEF KvOK, k2, nat


LEMMA LoadStep ==
    ASSUME BaseInv, NEW at \in Places(Owned), LoadCpuCopy(at)
    PROVE  BaseNext /\ Store!Next /\ (Complete /\ TrueInv => TrueNext)
  <1> DEFINE nat == Counted(at)
             all == 0 .. MaxLayers - 1
             m2 == [l \in Local |-> Loaded(l, at)]
             k2 == LoadedKv(kv, copy, all, nat)
  <1>1. c \in Configs /\ MemOK(mem) /\ KvOK(kv) /\ HostOK(host, copy)
    BY DEF BaseInv
  <1>2. /\ host # None /\ Len(at) = LenOf(host) /\ mem' = m2 /\ host' = None
        /\ c' = c /\ transfer' = transfer /\ dq' = dq /\ job' = job /\ size' = size
        /\ ~c.layerwise
    BY DEF LoadCpuCopy, HostLen, LenOf
  <1>3. transfer = None
    BY <1>2 DEF BaseInv, TransferOK
  <1>4. /\ at \in Seq(Slots) /\ DOMAIN at = 1 .. Len(at) /\ Len(at) > 0
        /\ \A i, j \in DOMAIN at : at[i] = at[j] => i = j
        /\ \A i \in DOMAIN at : at[i] \in Slots
    BY <1>1, PlacesFacts, PoolAssumption
  <1>5. /\ nat \in Store!Places /\ DOMAIN nat = 1 .. Len(at)
    BY <1>1, <1>4, StorePlaces
  <1>6. Store!Load(all, nat, TRUE)
    BY DEF LoadCpuCopy, Counted
  <1> HIDE DEF nat, m2
  <1>7. copy # None /\ copy' = None /\ kv' = k2
    BY <1>6 DEF Store!Load, Store!NoCopy, None, LoadedKv
  <1>8. Store!Next
    <2>1. \A l \in all : DOMAIN nat = DOMAIN copy[l]
      BY <1>1, <1>2, <1>5 DEF HostOK
    <2>2. copy # Store!NoCopy
      BY <1>7 DEF Store!NoCopy, None
    <2> QED
      BY <1>5, <1>6, <2>1, <2>2 DEF Store!Next
  <1>9. /\ KvOK(k2)
        /\ \A l \in Local, i \in DOMAIN at : l \in all => k2[l][Nth(at[i])] = copy[l][i]
        /\ \A l \in Local, s \in Slots : l \notin all \/ s \notin Range(at) =>
              k2[l][Nth(s)] = kv[l][Nth(s)]
    <2> HIDE DEF all
    <2>1. /\ KvOK(LoadedKv(kv, copy, all, Counted(at)))
          /\ \A l \in Local, i \in DOMAIN at : l \in all =>
                LoadedKv(kv, copy, all, Counted(at))[l][Nth(at[i])] = copy[l][i]
          /\ \A l \in Local, s \in Slots : l \notin all \/ s \notin Range(at) =>
                LoadedKv(kv, copy, all, Counted(at))[l][Nth(s)] = kv[l][Nth(s)]
      BY <1>1, <1>2, <1>4, PromisedLoad
    <2> QED
      BY <2>1, Zenon DEF nat, k2
  <1> HIDE DEF k2
  <1>10. Local \subseteq all
    BY <1>1, LayerFacts
  <1>11. ASSUME NEW l \in Local
         PROVE  /\ m2[l] = [p \in Tensors |-> m2[l][p]]
                /\ \A p \in Tensors :
                      /\ IsTensor(m2[l][p], p)
                      /\ \A s \in Slots : m2[l][p][Address(p, s)] \in Row
                      /\ \A i \in DOMAIN at : p \in CopiedTensors =>
                            m2[l][p][Address(p, at[i])] = RowOf(host, l, p, i)
                      /\ \A s \in Slots : s \notin Range(at) =>
                            m2[l][p][Address(p, s)] = mem[l][p][Address(p, s)]
    <2>1. m2[l] = Loaded(l, at)
      BY DEF m2
    <2> QED
      BY <1>1, <1>2, <1>4, <2>1, LoadedFacts
  <1>12. MemOK(m2)
    <2>1. m2 = [l \in Local |-> m2[l]]
      BY DEF m2
    <2>2. m2 = [l \in Local |-> [p \in Tensors |-> m2[l][p]]]
      BY <1>11, <2>1
    <2> QED
      BY <1>11, <2>2 DEF MemOK
  <1>13. BaseNext
    BY <1>2, <1>3, <1>7, <1>9, <1>12 DEF BaseNext, BaseInv, HostOK, TransferOK
  <1>14. ASSUME Complete, TrueInv PROVE CellsTrue(m2, k2)
    <2>1. SUFFICES ASSUME NEW l \in Local, NEW p \in Tensors, NEW s \in Slots
                   PROVE  m2[l][p][Address(p, s)] = Cell(l, k2[l][Nth(s)])
      BY DEF CellsTrue
    <2>2. p \in CopiedTensors
      BY <1>1, <1>2, <1>14, CompleteFacts DEF HostOK
    <2>3. CASE s \in Range(at)
      <3>1. PICK i \in DOMAIN at : at[i] = s
        BY <2>3 DEF Range
      <3>2. m2[l][p][Address(p, s)] = RowOf(host, l, p, i)
        BY <1>11, <2>2, <3>1
      <3>3. RowOf(host, l, p, i) = Cell(l, copy[l][i])
        <4>1. i \in 1 .. LenOf(host)
          BY <1>2, <1>4
        <4> QED
          BY <1>2, <1>14, <2>2, <4>1 DEF TrueInv, HostTrue
      <3> QED
        BY <1>9, <1>10, <3>1, <3>2, <3>3
    <2>4. CASE s \notin Range(at)
      <3>1. mem[l][p][Address(p, s)] = Cell(l, kv[l][Nth(s)])
        BY <1>14 DEF TrueInv, CellsTrue
      <3> QED
        BY <1>9, <1>11, <2>4, <3>1
    <2> QED
      BY <2>3, <2>4
  <1>15. Complete /\ TrueInv => TrueNext
    BY <1>2, <1>3, <1>7, <1>14 DEF TrueNext, HostTrue, LoadedTrue
  <1> QED
    BY <1>8, <1>13, <1>15

LEMMA BeginStep ==
    ASSUME BaseInv, NEW at \in Places(Owned), BeginTransfer(at)
    PROVE  BaseNext /\ kv' = kv /\ copy' = copy /\ (TrueInv => TrueNext)
  <1>1. c \in Configs
    BY DEF BaseInv
  <1>2. /\ host # None /\ c.layerwise /\ Len(at) = LenOf(host)
        /\ transfer' = [at |-> at, done |-> 0]
        /\ c' = c /\ mem' = mem /\ host' = host /\ dq' = dq /\ job' = job /\ size' = size
        /\ kv' = kv /\ copy' = copy
    BY DEF BeginTransfer, HostLen, LenOf
  <1>3. /\ at \in Seq(Slots)
        /\ \A i, j \in DOMAIN at : at[i] = at[j] => i = j
    BY <1>1, PlacesFacts
  <1>4. \A l \in Local : Global(l) \in Nat /\ Global(l) >= c.start /\ Global(l) <= c.full[Len(c.full)]
    BY <1>1, LayerFacts
  <1>5. c.start \in Nat /\ 0 \in Local
    BY <1>1, ConfigFacts, LayerFacts
  <1>6. c.full[Len(c.full)] \in Nat
    BY <1>1, ConfigFacts
  <1>7. TransferOK(transfer', host')
    <2> DEFINE t == [at |-> at, done |-> 0]
    <2>1. t.at = at /\ t.done = 0 /\ t \in [at : Seq(Slots), done : Nat]
      BY <1>3
    <2>2. c.start + 0 <= c.full[Len(c.full)]
      BY <1>4, <1>5, <1>6
    <2> HIDE DEF t
    <2>3. TransferOK(t, host)
      BY <1>2, <1>3, <2>1, <2>2 DEF TransferOK
    <2> QED
      BY <1>2, <2>3 DEF t
  <1>8. BaseNext
    BY <1>2, <1>7 DEF BaseNext, BaseInv
  <1>9. LoadedTrue(transfer', kv', copy')
    <2>1. transfer'.done = 0
      BY <1>2
    <2> QED
      BY <1>4, <1>5, <2>1 DEF LoadedTrue
  <1>10. TrueInv => TrueNext
    BY <1>2, <1>9 DEF TrueNext, TrueInv
  <1> QED
    BY <1>2, <1>8, <1>10


LEMMA TransferStep ==
    ASSUME BaseInv, TransferLayer
    PROVE  BaseNext /\ Store!Next /\ (Complete /\ TrueInv => TrueNext)
  <1> DEFINE at == transfer.at
             done == transfer.done
             g == c.start + transfer.done
             last == g = c.full[Len(c.full)]
             some == {l \in Local : Global(l) = g}
             nat == Counted(at)
             m2 == [l \in Local |-> IF l \in some THEN Loaded(l, at) ELSE mem[l]]
             k2 == LoadedKv(kv, copy, some, nat)
  <1>1. c \in Configs /\ MemOK(mem) /\ KvOK(kv) /\ HostOK(host, copy) /\ TransferOK(transfer, host)
    BY DEF BaseInv
  <1>2. /\ transfer # None
        /\ host' = (IF last THEN None ELSE host)
        /\ c' = c /\ dq' = dq /\ job' = job /\ size' = size
    BY DEF TransferLayer
  <1>3. transfer' = IF last THEN None ELSE [transfer EXCEPT !.done = @ + 1]
    BY DEF TransferLayer
  <1>4. Store!Load(some, nat, last)
    BY DEF TransferLayer, Counted
  <1>5. /\ host # None /\ c.layerwise /\ transfer \in [at : Seq(Slots), done : Nat]
        /\ at \in Seq(Slots) /\ done \in Nat /\ DOMAIN at = 1 .. Len(at)
        /\ Len(at) = LenOf(host) /\ Len(at) > 0
        /\ \A i, j \in DOMAIN at : at[i] = at[j] => i = j
        /\ \A i \in DOMAIN at : at[i] \in Slots
        /\ c.start + done <= c.full[Len(c.full)]
    BY <1>1, <1>2 DEF TransferOK, HostOK
  <1>6. mem' = m2
    <2>1. mem' = IF \E l \in Local : Global(l) = g
                 THEN [mem EXCEPT ![TransferId(g)] = Loaded(TransferId(g), at)]
                 ELSE mem
      BY DEF TransferLayer
    <2>2. mem = [l \in Local |-> mem[l]]
      BY <1>1 DEF MemOK
    <2> HIDE DEF g, at
    <2>3. CASE \E l \in Local : Global(l) = g
      <3>1. PICK l \in Local : Global(l) = g
        BY <2>3
      <3>2. TransferId(g) = l /\ \A k \in Local : Global(k) = g <=> k = l
        BY <1>1, <3>1, LayerFacts
      <3>3. mem' = [mem EXCEPT ![l] = Loaded(l, at)]
        BY <2>1, <2>3, <3>2
      <3> QED
        BY <2>2, <3>2, <3>3
    <2>4. CASE ~\E l \in Local : Global(l) = g
      BY <2>1, <2>2, <2>4
    <2> QED
      BY <2>3, <2>4
  <1>7. /\ nat \in Store!Places /\ DOMAIN nat = 1 .. Len(at)
    BY <1>1, <1>5, StorePlaces
  <1>8. c.start \in Nat /\ c.full[Len(c.full)] \in Nat
        /\ Local \subseteq 0 .. MaxLayers - 1
    BY <1>1, ConfigFacts, LayerFacts, SMTT(60)
  <1>9. \A l \in Local : Global(l) \in Nat
    BY <1>1, LayerFacts
  <1>10. g \in Nat /\ g = c.start + done /\ last \in BOOLEAN
    BY <1>5, <1>8
  <1>11. \A l \in Local : l \in some <=> Global(l) = g
    OBVIOUS
  <1> DEFINE t2 == [at |-> at, done |-> done + 1]
  <1>12. transfer' = IF last THEN None ELSE t2
    <2>1. [transfer EXCEPT !.done = @ + 1] = t2
      BY <1>5
    <2> QED
      BY <1>3, <2>1
  <1>13. t2.at = at /\ t2.done = done + 1 /\ t2 \in [at : Seq(Slots), done : Nat] /\ t2 # None
    <2>1. t2.at = at /\ t2.done = done + 1 /\ t2 \in [at : Seq(Slots), done : Nat]
      BY <1>5
    <2>2. "at" \in DOMAIN t2
      OBVIOUS
    <2> HIDE DEF t2
    <2>3. t2 # None
      BY <2>2 DEF None
    <2> QED
      BY <2>1, <2>3
  <1>14. \A l \in Local : m2[l] = IF l \in some THEN Loaded(l, at) ELSE mem[l]
    OBVIOUS
  <1>15. m2 = [l \in Local |-> m2[l]]
    OBVIOUS
  <1>16. some \subseteq Local
    OBVIOUS
  <1> HIDE DEF nat, m2, some, last, t2, g, at, done
  <1>17. copy # None /\ copy' = (IF last THEN None ELSE copy) /\ kv' = k2
    BY <1>4 DEF Store!Load, Store!NoCopy, None, LoadedKv
  <1>18. Store!Next
    <2>1. \A l \in 0 .. MaxLayers - 1 : DOMAIN nat = DOMAIN copy[l]
      BY <1>1, <1>5, <1>7 DEF HostOK
    <2>2. copy # Store!NoCopy
      BY <1>17 DEF Store!NoCopy, None
    <2>3. some \in SUBSET (0 .. MaxLayers - 1)
      BY <1>8, <1>16
    <2> QED
      BY <1>4, <1>7, <1>10, <2>1, <2>2, <2>3 DEF Store!Next
  <1>19. /\ KvOK(k2)
         /\ \A l \in Local, i \in DOMAIN at : l \in some => k2[l][Nth(at[i])] = copy[l][i]
         /\ \A l \in Local, s \in Slots : l \notin some \/ s \notin Range(at) =>
               k2[l][Nth(s)] = kv[l][Nth(s)]
    <2>1. /\ KvOK(LoadedKv(kv, copy, some, Counted(at)))
          /\ \A l \in Local, i \in DOMAIN at : l \in some =>
                LoadedKv(kv, copy, some, Counted(at))[l][Nth(at[i])] = copy[l][i]
          /\ \A l \in Local, s \in Slots : l \notin some \/ s \notin Range(at) =>
                LoadedKv(kv, copy, some, Counted(at))[l][Nth(s)] = kv[l][Nth(s)]
      BY <1>1, <1>5, PromisedLoad, SMTT(60)
    <2> QED
      BY <2>1, Zenon DEF nat, k2
  <1> HIDE DEF k2
  <1>20. ASSUME NEW l \in Local
         PROVE  /\ m2[l] = [p \in Tensors |-> m2[l][p]]
                /\ \A p \in Tensors :
                      /\ IsTensor(m2[l][p], p)
                      /\ \A s \in Slots : m2[l][p][Address(p, s)] \in Row
                      /\ \A i \in DOMAIN at : p \in CopiedTensors /\ l \in some =>
                            m2[l][p][Address(p, at[i])] = RowOf(host, l, p, i)
                      /\ \A s \in Slots : l \notin some \/ s \notin Range(at) =>
                            m2[l][p][Address(p, s)] = mem[l][p][Address(p, s)]
    <2>1. CASE l \in some
      <3>1. m2[l] = Loaded(l, at)
        BY <1>14, <2>1
      <3>2. /\ Loaded(l, at) = [p \in Tensors |-> Loaded(l, at)[p]]
            /\ \A p \in Tensors :
                  /\ IsTensor(Loaded(l, at)[p], p)
                  /\ \A s \in Slots : Loaded(l, at)[p][Address(p, s)] \in Row
                  /\ \A i \in DOMAIN at : p \in CopiedTensors =>
                        Loaded(l, at)[p][Address(p, at[i])] = RowOf(host, l, p, i)
                  /\ \A s \in Slots : s \notin Range(at) =>
                        Loaded(l, at)[p][Address(p, s)] = mem[l][p][Address(p, s)]
        BY <1>1, <1>5, LoadedFacts
      <3> QED
        BY <2>1, <3>1, <3>2
    <2>2. CASE l \notin some
      <3>1. m2[l] = mem[l]
        BY <1>14, <2>2
      <3>2. mem[l] = [p \in Tensors |-> mem[l][p]]
        BY <1>1 DEF MemOK
      <3>3. \A p \in Tensors : IsTensor(mem[l][p], p)
                /\ \A s \in Slots : mem[l][p][Address(p, s)] \in Row
        BY <1>1 DEF MemOK
      <3> QED
        BY <2>2, <3>1, <3>2, <3>3
    <2> QED
      BY <2>1, <2>2
  <1>21. MemOK(m2)
    <2>1. m2 = [l \in Local |-> [p \in Tensors |-> m2[l][p]]]
      BY <1>15, <1>20
    <2> QED
      BY <1>20, <2>1 DEF MemOK
  <1>22. TransferOK(transfer', host')
    <2>1. CASE last
      BY <1>12, <2>1 DEF TransferOK
    <2>2. CASE ~last
      <3>1. transfer' = t2 /\ host' = host
        BY <1>2, <1>12, <2>2
      <3>2. g # c.full[Len(c.full)]
        BY <2>2 DEF last
      <3>3. c.start + t2.done <= c.full[Len(c.full)]
        BY <1>5, <1>8, <1>10, <1>13, <3>2, SMTT(60)
      <3> QED
        BY <1>5, <1>13, <3>1, <3>3 DEF TransferOK
    <2> QED
      BY <1>10, <2>1, <2>2
  <1>23. HostOK(host', copy')
    BY <1>1, <1>2, <1>10, <1>17 DEF HostOK
  <1>24. BaseNext
    BY <1>2, <1>6, <1>17, <1>19, <1>21, <1>22, <1>23 DEF BaseNext, BaseInv
  <1>25. ASSUME Complete, TrueInv PROVE CellsTrue(m2, k2)
    <2>1. SUFFICES ASSUME NEW l \in Local, NEW p \in Tensors, NEW s \in Slots
                   PROVE  m2[l][p][Address(p, s)] = Cell(l, k2[l][Nth(s)])
      BY DEF CellsTrue
    <2>2. p \in CopiedTensors
      BY <1>1, <1>5, <1>25, CompleteFacts DEF HostOK
    <2>3. CASE l \in some /\ s \in Range(at)
      <3>1. PICK i \in DOMAIN at : at[i] = s
        BY <2>3 DEF Range
      <3>2. m2[l][p][Address(p, s)] = RowOf(host, l, p, i)
        BY <1>20, <2>2, <2>3, <3>1
      <3>3. RowOf(host, l, p, i) = Cell(l, copy[l][i])
        <4>1. i \in 1 .. LenOf(host)
          BY <1>5
        <4> QED
          BY <1>5, <1>25, <2>2, <4>1 DEF TrueInv, HostTrue
      <3> QED
        BY <1>19, <2>3, <3>1, <3>2, <3>3
    <2>4. CASE l \notin some \/ s \notin Range(at)
      <3>1. mem[l][p][Address(p, s)] = Cell(l, kv[l][Nth(s)])
        BY <1>25 DEF TrueInv, CellsTrue
      <3> QED
        BY <1>19, <1>20, <2>4, <3>1
    <2> QED
      BY <2>3, <2>4
  <1>26. ASSUME Complete, TrueInv PROVE HostTrue(host', copy')
    BY <1>2, <1>10, <1>17, <1>26 DEF TrueInv, HostTrue
  <1>27. ASSUME TrueInv PROVE LoadedTrue(transfer', k2, copy')
    <2>1. CASE last
      BY <1>12, <2>1 DEF LoadedTrue
    <2>2. CASE ~last
      <3>1. transfer' = t2 /\ copy' = copy
        BY <1>12, <1>17, <2>2
      <3>2. SUFFICES ASSUME NEW l \in Local, Global(l) < c.start + (done + 1), NEW i \in DOMAIN at
                     PROVE  k2[l][Nth(at[i])] = copy[l][i]
        BY <1>13, <3>1 DEF LoadedTrue
      <3>3. CASE l \in some
        BY <1>19, <3>3
      <3>4. CASE l \notin some
        <4>1. Global(l) # g
          BY <1>11, <3>4
        <4>2. Global(l) < c.start + done
          BY <1>5, <1>8, <1>9, <1>10, <3>2, <4>1, SMTT(60)
        <4>3. kv[l][Nth(at[i])] = copy[l][i]
          BY <1>2, <1>27, <4>2 DEF TrueInv, LoadedTrue, at, done
        <4> QED
          BY <1>5, <1>19, <3>4, <4>3
      <3> QED
        BY <3>3, <3>4
    <2> QED
      BY <1>10, <2>1, <2>2
  <1>28. Complete /\ TrueInv => TrueNext
    BY <1>6, <1>17, <1>25, <1>26, <1>27 DEF TrueNext
  <1> QED
    BY <1>18, <1>24, <1>28


----------------------------------------------------------------------------
(* Workspace and backing                                                   *)

\* A size cut into pages and rounded up to whole ones.
LEMMA Aligned ==
    ASSUME c \in Configs, NEW n \in Nat
    PROVE  AlignUp(n) \in Nat /\ AlignUp(n) >= n /\ AlignUp(n) % c.page = 0
  <1> DEFINE d == c.page
             k == (n + d - 1) \div d
  <1>1. d \in Nat \ {0}
    BY ConfigFacts
  <1>2. k \in Nat /\ d * k \in Nat /\ n <= d * k
    BY <1>1, CeilDiv
  <1>3. AlignUp(n) = k * d
    BY DEF AlignUp
  <1> HIDE DEF d, k
  <1>4. k * d = d * k + 0 /\ 0 \in 0 .. d - 1
    BY <1>1, <1>2, SMT
  <1>5. (d * k + 0) % d = 0
    BY <1>1, <1>2, <1>4, DivModUnique
  <1> QED
    BY <1>2, <1>3, <1>4, <1>5 DEF d

LEMMA SizeFacts ==
    ASSUME c \in Configs
    PROVE  ReservedSize \in Nat /\ ReservedSize >= c.slots /\ c.slots \in Nat \ {0}
  <1>1. c.slots \in Nat \ {0}
    BY ConfigFacts, PoolAssumption, SMTT(60)
  <1> QED
    BY <1>1, Aligned DEF ReservedSize

\* The workspace before the first request of a batch.
NoneTaken == [rows |-> EmptyWorkspace, starts |-> <<>>, taken |-> 0, next |-> c.page]

\* A batch of two requests is laid out one after the other.
LEMMA ExtendedPair ==
    ASSUME NEW l, NEW r1, NEW r2, NEW cur, NEW ragged
    PROVE  Extended(l, <<r1, r2>>, cur, ragged)[Len(<<r1, r2>>)]
             = ExtendRequest(l, cur, ragged, ExtendRequest(l, cur, ragged, NoneTaken, r1), r2)
  <1> DEFINE batch == <<r1, r2>>
             one == ExtendRequest(l, cur, ragged, NoneTaken, r1)
             two == ExtendRequest(l, cur, ragged, one, r2)
             Step(g) == [i \in 0 .. 2 |-> IF i = 0 THEN NoneTaken
                                          ELSE ExtendRequest(l, cur, ragged, g[i - 1], batch[i])]
             G == [i \in 0 .. 2 |-> IF i = 0 THEN NoneTaken ELSE IF i = 1 THEN one ELSE two]
             H == Extended(l, batch, cur, ragged)
  <1>1. Len(batch) = 2 /\ batch[1] = r1 /\ batch[2] = r2
    OBVIOUS
  <1>2. G[0] = NoneTaken /\ G[1] = one /\ G[2] = two
    OBVIOUS
  <1>3. H = CHOOSE g : g = Step(g)
    BY <1>1 DEF Extended, NoneTaken
  <1> HIDE DEF batch, one, two, H
  <1>4. G = Step(G)
    <2>1. \A i \in 0 .. 2 : G[i] = IF i = 0 THEN NoneTaken
                                   ELSE ExtendRequest(l, cur, ragged, G[i - 1], batch[i])
      <3> TAKE i \in 0 .. 2
      <3>1. i = 0 \/ i = 1 \/ i = 2
        OBVIOUS
      <3> HIDE DEF G
      <3>2. 1 - 1 = 0 /\ 2 - 1 = 1
        OBVIOUS
      <3> QED
        BY <1>1, <1>2, <3>1, <3>2 DEF one, two
    <2>2. G = [i \in 0 .. 2 |-> G[i]]
      OBVIOUS
    <2> HIDE DEF G
    <2> QED
      BY <2>1, <2>2
  <1>5. H = Step(H)
    <2> HIDE DEF G, Step
    <2> QED
      BY <1>3, <1>4
  <1>6. \A i \in 0 .. 2 : H[i] = IF i = 0 THEN NoneTaken
                                 ELSE ExtendRequest(l, cur, ragged, H[i - 1], batch[i])
    BY <1>5
  <1> HIDE DEF G, Step
  <1>7. H[0] = NoneTaken
    BY <1>6
  <1>8. H[1] = one
    <2>1. 1 \in 0 .. 2 /\ 1 # 0 /\ 1 - 1 = 0
      OBVIOUS
    <2>2. H[1] = ExtendRequest(l, cur, ragged, H[0], batch[1])
      BY <1>6, <2>1
    <2> QED
      BY <1>1, <1>7, <2>2 DEF one
  <1>9. H[2] = two
    <2>1. 2 \in 0 .. 2 /\ 2 # 0 /\ 2 - 1 = 1
      OBVIOUS
    <2>2. H[2] = ExtendRequest(l, cur, ragged, H[1], batch[2])
      BY <1>6, <2>1
    <2> QED
      BY <1>1, <1>8, <2>2 DEF two
  <1> QED
    BY <1>1, <1>9 DEF H, batch, one, two

\* Its requests never enlarge the workspace.
LEMMA ExtendRows ==
    ASSUME NEW l, NEW r1, NEW r2, NEW cur, NEW ragged
    PROVE  LET done == Extended(l, <<r1, r2>>, cur, ragged)[Len(<<r1, r2>>)]
           IN  DOMAIN done.rows = 0 .. DqSize - 1
  <1> DEFINE one == ExtendRequest(l, cur, ragged, NoneTaken, r1)
             two == ExtendRequest(l, cur, ragged, one, r2)
  <1>1. DOMAIN NoneTaken.rows = 0 .. DqSize - 1
    BY DEF NoneTaken, EmptyWorkspace
  <1>2. ASSUME NEW acc, NEW r
        PROVE  LET after == ExtendRequest(l, cur, ragged, acc, r)
               IN  DOMAIN after.rows = DOMAIN acc.rows
    BY DEF ExtendRequest
  <1>3. DOMAIN two.rows = 0 .. DqSize - 1
    BY <1>1, <1>2
  <1> QED
    BY <1>3, ExtendedPair

\* What the calls of the workspace leave alone.
Quiet == UNCHANGED <<c, mem, host, transfer, kv, copy>>

LEMMA ExtendQuiet ==
    ASSUME Extend, DqSize \in Nat \ {0}
    PROVE  Quiet /\ size' = size /\ backed' = backed /\ dq' # None /\ job' # None
  <1>1. PICK l \in Local, a, b \in 0 .. 2, n, m \in 0 .. 1, ragged \in BOOLEAN,
             at \in {at \in Places(Owned) : Len(at) = 2} :
          \E cur \in [1 .. n + m -> Tokens] :
            PrepareDequantExtend(l, <<[prefix |-> SubSeq(at, 1, a), extend |-> n],
                                      [prefix |-> SubSeq(at, 1, b), extend |-> m]>>,
                                 cur, ragged)
    BY DEF Extend
  <1> DEFINE r1 == [prefix |-> SubSeq(at, 1, a), extend |-> n]
             r2 == [prefix |-> SubSeq(at, 1, b), extend |-> m]
  <1>2. PICK cur \in [1 .. n + m -> Tokens] : PrepareDequantExtend(l, <<r1, r2>>, cur, ragged)
    BY <1>1
  <1> DEFINE done == Extended(l, <<r1, r2>>, cur, ragged)[Len(<<r1, r2>>)]
  <1> HIDE DEF r1, r2
  <1>3. Quiet /\ size' = size /\ backed' = backed /\ dq' = done.rows
    BY <1>2 DEF PrepareDequantExtend, Quiet
  <1>4. DOMAIN dq' = 0 .. DqSize - 1
    BY <1>3, ExtendRows
  <1>5. "op" \in DOMAIN job'
    <2> HIDE DEF done
    <2>1. job' = [op |-> "extend", layer |-> l, batch |-> <<r1, r2>>, cur |-> cur,
                  ragged |-> ragged, starts |-> done.starts]
      BY <1>2 DEF PrepareDequantExtend, done
    <2> QED
      BY <2>1
  <1>6. 0 \in DOMAIN dq'
    BY <1>4
  <1> QED
    BY <1>3, <1>5, <1>6 DEF None

LEMMA DecodeQuiet ==
    ASSUME Decode, DqSize \in Nat \ {0}
    PROVE  Quiet /\ size' = size /\ backed' = backed /\ dq' # None /\ job' # None
  <1>1. PICK l \in Local, at \in Places(Owned) : PrepareDequantDecode(l, <<at, <<>>>>)
    BY DEF Decode
  <1>2. Quiet /\ size' = size /\ backed' = backed
    BY <1>1 DEF PrepareDequantDecode, Quiet
  <1>3. 0 \in DOMAIN dq'
    BY <1>1 DEF PrepareDequantDecode
  <1>4. "op" \in DOMAIN job'
    BY <1>1 DEF PrepareDequantDecode
  <1> QED
    BY <1>2, <1>3, <1>4 DEF None

LEMMA QuietStep ==
    ASSUME BaseInv, Attend \/ Extend \/ Decode \/ Finalize
    PROVE  BaseNext /\ kv' = kv /\ copy' = copy /\ (TrueInv => TrueNext)
  <1>1. c \in Configs /\ DqSize \in Nat \ {0}
    BY PoolAssumption DEF BaseInv
  <1>2. Quiet /\ (dq' = None) = (job' = None) /\ size' \in 1 .. ReservedSize
    <2>1. CASE Attend
      BY <2>1 DEF Attend, BaseInv, Quiet
    <2>2. CASE Extend
      BY <1>1, <2>2, ExtendQuiet DEF BaseInv
    <2>3. CASE Decode
      BY <1>1, <2>3, DecodeQuiet DEF BaseInv
    <2>4. CASE Finalize
      <3>1. PICK n \in 1 .. c.slots : FinalizeBacking(n)
        BY <2>4 DEF Finalize
      <3>2. size' = n /\ n <= ReservedSize /\ Quiet /\ dq' = dq /\ job' = job
        BY <3>1 DEF FinalizeBacking, Quiet
      <3> QED
        BY <1>1, <3>1, <3>2, SizeFacts DEF BaseInv
    <2> QED
      BY <2>1, <2>2, <2>3, <2>4
  <1>3. c' = c /\ mem' = mem /\ host' = host /\ transfer' = transfer /\ kv' = kv /\ copy' = copy
    BY <1>2 DEF Quiet
  <1>4. BaseNext
    BY <1>2, <1>3 DEF BaseNext, BaseInv
  <1> QED
    BY <1>3, <1>4 DEF TrueNext, TrueInv


----------------------------------------------------------------------------
(* Every step                                                              *)

LEMMA SetPrefixStep ==
    ASSUME BaseInv, SetPrefix
    PROVE  BaseNext /\ Store!Next /\ (Complete /\ TrueInv => TrueNext)
  <1>1. c \in Configs
    BY DEF BaseInv
  <1>2. PICK l \in Local, loc \in Places(Owned), split \in BOOLEAN, tok \in Tokens :
           LET loc2d == IF split THEN [i \in DOMAIN loc |-> <<loc[i]>>] ELSE <<loc>>
           IN  \E lens \in [DOMAIN loc2d -> 0 .. Len(loc2d[1])] :
                 SetKvBufferPrefixValid(Global(l), loc2d, tok, lens)
    BY DEF SetPrefix
  <1> DEFINE loc2d == IF split THEN [i \in DOMAIN loc |-> <<loc[i]>>] ELSE <<loc>>
             W == Len(loc2d[1])
  <1>3. PICK lens \in [DOMAIN loc2d -> 0 .. W] : SetKvBufferPrefixValid(Global(l), loc2d, tok, lens)
    BY <1>2
  <1>4. /\ loc \in Seq(Slots) /\ Len(loc) \in Nat /\ Len(loc) >= 1 /\ DOMAIN loc = 1 .. Len(loc)
        /\ \A i \in DOMAIN loc : loc[i] \in Owned /\ loc[i] \in Slots
    BY <1>1, PlacesFacts, PoolAssumption
  <1>5. W \in Nat /\ DOMAIN loc2d = 1 .. Len(loc2d)
        /\ \A b \in DOMAIN loc2d, i \in 1 .. W : loc2d[b][i] \in Owned
    <2>1. CASE split
      <3> DEFINE two == [i \in 1 .. Len(loc) |-> <<loc[i]>>]
      <3>1. loc2d = two
        BY <1>4, <2>1
      <3>2. two \in Seq(Seq(Slots)) /\ DOMAIN two = 1 .. Len(loc)
        BY <1>4
      <3>3. two[1] = <<loc[1]>> /\ \A b \in 1 .. Len(loc) : two[b] = <<loc[b]>>
        BY <1>4
      <3> HIDE DEF two, loc2d
      <3>4. Len(two) \in Nat /\ DOMAIN two = 1 .. Len(two)
        BY <3>2, LenProperties
      <3>5. Len(two[1]) = 1
        BY <3>3
      <3>6. \A b \in DOMAIN two, i \in 1 .. 1 : two[b][i] = loc[b]
        BY <3>2, <3>3
      <3>7. \A b \in DOMAIN two, i \in 1 .. 1 : two[b][i] \in Owned
        BY <1>4, <3>2, <3>6
      <3> QED
        BY <3>1, <3>4, <3>5, <3>7
    <2>2. CASE ~split
      <3>1. loc2d = <<loc>>
        BY <2>2
      <3> HIDE DEF loc2d
      <3>2. Len(loc2d) = 1 /\ loc2d[1] = loc /\ DOMAIN loc2d = 1 .. 1
        BY <3>1
      <3> QED
        BY <1>4, <3>2
    <2> QED
      BY <2>1, <2>2
  <1> HIDE DEF loc2d, W
  <1>6. Len(loc2d[1]) = W
    BY DEF W
  <1> QED
    BY <1>3, <1>5, <1>6, PrefixStep

\* What every step does to the pool and to the promise.
LEMMA KvStep ==
    ASSUME BaseInv, [Next]_vars
    PROVE  /\ BaseNext
           /\ Store!Next \/ UNCHANGED <<kv, copy>>
           /\ Complete /\ TrueInv => TrueNext
  <1>1. CASE Attend \/ Extend \/ Decode \/ Finalize
    BY <1>1, QuietStep
  <1>2. CASE Set
    <2>1. PICK g \in {Global(l) : l \in Local}, loc \in Places(Owned), given \in {"none", "host"} :
             \E toks \in [DOMAIN loc -> Tokens], mask \in SUBSET DOMAIN loc :
                SetKvBuffer(g, loc, toks, mask, given)
      BY <1>2 DEF Set
    <2>2. PICK l \in Local : g = Global(l)
      OBVIOUS
    <2> QED
      BY <2>1, <2>2, SetStep
  <1>3. CASE SetPrefix
    BY <1>3, SetPrefixStep
  <1>4. CASE Move
    BY <1>4, MoveStep DEF Move
  <1>5. CASE Offload
    BY <1>5, OffloadStep DEF Offload
  <1>6. CASE Load
    BY <1>6, LoadStep DEF Load
  <1>7. CASE \E at \in Places(Owned) : BeginTransfer(at)
    BY <1>7, BeginStep
  <1>8. CASE TransferLayer
    BY <1>8, TransferStep
  <1>9. CASE UNCHANGED vars
    BY <1>9 DEF vars, pool, BaseInv, BaseNext, TrueInv, TrueNext
  <1> QED
    BY <1>1, <1>2, <1>3, <1>4, <1>5, <1>6, <1>7, <1>8, <1>9 DEF Next, Transfer

\* The geometry is fixed with the pool.
LEMMA SameGeometry ==
    ASSUME c' = c
    PROVE  /\ Local' = Local /\ Tensors' = Tensors /\ Slots' = Slots
           /\ CopiedTensors' = CopiedTensors /\ CanOffload' = CanOffload
           /\ ReservedSize' = ReservedSize /\ Row' = Row
           /\ \A l : Global(l)' = Global(l) /\ ScaleOf(l)' = ScaleOf(l)
           /\ \A s : Nth(s)' = Nth(s)
           /\ \A p, s : Address(p, s)' = Address(p, s)
  BY DEF Local, Tensors, Slots, CopiedTensors, CanOffload, ReservedSize, Row, Global, ScaleOf, Nth,
         Address, AlignUp, Contents, MhaTensors, QuantTensors, Fp4Tensors, Mxfp8Tensors, MlaTensors,
         MlaFp4Tensors, DsaTensors, MiniMaxTensors, IndexTensors, MhaCopied, MlaCopied, DsaCopied,
         Paged, SfStored, SfInterleaved, SfChunk, Flat, Scales

LEMMA BaseNextInv ==
    ASSUME BaseInv, BaseNext
    PROVE  BaseInv'
  <1>1. c' = c /\ c \in Configs
    BY DEF BaseInv, BaseNext
  <1>2. MemOK(mem)'
    BY <1>1, SameGeometry DEF BaseNext, MemOK, IsTensor, Addresses
  <1>3. KvOK(kv)'
    BY <1>1, SameGeometry DEF BaseNext, KvOK, Contents
  <1>4. HostOK(host, copy)'
    BY <1>1, SameGeometry DEF BaseNext, HostOK, LenOf, RowOf, Contents
  <1>5. TransferOK(transfer, host)'
    BY <1>1, SameGeometry DEF BaseNext, TransferOK, LenOf
  <1> QED
    BY <1>1, <1>2, <1>3, <1>4, <1>5, SameGeometry DEF BaseInv, BaseNext

LEMMA TrueNextInv ==
    ASSUME BaseInv, BaseNext, TrueNext
    PROVE  TrueInv'
  <1>1. c' = c
    BY DEF BaseNext
  <1>2. CellsTrue(mem, kv)'
    BY <1>1, SameGeometry DEF TrueNext, CellsTrue, Cell
  <1>3. HostTrue(host, copy)'
    <2>1. \A l, t : Cell(l, t)' = Cell(l, t)
      BY <1>1, SameGeometry DEF Cell
    <2>2. Local' = Local /\ CopiedTensors' = CopiedTensors
      BY <1>1, SameGeometry
    <2> QED
      BY <2>1, <2>2, ZenonT(60) DEF TrueNext, HostTrue, LenOf, RowOf
  <1>4. LoadedTrue(transfer, kv, copy)'
    BY <1>1, SameGeometry DEF TrueNext, LoadedTrue
  <1> QED
    BY <1>2, <1>3, <1>4 DEF TrueInv


LEMMA KvInit ==
    ASSUME Init
    PROVE  BaseInv /\ TrueInv
  <1>1. c \in Configs /\ host = None /\ transfer = None /\ dq = None /\ job = None
    BY DEF Init
  <1>2. mem = [l \in Local |-> [p \in Tensors |-> [a \in Addresses(p) |-> <<Zero, Unit>>]]]
    BY DEF Init, Addresses
  <1>3. kv = [l \in 0 .. MaxLayers - 1 |-> [s \in 1 .. NumSlots |-> Zero]] /\ copy = None
    BY DEF Init, Store!Init, Store!NoCopy, None
  <1>4. Local \subseteq 0 .. MaxLayers - 1 /\ 1 .. c.slots \subseteq 1 .. NumSlots
    BY <1>1, LayerFacts, SlotFacts
  <1>5. \A p \in Tensors, s \in Slots : Address(p, s) \in Addresses(p)
    BY DEF Addresses
  <1>6. \A l \in Local, p \in Tensors, s \in Slots : mem[l][p][Address(p, s)] = <<Zero, Unit>>
    BY <1>2, <1>5
  <1>7. MemOK(mem)
    <2>1. \A l \in Local, p \in Tensors : IsTensor(mem[l][p], p)
      BY <1>2 DEF IsTensor
    <2>2. <<Zero, Unit>> \in Row
      BY DEF Row, Contents
    <2>3. mem = [l \in Local |-> [p \in Tensors |-> mem[l][p]]]
      BY <1>2
    <2> QED
      BY <1>6, <2>1, <2>2, <2>3 DEF MemOK
  <1>8. KvOK(kv)
    BY <1>3 DEF KvOK, Contents
  <1>9. size \in 1 .. ReservedSize
    <2>1. size = ReservedSize
      BY DEF Init
    <2> QED
      BY <1>1, <2>1, SizeFacts
  <1>10. BaseInv
    BY <1>1, <1>3, <1>7, <1>8, <1>9 DEF BaseInv, HostOK, TransferOK
  <1>11. CellsTrue(mem, kv)
    <2>1. \A l \in Local, s \in Slots : kv[l][Nth(s)] = Zero
      BY <1>1, <1>3, <1>4, SlotFacts
    <2> QED
      BY <1>6, <2>1 DEF CellsTrue, Cell
  <1> QED
    BY <1>1, <1>10, <1>11 DEF TrueInv, HostTrue, LoadedTrue

\* Under the invariant the tensors of a slot agree on the token it was promised.
LEMMA HoldsPromised ==
    ASSUME BaseInv, TrueInv, NEW l \in Local, NEW s \in Slots
    PROVE  Holds(l, s) = kv[l][Nth(s)]
  <1> DEFINE rows == {mem[l][p][Address(p, s)] : p \in Tensors}
             r == Cell(l, kv[l][Nth(s)])
  <1>1. Tensors # {}
    BY StoredTensors DEF BaseInv
  <1>2. rows = {r}
    BY <1>1 DEF TrueInv, CellsTrue
  <1> HIDE DEF rows, r
  <1>3. Cardinality(rows) = 1 /\ (CHOOSE x \in rows : TRUE) = r
    BY <1>2, FS_Singleton
  <1>4. r[1] = kv[l][Nth(s)] /\ (r[1] = Zero \/ r[2] = ScaleOf(Global(l)))
    BY DEF r, Cell
  <1> QED
    BY <1>3, <1>4 DEF Holds, rows

\* And so do the tensors of the copy.
LEMMA CopiedPromised ==
    ASSUME BaseInv, TrueInv, host # None, NEW l \in Local, NEW i \in 1 .. LenOf(host)
    PROVE  Copied(l, i) = copy[l][i]
  <1> DEFINE rows == {HostRow(l, p, i) : p \in CopiedTensors}
             r == Cell(l, copy[l][i])
  <1>1. CopiedTensors # {}
    BY DEF BaseInv, HostOK, CanOffload
  <1>2. \A p \in CopiedTensors : HostRow(l, p, i) = r
    BY DEF TrueInv, HostTrue, HostRow, RowOf
  <1>3. rows = {r}
    BY <1>1, <1>2
  <1> HIDE DEF rows, r
  <1>4. Cardinality(rows) = 1 /\ (CHOOSE x \in rows : TRUE) = r
    BY <1>3, FS_Singleton
  <1>5. r[1] = copy[l][i]
    BY DEF r, Cell
  <1> QED
    BY <1>4, <1>5 DEF Copied, rows

----------------------------------------------------------------------------
(* Theorems                                                                *)

\* Whatever the class and its paths, no call leaves a row that is neither empty
\* nor a token with the scale of a stored layer, and the workspace is prepared
\* exactly while an attention call is due.
THEOREM KvTypeCorrect == Spec => []TypeOK
  <1>1. Init => BaseInv
    BY KvInit
  <1>2. BaseInv /\ [Next]_vars => BaseInv'
    BY KvStep, BaseNextInv
  <1>3. BaseInv => TypeOK
    <2> SUFFICES ASSUME BaseInv PROVE TypeOK
      OBVIOUS
    <2>1. ASSUME NEW l \in Local, NEW p \in Tensors, NEW a \in DOMAIN mem[l][p]
          PROVE  mem[l][p][a] \in Row
      <3>1. IsTensor(mem[l][p], p) /\ \A s \in Slots : mem[l][p][Address(p, s)] \in Row
        BY DEF BaseInv, MemOK
      <3>2. a \in Addresses(p)
        BY <2>1, <3>1 DEF IsTensor
      <3> QED
        BY <3>1, <3>2 DEF Addresses
    <2> QED
      BY <2>1 DEF BaseInv, TypeOK, Row, Contents
  <1> QED
    BY <1>1, <1>2, <1>3, PTL DEF Spec

\* The invariant of the pools whose classes name all their tensors.
LEMMA KvInvariant ==
    ASSUME Complete
    PROVE  Spec => [](BaseInv /\ TrueInv)
  <1>1. Init => BaseInv /\ TrueInv
    BY KvInit
  <1>2. BaseInv /\ TrueInv /\ [Next]_vars => (BaseInv /\ TrueInv)'
    BY KvStep, BaseNextInv, TrueNextInv
  <1> QED
    BY <1>1, <1>2, PTL DEF Spec

\* For every layout, page size, chunk size and set of stored layers: a slot
\* holds in every tensor what the calls so far promise, and so does a copy on
\* the host.
THEOREM KeepsPromiseAlways ==
    ASSUME Complete
    PROVE  Spec => []KeepsPromise
  <1>1. BaseInv /\ TrueInv => KeepsPromise
    <2> SUFFICES ASSUME BaseInv, TrueInv PROVE KeepsPromise
      OBVIOUS
    <2>1. \A l \in Local, s \in Slots : Holds(l, s) = kv[l][Nth(s)]
      BY HoldsPromised
    <2>2. host # None => \A l \in Local, i \in 1 .. LenOf(host) : Copied(l, i) = copy[l][i]
      BY CopiedPromised
    <2>3. HostLen = LenOf(host)
      BY DEF HostLen, LenOf
    <2> QED
      BY <2>1, <2>2, <2>3 DEF KeepsPromise
  <1>2. Spec => [](BaseInv /\ TrueInv)
    BY KvInvariant
  <1> QED
    BY <1>1, <1>2, PTL

\* A reader that passes the wait for a layer finds the copied slots of that
\* layer, however many layers of the stage keep none.
THEOREM TransferVisibleAlways ==
    ASSUME Complete
    PROVE  Spec => []TransferVisible
  <1>1. BaseInv /\ TrueInv => TransferVisible
    <2> SUFFICES ASSUME BaseInv, TrueInv, transfer # None, NEW l \in Local, MayRead(Global(l)),
                        NEW i \in DOMAIN transfer.at
                 PROVE  Holds(l, transfer.at[i]) = Copied(l, i)
      BY DEF TransferVisible
    <2>1. c \in Configs /\ TransferOK(transfer, host) /\ HostOK(host, copy)
      BY DEF BaseInv
    <2>2. /\ host # None /\ transfer.done \in Nat /\ i \in 1 .. LenOf(host)
          /\ transfer.at[i] \in Slots
      BY <2>1 DEF TransferOK
    <2>3. Global(l) < c.start + transfer.done
      <3>1. transfer.done > Global(l) - c.start
        BY DEF MayRead
      <3> QED
        BY <2>1, <2>2, <3>1, ConfigFacts, LayerFacts, SMTT(60)
    <2>4. kv[l][Nth(transfer.at[i])] = copy[l][i]
      BY <2>3 DEF TrueInv, LoadedTrue
    <2> QED
      BY <2>2, <2>4, HoldsPromised, CopiedPromised
  <1>2. Spec => [](BaseInv /\ TrueInv)
    BY KvInvariant
  <1> QED
    BY <1>1, <1>2, PTL


\* Seen through its tensors the pool is the promise.
LEMMA ViewPromised ==
    ASSUME BaseInv, TrueInv
    PROVE  View = kv /\ HostView = copy
  <1>1. c \in Configs /\ KvOK(kv) /\ HostOK(host, copy)
    BY DEF BaseInv
  <1>2. View = kv
    <2>1. ASSUME NEW l \in 0 .. MaxLayers - 1, NEW n \in 1 .. NumSlots
          PROVE  (IF l \in Local /\ n <= c.slots THEN Holds(l, c.page + n - 1) ELSE Zero) = kv[l][n]
      <3>1. CASE l \in Local /\ n <= c.slots
        <4>1. n \in 1 .. c.slots
          BY <1>1, <3>1, ConfigFacts, PoolAssumption
        <4>2. c.page + n - 1 \in Slots /\ Nth(c.page + n - 1) = n
          BY <1>1, <4>1, SlotFacts
        <4> QED
          BY <3>1, <4>2, HoldsPromised
      <3>2. CASE ~(l \in Local /\ n <= c.slots)
        <4>1. l \notin Local \/ n > c.slots
          BY <1>1, <3>2, ConfigFacts, PoolAssumption, SMTT(60)
        <4> QED
          BY <1>1, <3>2, <4>1 DEF KvOK
      <3> QED
        BY <3>1, <3>2
    <2>2. kv = [l \in 0 .. MaxLayers - 1 |-> [n \in 1 .. NumSlots |-> kv[l][n]]]
      BY <1>1 DEF KvOK
    <2>3. View = [l \in 0 .. MaxLayers - 1 |-> [n \in 1 .. NumSlots |->
                     IF l \in Local /\ n <= c.slots THEN Holds(l, c.page + n - 1) ELSE Zero]]
      BY DEF View
    <2> QED
      BY <2>1, <2>2, <2>3
  <1>3. CASE host = None
    BY <1>1, <1>2, <1>3 DEF HostView, HostOK
  <1>4. CASE host # None
    <2>1. HostLen = LenOf(host)
      BY DEF HostLen, LenOf
    <2>2. ASSUME NEW l \in 0 .. MaxLayers - 1, NEW i \in 1 .. LenOf(host)
          PROVE  (IF l \in Local THEN Copied(l, i) ELSE Zero) = copy[l][i]
      <3>1. CASE l \in Local
        BY <1>4, <3>1, CopiedPromised
      <3>2. CASE l \notin Local
        BY <1>1, <1>4, <3>2 DEF HostOK
      <3> QED
        BY <3>1, <3>2
    <2>3. copy = [l \in 0 .. MaxLayers - 1 |-> [i \in 1 .. LenOf(host) |-> copy[l][i]]]
      BY <1>1, <1>4 DEF HostOK
    <2>4. HostView = [l \in 0 .. MaxLayers - 1 |-> [i \in 1 .. LenOf(host) |->
                        IF l \in Local THEN Copied(l, i) ELSE Zero]]
      BY <1>4, <2>1 DEF HostView
    <2>5. HostView = copy
      BY <2>2, <2>3, <2>4
    <2> QED
      BY <1>2, <2>5
  <1> QED
    BY <1>3, <1>4

\* A step of the promise is a step of the pool seen through its tensors.
LEMMA SeenStep ==
    ASSUME View = kv, HostView = copy, View' = kv', HostView' = copy', Store!Next
    PROVE  Seen!Next
  <1>1. \A l, rows : Store!Write(l, rows) => Seen!Write(l, rows)
    BY DEF Store!Write, Seen!Write
  <1>2. \A from : Store!Move(from) => Seen!Move(from)
    BY DEF Store!Move, Seen!Move
  <1>3. \A at : Store!Offload(at) => Seen!Offload(at)
    BY DEF Store!Offload, Seen!Offload
  <1>4. \A some, at, last : Store!Load(some, at, last) => Seen!Load(some, at, last)
    BY DEF Store!Load, Seen!Load, Store!NoCopy, Seen!NoCopy
  <1>5. Store!Places = Seen!Places
    BY DEF Store!Places, Seen!Places, Store!Cardinality, Seen!Cardinality
  <1>6. Store!NoCopy = Seen!NoCopy
    BY DEF Store!NoCopy, Seen!NoCopy
  <1>7. CASE \E l \in 0 .. MaxLayers - 1, S \in SUBSET (1 .. NumSlots) :
                \E rows \in [S -> Tokens] : Store!Write(l, rows)
    BY <1>1, <1>7 DEF Seen!Next
  <1>8. CASE \E S \in SUBSET (1 .. NumSlots) : \E from \in [S -> 1 .. NumSlots] : Store!Move(from)
    BY <1>2, <1>8 DEF Seen!Next
  <1>9. CASE \E at \in Store!Places : Store!Offload(at)
    BY <1>3, <1>5, <1>9 DEF Seen!Next
  <1>10. CASE \E at \in {at \in Store!Places : copy # Store!NoCopy /\
                           \A l \in 0 .. MaxLayers - 1 : DOMAIN at = DOMAIN copy[l]} :
                \E some \in SUBSET (0 .. MaxLayers - 1), last \in BOOLEAN : Store!Load(some, at, last)
    <2>1. PICK at \in Store!Places, some \in SUBSET (0 .. MaxLayers - 1), last \in BOOLEAN :
             /\ copy # Store!NoCopy /\ \A l \in 0 .. MaxLayers - 1 : DOMAIN at = DOMAIN copy[l]
             /\ Store!Load(some, at, last)
      BY <1>10
    <2>2. at \in {x \in Seen!Places : HostView # Seen!NoCopy /\
                     \A l \in 0 .. MaxLayers - 1 : DOMAIN x = DOMAIN HostView[l]}
      BY <1>5, <1>6, <2>1
    <2>3. Seen!Load(some, at, last)
      BY <1>4, <2>1
    <2> QED
      BY <2>2, <2>3 DEF Seen!Next
  <1> QED
    BY <1>7, <1>8, <1>9, <1>10 DEF Store!Next

\* The tensors of a pool implement the promise: no step tears a slot, and each
\* is one operation of the store or none.
THEOREM ImplementsStoreAlways ==
    ASSUME Complete
    PROVE  Spec => ImplementsStore
  <1>1. Init => Seen!Init
    <2> SUFFICES ASSUME Init PROVE Seen!Init
      OBVIOUS
    <2>1. View = kv /\ HostView = copy
      BY KvInit, ViewPromised
    <2>2. Store!Init
      BY DEF Init
    <2> QED
      BY <2>1, <2>2 DEF Store!Init, Seen!Init, Store!NoCopy, Seen!NoCopy
  <1>2. BaseInv /\ TrueInv => View = kv /\ HostView = copy
    BY ViewPromised
  <1>3. /\ BaseInv /\ TrueInv /\ View = kv /\ HostView = copy
        /\ (BaseInv /\ TrueInv)' /\ (View = kv /\ HostView = copy)' /\ [Next]_vars
        => [Seen!Next]_<<View, HostView>>
    <2> SUFFICES ASSUME BaseInv, TrueInv, View = kv, HostView = copy,
                        View' = kv', HostView' = copy', [Next]_vars
                 PROVE  Seen!Next \/ UNCHANGED <<View, HostView>>
      OBVIOUS
    <2>1. Store!Next \/ UNCHANGED <<kv, copy>>
      BY KvStep
    <2>2. CASE Store!Next
      BY <2>2, SeenStep
    <2>3. CASE UNCHANGED <<kv, copy>>
      BY <2>3
    <2> QED
      BY <2>1, <2>2, <2>3
  <1>4. Spec => [](BaseInv /\ TrueInv)
    BY KvInvariant
  <1> QED
    BY <1>1, <1>2, <1>3, <1>4, PTL DEF Spec, ImplementsStore, Seen!Spec


----------------------------------------------------------------------------
(* The backing and the workspace under the base invariant                  *)

\* Backed rows are those of the capacity the finalizer settled on.
BackedInv == backed # 0 => backed = FinalSpan(size)

LEMMA SpanCovers ==
    ASSUME c \in Configs, NEW n \in Nat, NEW s \in 0 .. n + c.page - 1
    PROVE  s \div TokensPerRow < FinalSpan(n)
  <1> DEFINE d == TokensPerRow
             w == n + c.page
             k == (w + d - 1) \div d
             q == s \div d
  <1>1. c.page \in Nat \ {0} /\ d \in Nat \ {0}
    BY ConfigFacts DEF TokensPerRow
  <1>2. w \in Nat /\ s \in Nat /\ s < w
    BY <1>1
  <1>3. FinalSpan(n) = k
    BY DEF FinalSpan, DescRows
  <1> HIDE DEF d, w
  <1>4. k \in Nat /\ d * k \in Nat /\ w <= d * k
    BY <1>1, <1>2, CeilDiv
  <1>5. q \in Nat /\ (s % d) \in 0 .. d - 1 /\ s = d * q + (s % d)
    BY <1>1, <1>2, DivMod
  <1> HIDE DEF k, q
  <1>6. SUFFICES ASSUME q >= k PROVE FALSE
    BY <1>3, <1>4, <1>5 DEF q, d
  <1>7. d * q >= d * k /\ d * q \in Nat
    BY <1>1, <1>4, <1>5, <1>6, SMT
  <1>8. s % d >= 0 /\ s % d \in Int
    BY <1>1, <1>5
  <1> DEFINE r == s % d
             x == d * q
             y == d * k
  <1>9. s = x + r /\ r \in Int /\ r >= 0 /\ x >= y /\ x \in Nat /\ y \in Nat /\ w <= y
    BY <1>4, <1>5, <1>7, <1>8
  <1> HIDE DEF r, x, y
  <1> QED
    BY <1>2, <1>9

LEMMA BackedStep ==
    ASSUME BaseInv, BackedInv, [Next]_vars
    PROVE  BackedInv'
  <1>1. c' = c
    BY KvStep DEF BaseNext
  <1>2. \A n : FinalSpan(n)' = FinalSpan(n)
    BY <1>1 DEF FinalSpan, DescRows, TokensPerRow
  <1>3. DqSize \in Nat \ {0}
    BY PoolAssumption
  <1>4. CASE Finalize
    <2>1. PICK n \in 1 .. c.slots : FinalizeBacking(n)
      BY <1>4 DEF Finalize
    <2>2. backed' = FinalSpan(n) /\ size' = n
      BY <2>1 DEF FinalizeBacking
    <2> QED
      BY <1>1, <2>2 DEF BackedInv, FinalSpan, DescRows, TokensPerRow
  <1>5. CASE size' = size /\ backed' = backed
    BY <1>1, <1>5 DEF BackedInv, FinalSpan, DescRows, TokensPerRow
  <1>6. ~Finalize => size' = size /\ backed' = backed
    <2>1. CASE Attend
      BY <2>1 DEF Attend
    <2>2. CASE Extend
      BY <1>3, <2>2, ExtendQuiet
    <2>3. CASE Decode
      BY <1>3, <2>3, DecodeQuiet
    <2>4. CASE Set
      BY <2>4 DEF Set, SetKvBuffer
    <2>5. CASE SetPrefix
      BY <2>5 DEF SetPrefix, SetKvBufferPrefixValid
    <2>6. CASE Move
      BY <2>6 DEF Move, MoveKvCache
    <2>7. CASE Offload
      BY <2>7 DEF Offload, GetCpuCopy
    <2>8. CASE Load
      BY <2>8 DEF Load, LoadCpuCopy
    <2>9. CASE Transfer
      BY <2>9 DEF Transfer, BeginTransfer, TransferLayer
    <2>10. CASE UNCHANGED vars
      BY <2>10 DEF vars, pool
    <2> QED
      BY <2>1, <2>2, <2>3, <2>4, <2>5, <2>6, <2>7, <2>8, <2>9, <2>10 DEF Next
  <1> QED
    BY <1>4, <1>5, <1>6

\* Whatever size the finalizer settles on, whatever the page size, a slot that
\* may be written has physical memory behind its row.
THEOREM SlotsBackedAlways == Spec => []SlotsBacked
  <1>1. Init => BaseInv /\ BackedInv
    BY KvInit DEF Init, BackedInv
  <1>2. BaseInv /\ BackedInv /\ [Next]_vars => (BaseInv /\ BackedInv)'
    BY KvStep, BaseNextInv, BackedStep
  <1>3. BaseInv /\ BackedInv => SlotsBacked
    <2> SUFFICES ASSUME BaseInv, BackedInv, backed # 0, NEW s \in 0 .. size + c.page - 1
                 PROVE  s \div TokensPerRow < backed
      BY DEF SlotsBacked
    <2>1. c \in Configs /\ size \in Nat
      BY SizeFacts DEF BaseInv
    <2>2. backed = FinalSpan(size)
      BY DEF BackedInv
    <2>3. s \div TokensPerRow < FinalSpan(size)
      BY <2>1, SpanCovers, SMTT(60)
    <2> QED
      BY <2>2, <2>3
  <1> QED
    BY <1>1, <1>2, <1>3, PTL DEF Spec


\* What one request does to the workspace: its region starts where the last one
\* ended, holds its cached and then its current tokens, and ends on a page.
Laid(l, cur, acc, r, after, n, m) ==
    /\ m \in Nat /\ after.next \in Nat /\ after.next % c.page = 0
    /\ acc.next + n + m <= after.next
    /\ DOMAIN after.rows = 0 .. DqSize - 1
    /\ after.starts = Append(acc.starts, acc.next) /\ after.taken = acc.taken + m
    /\ \A k \in 1 .. n : after.rows[acc.next + k - 1] = Holds(l, r.prefix[k])
    /\ \A k \in 1 .. m : after.rows[acc.next + n + k - 1] = cur[acc.taken + k]
    /\ \A i \in 0 .. acc.next - 1 : after.rows[i] = acc.rows[i]

LEMMA ExtendOne ==
    ASSUME c \in Configs, DqSize \in Nat, NEW l, NEW cur, NEW ragged \in BOOLEAN,
           NEW acc, NEW r,
           DOMAIN acc.rows = 0 .. DqSize - 1, acc.next \in Nat, acc.taken \in Nat,
           Len(r.prefix) \in Nat, r.extend \in Nat,
           NEW after, after = ExtendRequest(l, cur, ragged, acc, r), after.next <= DqSize,
           NEW n, n = Len(r.prefix), NEW m, m = (IF ragged THEN 0 ELSE r.extend)
    PROVE  Laid(l, cur, acc, r, after, n, m)
  <1> DEFINE p == acc.next
  <1>1. m \in Nat /\ n \in Nat /\ p \in Nat
    OBVIOUS
  <1>2. /\ after.rows = [i \in DOMAIN acc.rows |->
                     IF i \in p .. p + n + m - 1
                     THEN IF i < p + n THEN Holds(l, r.prefix[i - p + 1])
                          ELSE cur[acc.taken + i - p - n + 1]
                     ELSE acc.rows[i]]
        /\ after.starts = Append(acc.starts, p) /\ after.taken = acc.taken + m
        /\ after.next = AlignUp(p + n + m)
    BY DEF ExtendRequest
  <1>3. after.next \in Nat /\ p + n + m <= after.next /\ after.next % c.page = 0
    <2>1. p + n + m \in Nat
      BY <1>1
    <2> QED
      BY <1>2, <2>1, Aligned
  <1> HIDE DEF p
  <1>4. \A i \in 0 .. DqSize - 1 : after.rows[i] =
                     IF i \in p .. p + n + m - 1
                     THEN IF i < p + n THEN Holds(l, r.prefix[i - p + 1])
                          ELSE cur[acc.taken + i - p - n + 1]
                     ELSE acc.rows[i]
    BY <1>2
  <1>5. ASSUME NEW k \in 1 .. n PROVE after.rows[p + k - 1] = Holds(l, r.prefix[k])
    <2> DEFINE i == p + k - 1
    <2>1. i \in 0 .. DqSize - 1 /\ i \in p .. p + n + m - 1 /\ i < p + n /\ i - p + 1 = k
      BY <1>1, <1>3, SMTT(60)
    <2> HIDE DEF i
    <2>2. after.rows[i] = Holds(l, r.prefix[i - p + 1])
      BY <1>4, <2>1
    <2> QED
      BY <2>1, <2>2 DEF i
  <1>6. ASSUME NEW k \in 1 .. m PROVE after.rows[p + n + k - 1] = cur[acc.taken + k]
    <2> DEFINE i == p + n + k - 1
    <2> DEFINE t == acc.taken
               e == after.next
    <2>3. t \in Nat /\ e \in Nat /\ p + n + m <= e /\ e <= DqSize /\ k \in 1 .. m
      BY <1>3
    <2> HIDE DEF t, e
    <2>4. i \in 0 .. DqSize - 1 /\ i \in p .. p + n + m - 1 /\ ~(i < p + n)
      BY <1>1, <2>3, SMTT(60)
    <2>5. t + i - p - n + 1 = t + k
      <3>1. i = p + n + (k - 1) /\ k \in Nat
        BY <2>3
      <3>2. p \in Nat /\ n \in Nat /\ t \in Nat
        BY <1>1, <2>3
      <3> HIDE DEF i
      <3> QED
        BY ONLY <3>1, <3>2, SMT
    <2>1. /\ i \in 0 .. DqSize - 1 /\ i \in p .. p + n + m - 1 /\ ~(i < p + n)
          /\ acc.taken + i - p - n + 1 = acc.taken + k
      BY <2>4, <2>5 DEF t
    <2> HIDE DEF i
    <2>2. after.rows[i] = cur[acc.taken + i - p - n + 1]
      BY <1>4, <2>1
    <2> QED
      BY <2>1, <2>2 DEF i
  <1>7. ASSUME NEW i \in 0 .. p - 1 PROVE after.rows[i] = acc.rows[i]
    <2>1. i \in 0 .. DqSize - 1 /\ i \notin p .. p + n + m - 1
      BY <1>1, <1>3
    <2> QED
      BY <1>4, <2>1
  <1> QED
    BY <1>1, <1>2, <1>3, <1>5, <1>6, <1>7 DEF p, Laid

\* Current tokens of the requests before the i-th of a batch.
TakenOf(batch, i) ==
    LET taken[k \in 1 .. i] == IF k = 1 THEN 0 ELSE taken[k - 1] + batch[k - 1].extend
    IN  taken[i]

LEMMA TakenPair ==
    ASSUME NEW batch, NEW e \in Nat, e = batch[1].extend
    PROVE  TakenOf(batch, 1) = 0 /\ TakenOf(batch, 2) = e
  <1>1. TakenOf(batch, 1) = 0
    <2> DEFINE Step(g) == [k \in 1 .. 1 |-> IF k = 1 THEN 0 ELSE g[k - 1] + batch[k - 1].extend]
               G == [k \in 1 .. 1 |-> 0]
               H == CHOOSE g : g = Step(g)
    <2>1. G = Step(G)
      OBVIOUS
    <2>2. H = Step(H)
      <3> HIDE DEF G, Step
      <3> QED
        BY <2>1
    <2>3. TakenOf(batch, 1) = H[1]
      BY DEF TakenOf
    <2> HIDE DEF H
    <2>4. H[1] = 0
      BY <2>2
    <2> QED
      BY <2>3, <2>4
  <1>2. TakenOf(batch, 2) = e
    <2> DEFINE Step(g) == [k \in 1 .. 2 |-> IF k = 1 THEN 0 ELSE g[k - 1] + batch[k - 1].extend]
               G == [k \in 1 .. 2 |-> IF k = 1 THEN 0 ELSE e]
               H == CHOOSE g : g = Step(g)
    <2>1. G = Step(G)
      <3>1. \A k \in 1 .. 2 : G[k] = IF k = 1 THEN 0 ELSE G[k - 1] + batch[k - 1].extend
        <4> TAKE k \in 1 .. 2
        <4>1. k = 1 \/ (k = 2 /\ k - 1 = 1)
          OBVIOUS
        <4>2. G[1] = 0 /\ G[2] = e /\ 0 + e = e
          OBVIOUS
        <4> HIDE DEF G
        <4> QED
          BY <4>1, <4>2
      <3>2. G = [k \in 1 .. 2 |-> G[k]]
        OBVIOUS
      <3> HIDE DEF G
      <3> QED
        BY <3>1, <3>2
    <2>2. H = Step(H)
      <3> HIDE DEF G, Step
      <3> QED
        BY <2>1
    <2>3. TakenOf(batch, 2) = H[2]
      BY DEF TakenOf
    <2> HIDE DEF H
    <2>4. \A k \in 1 .. 2 : H[k] = IF k = 1 THEN 0 ELSE H[k - 1] + batch[k - 1].extend
      BY <2>2
    <2> HIDE DEF Step
    <2>5. H[1] = 0
      BY <2>4
    <2>6. H[2] = H[1] + batch[1].extend
      <3>1. 2 - 1 = 1 /\ 2 \in 1 .. 2 /\ 2 # 1
        OBVIOUS
      <3> QED
        BY <2>4, <3>1
    <2> QED
      BY <2>3, <2>5, <2>6
  <1> QED
    BY <1>1, <1>2


LEMMA AppendSecond ==
    ASSUME NEW x, NEW e
    PROVE  Append(<<x>>, e) = <<x, e>>
  <1> DEFINE S == {x, e}
             y == Append(<<x>>, e)
  <1>1. <<x>> \in Seq(S) /\ Len(<<x>>) = 1
    OBVIOUS
  <1>2. y \in Seq(S) /\ Len(y) = 2 /\ y[1] = x /\ y[2] = e
    BY <1>1, AppendProperties
  <1> HIDE DEF y, S
  <1>3. y = <<x, e>>
    BY <1>2
  <1> QED
    BY <1>3 DEF y

LEMMA SameHolds ==
    ASSUME c' = c, mem' = mem
    PROVE  \A l, s : Holds(l, s)' = Holds(l, s)
  <1>1. /\ Tensors' = Tensors
        /\ \A l : Global(l)' = Global(l) /\ ScaleOf(l)' = ScaleOf(l)
        /\ \A p, s : Address(p, s)' = Address(p, s)
    BY SameGeometry
  <1> SUFFICES ASSUME NEW l, NEW s PROVE Holds(l, s)' = Holds(l, s)
    OBVIOUS
  <1> DEFINE Rows == {mem[l][p][Address(p, s)] : p \in Tensors}
             Read(rows, scale) == IF Cardinality(rows) # 1 THEN Torn
                                  ELSE LET r == CHOOSE r \in rows : TRUE
                                       IN  IF r[1] = Zero \/ r[2] = scale THEN r[1] ELSE Torn
  <1>2. Rows' = Rows
    BY <1>1
  <1>3. ScaleOf(Global(l))' = ScaleOf(Global(l))
    BY DEF ScaleOf, Global
  <1>4. Holds(l, s) = Read(Rows, ScaleOf(Global(l)))
    BY DEF Holds
  <1>5. Holds(l, s)' = Read(Rows', ScaleOf(Global(l))')
    BY DEF Holds
  <1> HIDE DEF Rows, Read
  <1> QED
    BY <1>2, <1>3, <1>4, <1>5

\* Two requests one after the other: regions, cached tokens, current tokens.
PairLaid(l, cur, ragged, r1, r2, done, e) ==
    /\ done.starts = <<c.page, e>>
    /\ c.page % c.page = 0 /\ e % c.page = 0
    /\ c.page + Len(r1.prefix) + (IF ragged THEN 0 ELSE r1.extend) <= e
    /\ \A k \in 1 .. Len(r1.prefix) : done.rows[c.page + k - 1] = Holds(l, r1.prefix[k])
    /\ ~ragged => \A k \in 1 .. r1.extend :
          done.rows[c.page + Len(r1.prefix) + k - 1] = cur[0 + k]
    /\ \A k \in 1 .. Len(r2.prefix) : done.rows[e + k - 1] = Holds(l, r2.prefix[k])
    /\ ~ragged => \A k \in 1 .. r2.extend :
          done.rows[e + Len(r2.prefix) + k - 1] = cur[r1.extend + k]

LEMMA PairRegions ==
    ASSUME c \in Configs, NEW l, NEW cur, NEW ragged \in BOOLEAN, NEW r1, NEW r2,
           Len(r1.prefix) \in Nat, r1.extend \in Nat, Len(r2.prefix) \in Nat, r2.extend \in Nat,
           NEW done, done = Extended(l, <<r1, r2>>, cur, ragged)[Len(<<r1, r2>>)],
           done.next <= DqSize
    PROVE  \E e \in Nat : PairLaid(l, cur, ragged, r1, r2, done, e)
  <1> DEFINE one == ExtendRequest(l, cur, ragged, NoneTaken, r1)
             two == ExtendRequest(l, cur, ragged, one, r2)
             n1 == Len(r1.prefix)
             n2 == Len(r2.prefix)
             m1 == IF ragged THEN 0 ELSE r1.extend
             m2 == IF ragged THEN 0 ELSE r2.extend
             e == one.next
  <1>1. DqSize \in Nat /\ c.page \in Nat \ {0}
    BY ConfigFacts, PoolAssumption
  <1>2. done = two
    BY ExtendedPair
  <1>3. /\ DOMAIN NoneTaken.rows = 0 .. DqSize - 1 /\ NoneTaken.next = c.page
        /\ NoneTaken.taken = 0 /\ NoneTaken.starts = <<>>
    BY DEF NoneTaken, EmptyWorkspace
  <1>4. n1 \in Nat /\ n2 \in Nat /\ m1 \in Nat /\ m2 \in Nat
    OBVIOUS
  <1>5. e \in Nat /\ one.taken = 0 + m1 /\ DOMAIN one.rows = 0 .. DqSize - 1
    <2>1. e = AlignUp(c.page + n1 + m1) /\ one.taken = 0 + m1 /\ DOMAIN one.rows = 0 .. DqSize - 1
      BY <1>3 DEF ExtendRequest
    <2>2. c.page + n1 + m1 \in Nat
      BY <1>1, <1>4, SMTT(60)
    <2> QED
      BY <2>1, <2>2, Aligned
  <1> HIDE DEF NoneTaken
  <1>6. two.next \in Nat /\ e + n2 + m2 <= two.next
    <2>1. two.next = AlignUp(e + n2 + m2)
      BY DEF ExtendRequest
    <2>2. e + n2 + m2 \in Nat
      BY <1>4, <1>5
    <2> QED
      BY <2>1, <2>2, Aligned
  <1>7. e <= DqSize
    BY <1>1, <1>2, <1>4, <1>5, <1>6, SMTT(60)
  <1>16. n1 = Len(r1.prefix) /\ n2 = Len(r2.prefix)
         /\ m1 = (IF ragged THEN 0 ELSE r1.extend) /\ m2 = (IF ragged THEN 0 ELSE r2.extend)
    OBVIOUS
  <1> HIDE DEF one, two, n1, n2, m1, m2
  <1>8. /\ e % c.page = 0 /\ c.page + n1 + m1 <= e
        /\ one.starts = Append(<<>>, c.page)
        /\ \A k \in 1 .. n1 : one.rows[c.page + k - 1] = Holds(l, r1.prefix[k])
        /\ \A k \in 1 .. m1 : one.rows[c.page + n1 + k - 1] = cur[0 + k]
    <2>1. one = ExtendRequest(l, cur, ragged, NoneTaken, r1) /\ one.next <= DqSize
      BY <1>7 DEF one
    <2> HIDE DEF e
    <2>2. /\ one.next % c.page = 0 /\ NoneTaken.next + n1 + m1 <= one.next
          /\ one.starts = Append(NoneTaken.starts, NoneTaken.next)
          /\ \A k \in 1 .. n1 : one.rows[NoneTaken.next + k - 1] = Holds(l, r1.prefix[k])
          /\ \A k \in 1 .. m1 : one.rows[NoneTaken.next + n1 + k - 1] = cur[NoneTaken.taken + k]
      <3>1. NoneTaken.next \in Nat /\ NoneTaken.taken \in Nat
        BY <1>1, <1>3
      <3>2. Laid(l, cur, NoneTaken, r1, one, n1, m1)
        BY <1>1, <1>3, <1>16, <2>1, <3>1, ExtendOne
      <3> QED
        BY <3>2 DEF Laid
    <2> QED
      BY <1>3, <2>2 DEF e
  <1>9. /\ two.starts = Append(one.starts, e)
        /\ \A k \in 1 .. n2 : two.rows[e + k - 1] = Holds(l, r2.prefix[k])
        /\ \A k \in 1 .. m2 : two.rows[e + n2 + k - 1] = cur[m1 + k]
        /\ \A i \in 0 .. e - 1 : two.rows[i] = one.rows[i]
    <2>1. two = ExtendRequest(l, cur, ragged, one, r2) /\ two.next <= DqSize
      BY <1>2 DEF two
    <2>2. one.next \in Nat /\ one.taken \in Nat
      BY <1>4, <1>5
    <2>3. /\ two.starts = Append(one.starts, one.next)
          /\ \A k \in 1 .. n2 : two.rows[one.next + k - 1] = Holds(l, r2.prefix[k])
          /\ \A k \in 1 .. m2 : two.rows[one.next + n2 + k - 1] = cur[one.taken + k]
          /\ \A i \in 0 .. one.next - 1 : two.rows[i] = one.rows[i]
      <3>1. Laid(l, cur, one, r2, two, n2, m2)
        BY <1>1, <1>5, <1>16, <2>1, <2>2, ExtendOne
      <3> QED
        BY <3>1 DEF Laid
    <2>4. one.taken = m1
      BY <1>4, <1>5
    <2> QED
      BY <2>3, <2>4
  <1> HIDE DEF e
  <1>10. two.starts = <<c.page, e>>
    <2> DEFINE x == c.page
    <2> HIDE DEF x
    <2>1. Append(<<>>, x) = <<x>> /\ Append(<<x>>, e) = <<x, e>>
      <3>1. Append(<<>>, x) = <<x>>
        OBVIOUS
      <3>2. Append(<<x>>, e) = <<x, e>>
        BY AppendSecond
      <3> QED
        BY <3>1, <3>2
    <2>2. one.starts = Append(<<>>, x)
      BY <1>8 DEF x
    <2>3. two.starts = <<x, e>>
      BY <1>9, <2>1, <2>2
    <2> QED
      BY <2>3 DEF x
  <1>11. c.page % c.page = 0
    <2> DEFINE d == c.page
    <2>1. (d * 1 + 0) % d = 0
      BY <1>1, DivModUnique
    <2>2. d * 1 + 0 = d
      BY <1>1
    <2> QED
      BY <2>1, <2>2
  <1>12. \A k \in 1 .. n1 : two.rows[c.page + k - 1] = Holds(l, r1.prefix[k])
    <2> TAKE k \in 1 .. n1
    <2>1. c.page + k - 1 \in 0 .. e - 1
      BY <1>1, <1>4, <1>5, <1>8, SMTT(60)
    <2> QED
      BY <1>8, <1>9, <2>1
  <1>13. \A k \in 1 .. m1 : two.rows[c.page + n1 + k - 1] = cur[0 + k]
    <2> TAKE k \in 1 .. m1
    <2>1. c.page + n1 + k - 1 \in 0 .. e - 1
      BY <1>1, <1>4, <1>5, <1>8, SMTT(60)
    <2> QED
      BY <1>8, <1>9, <2>1
  <1>14. ~ragged => m1 = r1.extend /\ m2 = r2.extend
    BY DEF m1, m2
  <1>15. /\ done.starts = <<c.page, e>> /\ c.page % c.page = 0 /\ e % c.page = 0
         /\ c.page + n1 + m1 <= e
         /\ \A k \in 1 .. n1 : done.rows[c.page + k - 1] = Holds(l, r1.prefix[k])
         /\ ~ragged => \A k \in 1 .. r1.extend : done.rows[c.page + n1 + k - 1] = cur[0 + k]
         /\ \A k \in 1 .. n2 : done.rows[e + k - 1] = Holds(l, r2.prefix[k])
         /\ ~ragged => \A k \in 1 .. r2.extend : done.rows[e + n2 + k - 1] = cur[r1.extend + k]
    BY <1>2, <1>8, <1>9, <1>10, <1>11, <1>12, <1>13, <1>14, ZenonT(60)
  <1> QED
    <2>1. PairLaid(l, cur, ragged, r1, r2, done, e)
      BY <1>15, Zenon DEF n1, n2, m1, PairLaid
    <2> QED
      BY <1>5, <2>1


\* The workspace has a row for every slot decoding may read.
Roomy == \A d \in Configs : d.dequant => d.page + d.slots <= DqSize

LEMMA ExtendHolds ==
    ASSUME BaseInv, Extend
    PROVE  WorkspaceHolds'
  <1>1. c \in Configs /\ DqSize \in Nat \ {0}
    BY PoolAssumption DEF BaseInv
  <1>2. PICK l \in Local, a, b \in 0 .. 2, n, m \in 0 .. 1, ragged \in BOOLEAN,
             at \in {at \in Places(Owned) : Len(at) = 2} :
          \E cur \in [1 .. n + m -> Tokens] :
            PrepareDequantExtend(l, <<[prefix |-> SubSeq(at, 1, a), extend |-> n],
                                      [prefix |-> SubSeq(at, 1, b), extend |-> m]>>,
                                 cur, ragged)
    BY DEF Extend
  <1> DEFINE r1 == [prefix |-> SubSeq(at, 1, a), extend |-> n]
             r2 == [prefix |-> SubSeq(at, 1, b), extend |-> m]
  <1>3. PICK cur \in [1 .. n + m -> Tokens] : PrepareDequantExtend(l, <<r1, r2>>, cur, ragged)
    BY <1>2
  <1>4. r1.extend \in Nat /\ r2.extend \in Nat /\ r1.prefix = SubSeq(at, 1, a)
        /\ r2.prefix = SubSeq(at, 1, b)
    OBVIOUS
  <1> DEFINE done == Extended(l, <<r1, r2>>, cur, ragged)[Len(<<r1, r2>>)]
             J == [op |-> "extend", layer |-> l, batch |-> <<r1, r2>>, cur |-> cur,
                   ragged |-> ragged, starts |-> done.starts]
  <1> HIDE DEF r1, r2
  <1>5. Len(r1.prefix) \in Nat /\ Len(r2.prefix) \in Nat
    <2>1. at \in Seq(Slots)
      BY <1>1, PlacesFacts
    <2>2. SubSeq(at, 1, a) \in Seq(Slots) /\ SubSeq(at, 1, b) \in Seq(Slots)
      <3>1. Len(at) = 2 /\ \A i \in 1 .. 2 : at[i] \in Slots
        BY <2>1, SMTT(60)
      <3>2. \A i \in 1 .. a : at[i] \in Slots
        BY <3>1
      <3>3. \A i \in 1 .. b : at[i] \in Slots
        BY <3>1
      <3> QED
        BY <2>1, <3>1, <3>2, <3>3, SubSeqProperties
    <2> QED
      BY <1>4, <2>2
  <1>6. /\ dq' = done.rows /\ job' = J /\ done.next <= DqSize /\ c' = c /\ mem' = mem
    BY <1>3 DEF PrepareDequantExtend
  <1>7. J.op = "extend" /\ J.layer = l /\ J.batch = <<r1, r2>> /\ J.cur = cur /\ J.ragged = ragged
        /\ J.starts = done.starts
    OBVIOUS
  <1> HIDE DEF done, J
  <1>15. PICK e \in Nat : PairLaid(l, cur, ragged, r1, r2, done, e)
    BY <1>1, <1>4, <1>5, <1>6, PairRegions DEF done
  <1>8. /\ e \in Nat
        /\ done.starts = <<c.page, e>>
        /\ c.page % c.page = 0 /\ e % c.page = 0
        /\ c.page + Len(r1.prefix) + (IF ragged THEN 0 ELSE r1.extend) <= e
        /\ \A k \in 1 .. Len(r1.prefix) : done.rows[c.page + k - 1] = Holds(l, r1.prefix[k])
        /\ ~ragged => \A k \in 1 .. r1.extend :
              done.rows[c.page + Len(r1.prefix) + k - 1] = cur[0 + k]
        /\ \A k \in 1 .. Len(r2.prefix) : done.rows[e + k - 1] = Holds(l, r2.prefix[k])
        /\ ~ragged => \A k \in 1 .. r2.extend :
              done.rows[e + Len(r2.prefix) + k - 1] = cur[r1.extend + k]
    BY <1>15, Zenon DEF PairLaid
  <1>9. c.page \in Nat /\ c.page <= e
    <2>1. c.page \in Nat
      BY <1>1, ConfigFacts
    <2>2. (IF ragged THEN 0 ELSE r1.extend) \in Nat
      BY <1>4
    <2> QED
      BY <1>5, <1>8, <2>1, <2>2
  <1>10. J.batch[1] = r1 /\ J.batch[2] = r2 /\ J.starts[1] = c.page /\ J.starts[2] = e
         /\ DOMAIN J.batch = {1, 2}
    BY <1>7, <1>8
  <1>11. TakenOf(J.batch, 1) = 0 /\ TakenOf(J.batch, 2) = r1.extend
    BY <1>4, <1>10, TakenPair
  <1>12. \A i : TakenBefore(i)' = TakenOf(J.batch, i)
    BY <1>6 DEF TakenBefore, TakenOf
  <1>13. \A k, s : Holds(k, s)' = Holds(k, s)
    BY <1>6, SameHolds
  <1>14. ASSUME NEW i \in {1, 2}
         PROVE  LET r == J.batch[i]
                    p == J.starts[i]
                IN  /\ p % c.page = 0 /\ p >= c.page
                    /\ i > 1 => p >= J.starts[i - 1] + (Len(J.batch[i - 1].prefix)
                                     + (IF J.ragged THEN 0 ELSE J.batch[i - 1].extend))
                    /\ \A k \in 1 .. Len(r.prefix) : done.rows[p + k - 1] = Holds(J.layer, r.prefix[k])
                    /\ ~J.ragged => \A k \in 1 .. r.extend :
                           done.rows[p + Len(r.prefix) + k - 1] = J.cur[TakenOf(J.batch, i) + k]
    <2>1. CASE i = 1
      BY <1>7, <1>8, <1>9, <1>10, <1>11, <2>1
    <2>2. CASE i = 2
      <3>1. e >= c.page + (Len(r1.prefix) + (IF ragged THEN 0 ELSE r1.extend))
        <4>1. (IF ragged THEN 0 ELSE r1.extend) \in Nat
          BY <1>4
        <4> QED
          BY <1>5, <1>8, <1>9, <4>1
      <3>2. 2 - 1 = 1
        OBVIOUS
      <3> QED
        BY <1>7, <1>8, <1>9, <1>10, <1>11, <2>2, <3>1, <3>2
    <2> QED
      BY <2>1, <2>2
  <1> QED
    BY <1>6, <1>7, <1>10, <1>12, <1>13, <1>14, ZenonT(60) DEF WorkspaceHolds, RegionLen

LEMMA DecodeHolds ==
    ASSUME Roomy, BaseInv, Decode
    PROVE  WorkspaceHolds'
  <1>1. c \in Configs /\ DqSize \in Nat \ {0}
    BY PoolAssumption DEF BaseInv
  <1>2. PICK l \in Local, at \in Places(Owned) : PrepareDequantDecode(l, <<at, <<>>>>)
    BY DEF Decode
  <1> DEFINE seqs == <<at, <<>>>>
             J == [op |-> "decode", layer |-> l, seqs |-> seqs]
  <1>3. /\ at \in Seq(Slots) /\ \A k \in DOMAIN at : at[k] \in Slots
        /\ DOMAIN seqs = {1, 2} /\ seqs[1] = at /\ seqs[2] = <<>> /\ DOMAIN <<>> = {}
    BY <1>1, PlacesFacts
  <1> HIDE DEF seqs
  <1>4. /\ c.dequant /\ c' = c /\ mem' = mem /\ job' = J
        /\ dq' = [i \in 0 .. DqSize - 1 |->
                IF \E q \in DOMAIN seqs : \E k \in DOMAIN seqs[q] : seqs[q][k] = i
                THEN Holds(l, i) ELSE Zero]
    BY <1>2 DEF PrepareDequantDecode, seqs
  <1>5. J.op = "decode" /\ J.layer = l /\ J.seqs = seqs
    OBVIOUS
  <1> HIDE DEF J
  <1>6. \A k, s : Holds(k, s)' = Holds(k, s)
    BY <1>4, SameHolds
  <1>7. Slots \subseteq 0 .. DqSize - 1
    <2>1. c.page + c.slots <= DqSize /\ c.page \in Nat /\ c.slots \in Nat
      BY <1>1, <1>4, ConfigFacts, PoolAssumption, SMTT(60) DEF Roomy
    <2> QED
      BY <1>1, <2>1 DEF Slots
  <1>8. ASSUME NEW q \in DOMAIN seqs, NEW k \in DOMAIN seqs[q]
        PROVE  dq'[seqs[q][k]] = Holds(l, seqs[q][k])
    <2>1. seqs[q][k] \in 0 .. DqSize - 1
      BY <1>3, <1>7
    <2> QED
      BY <1>4, <2>1
  <1> QED
    BY <1>4, <1>5, <1>6, <1>8 DEF WorkspaceHolds

LEMMA WorkspaceStep ==
    ASSUME Roomy, BaseInv, WorkspaceHolds, [Next]_vars
    PROVE  WorkspaceHolds'
  <1>1. CASE Extend
    BY <1>1, ExtendHolds
  <1>2. CASE Decode
    BY <1>2, DecodeHolds
  <1>3. CASE job' = None
    BY <1>3 DEF WorkspaceHolds
  <1>4. CASE UNCHANGED vars
    <2>1. c' = c /\ mem' = mem /\ dq' = dq /\ job' = job
      BY <1>4 DEF vars, pool
    <2>2. \A k, s : Holds(k, s)' = Holds(k, s)
      BY <2>1, SameHolds
    <2>3. \A i : TakenBefore(i)' = TakenBefore(i)
      BY <2>1 DEF TakenBefore
    <2> QED
      BY <2>1, <2>2, <2>3 DEF WorkspaceHolds, RegionLen
  <1>5. CASE Next /\ ~Extend /\ ~Decode
    <2>1. CASE Attend
      BY <1>3, <2>1, SMTT(60) DEF Attend
    <2>2. CASE job = None /\ (Set \/ SetPrefix \/ Move)
      BY <1>3, <2>2, ZenonT(60) DEF Set, SetKvBuffer, SetPrefix, SetKvBufferPrefixValid,
           Move, MoveKvCache
    <2>3. CASE job = None /\ (Offload \/ Load \/ Transfer \/ Finalize)
      BY <1>3, <2>3 DEF Offload, GetCpuCopy, Load, LoadCpuCopy, Transfer, BeginTransfer,
           TransferLayer, Finalize, FinalizeBacking
    <2> QED
      BY <1>5, <2>1, <2>2, <2>3 DEF Next
  <1> QED
    BY <1>1, <1>2, <1>4, <1>5

\* Each request of a batch of two has a page-aligned region of its own with its
\* cached and then its current tokens, for every page size and every length of
\* the cached prefixes.
THEOREM WorkspaceHoldsAlways ==
    ASSUME Roomy
    PROVE  Spec => []WorkspaceHolds
  <1>1. Init => BaseInv /\ WorkspaceHolds
    BY KvInit DEF Init, WorkspaceHolds
  <1>2. BaseInv /\ WorkspaceHolds /\ [Next]_vars => (BaseInv /\ WorkspaceHolds)'
    BY KvStep, BaseNextInv, WorkspaceStep
  <1> QED
    BY <1>1, <1>2, PTL DEF Spec
=============================================================================
