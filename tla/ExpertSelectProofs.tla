------------------------- MODULE ExpertSelectProofs -------------------------
(***************************************************************************)
(* Proofs about ExpertSelect, for any number of experts, any scores and    *)
(* any set of configurations: a padded row leaves no trace                 *)
(* (PaddedSilent), a column addresses the place where its expert lives     *)
(* (Addressed), no expert is addressed twice (TypeOK), and the gates       *)
(* select the best experts that may be selected (SelectsBest).             *)
(***************************************************************************)
EXTENDS ExpertSelect, FiniteSetTheorems, SequenceTheorems, TLAPS

----------------------------------------------------------------------------
(* Arithmetic and sets                                                     *)

LEMMA DivMod ==
    ASSUME NEW n \in Nat, NEW d \in Nat \ {0}
    PROVE  /\ n \div d \in Nat /\ n % d \in 0 .. d - 1
           /\ n = d * (n \div d) + (n % d)
BY SMT

\* Quotient and remainder are unique.
LEMMA Digits ==
    ASSUME NEW d \in Nat \ {0}, NEW a \in Int, NEW b \in Int, NEW x \in 0 .. d - 1, NEW y \in 0 .. d - 1,
           d * a + x = d * b + y
    PROVE  a = b /\ x = y
<1> DEFINE k == a - b
<1>1. k \in Int /\ d * k = y - x
  OBVIOUS
<1>2. y - x < d /\ y - x > 0 - d
  OBVIOUS
<1> HIDE DEF k
<1>3. ~(k >= 1) /\ ~(k <= -1)
  BY <1>1, <1>2
<1>4. k = 0
  BY <1>1, <1>3
<1>5. a = b
  BY <1>4 DEF k
<1>6. x = y
  BY <1>1, <1>4
<1> QED
  BY <1>5, <1>6

\* The id of a masked column stays negative when shared slots shift it.
LEMMA MaskShift ==
    ASSUME NEW a \in Int, a < 0, NEW d \in Nat \ {0}
    PROVE  a + (a \div d) < 0
<1>1. a \div d \in Int /\ d * (a \div d) <= a
  BY SMT
<1>2. a \div d <= 0
  BY <1>1, SMT
<1> QED
  BY <1>1, <1>2, SMT

LEMMA ConstantFacts ==
    /\ E \in Nat /\ E > 0 /\ Experts \subseteq Nat /\ Shared \notin Experts
    /\ IsFiniteSet(Experts) /\ Cardinality(Experts) = E
<1>1. E \in Nat /\ E > 0
  BY LayerAssumption
<1>2. IsFiniteSet(0 .. E - 1) /\ Cardinality(0 .. E - 1) = E
  BY <1>1, FS_Interval
<1> QED
  BY <1>1, <1>2 DEF Experts, Shared

LEMMA Enumeration ==
    ASSUME NEW X, IsFiniteSet(X)
    PROVE  /\ Cardinality(X) \in Nat
           /\ SetToSeq(X) \in [1 .. Cardinality(X) -> X]
           /\ \A i, j \in 1 .. Cardinality(X) : i # j => SetToSeq(X)[i] # SetToSeq(X)[j]
           /\ \A x \in X : \E i \in 1 .. Cardinality(X) : SetToSeq(X)[i] = x
<1> DEFINE D == 1 .. Cardinality(X)
           s == SetToSeq(X)
<1>1. Cardinality(X) \in Nat /\ ExistsBijection(D, X)
  BY FS_CardinalityType
<1>2. PICK f : f \in Bijection(D, X)
  BY <1>1 DEF ExistsBijection
<1>3. f \in [D -> X] /\ IsInjective(f)
  BY <1>2 DEF Bijection, Injection, IsInjective
<1>4. s \in [D -> X] /\ IsInjective(s)
  BY <1>3 DEF SetToSeq
<1>5. s \in Injection(D, X)
  BY <1>4 DEF Injection, IsInjective
<1>6. IsFiniteSet(D) /\ Cardinality(D) = Cardinality(X)
  BY <1>1, FS_Interval
<1>7. s \in Surjection(D, X)
  BY <1>5, <1>6, FS_Injection
<1> HIDE DEF D, s
<1>8. \A x \in X : \E i \in D : s[i] = x
  BY <1>7 DEF Surjection
<1>9. \A i, j \in D : i # j => s[i] # s[j]
  BY <1>4 DEF IsInjective
<1> QED
  BY <1>1, <1>4, <1>8, <1>9 DEF D, s

----------------------------------------------------------------------------
(* Configurations                                                          *)

\* What the assumption says of the configuration of a state.
LEMMA ConfigFacts ==
    ASSUME c \in Configs
    PROVE  /\ c \in ConfigShape /\ Routed \in Nat /\ Routed <= E /\ Routed + c.n = c.top_k
           /\ c.n \in {0, 1} /\ c.top_k \in Nat /\ c.top_k > 0 /\ c.physical \in Nat \ {0}
           /\ c.bias # None => \A e \in Experts : c.bias[e] > NegInf
           /\ c.replicas # None =>
                 /\ \A e \in Experts : c.replicas[e] \subseteq 0 .. c.physical - 1
                 /\ \A d, e \in Experts : d # e => c.replicas[d] \cap c.replicas[e] = {}
           /\ c.replicas = None => c.physical = E /\ ~c.lp
           /\ c.n > 0 /\ c.replicas # None => c.slots
           /\ c.slots => c.n = 1 /\ c.physical % c.ep_size = 0
           /\ c.platform = "hip" => c.bias # None /\ c.groups > 0 /\ c.simulate = "none"
           /\ c.platform \in {"cuda", "hip"}
           /\ Cardinality(c.kept) >= c.top_k /\ c.kept \subseteq Experts
           /\ c.groups \in Nat /\ c.ep_size \in Nat \ {0}
           /\ c.ep_rank \in Nat /\ c.ep_rank < c.ep_size
           /\ c.groups = 0 /\ c.scoring = "softmax" => c.n = 0 /\ c.bias = None
           /\ c.cold # None =>
                 /\ c.groups = 0 /\ c.bias = None /\ c.replicas = None /\ ~c.slots
                 /\ ~c.precomputed /\ c.simulate = "none" /\ c.cold \in [Experts -> Experts]
                 /\ \A d, e \in c.kept : d # e => c.cold[d] # c.cold[e]
           /\ c.replicas # None => c.replicas \in [Experts -> SUBSET Nat]
           /\ c.simulate # "none" => c.n = 0
<1>1. /\ c \in ConfigShape /\ c.top_k - c.n <= E /\ c.ep_rank < c.ep_size
      /\ c.bias # None => \A e \in Experts : c.bias[e] > NegInf
      /\ c.replicas # None =>
            /\ \A e \in Experts : c.replicas[e] \subseteq 0 .. c.physical - 1
            /\ \A d, e \in Experts : d # e => c.replicas[d] \cap c.replicas[e] = {}
      /\ c.replicas = None => c.physical = E /\ ~c.lp
      /\ c.n > 0 /\ c.replicas # None => c.slots
      /\ c.slots => c.n > 0 /\ c.physical % c.ep_size = 0
      /\ c.platform = "hip" => c.bias # None /\ c.groups > 0 /\ c.simulate = "none"
      /\ Cardinality(c.kept) >= c.top_k
  BY ConfigAssumption
<1>2. /\ c.n \in {0, 1} /\ c.top_k \in 1 .. E + 1 /\ c.platform \in {"cuda", "hip"}
      /\ c.kept \subseteq Experts /\ c.physical \in Nat \ {0}
      /\ c.groups \in 0 .. E /\ c.ep_size \in 1 .. E /\ c.ep_rank \in 0 .. E - 1
      /\ c.cold # None => c.cold \in [Experts -> Experts]
      /\ c.replicas # None => c.replicas \in [Experts -> SUBSET Nat]
  BY <1>1 DEF ConfigShape
<1>3. /\ c.top_k \in Nat /\ c.top_k > 0 /\ c.groups \in Nat /\ c.ep_size \in Nat \ {0}
      /\ c.ep_rank \in Nat
  BY <1>2, ConstantFacts
<1>4. /\ c.cold # None =>
            /\ c.groups = 0 /\ c.bias = None /\ c.replicas = None /\ ~c.slots
            /\ ~c.precomputed /\ c.simulate = "none"
            /\ \A d, e \in c.kept : d # e => c.cold[d] # c.cold[e]
      /\ c.simulate # "none" => c.n = 0
      /\ c.groups = 0 /\ c.scoring = "softmax" => c.n = 0 /\ c.bias = None
  BY ColdAssumption, BenchmarkAssumption, SoftmaxAssumption
<1> QED
  BY <1>1, <1>2, <1>3, <1>4 DEF Routed

----------------------------------------------------------------------------
(* Rows of columns                                                         *)

\* A row of m columns, whatever their weights are.
IsColumn(col) == col = Column(col.e, col.id, col.w)
IsRow(cols, m) == cols = [i \in 1 .. m |-> cols[i]] /\ \A i \in 1 .. m : IsColumn(cols[i])

LEMMA ColumnUpdate ==
    ASSUME NEW col, IsColumn(col), NEW x
    PROVE  /\ [col EXCEPT !.id = x] = Column(col.e, x, col.w)
           /\ [col EXCEPT !.w = x] = Column(col.e, col.id, x)
BY DEF IsColumn, Column

LEMMA ColumnFields ==
    ASSUME NEW e, NEW id, NEW w
    PROVE  /\ IsColumn(Column(e, id, w)) /\ Column(e, id, w).e = e
           /\ Column(e, id, w).id = id /\ Column(e, id, w).w = w
BY DEF IsColumn, Column

LEMMA RowIsSequence ==
    ASSUME NEW m \in Nat, NEW cols, IsRow(cols, m)
    PROVE  /\ DOMAIN cols = 1 .. m /\ Len(cols) = m
           /\ cols \in Seq({cols[i] : i \in 1 .. m})
<1> DEFINE S == {cols[i] : i \in 1 .. m}
<1>1. cols = [i \in 1 .. m |-> cols[i]]
  BY DEF IsRow
<1>2. cols \in [1 .. m -> S]
  BY <1>1
<1> HIDE DEF S
<1>3. cols \in Seq(S)
  <2>1. Seq(S) = UNION {[1 .. n -> S] : n \in Nat}
    BY SeqDef
  <2> QED
    BY <1>2, <2>1
<1>4. Len(cols) \in Nat /\ DOMAIN cols = 1 .. Len(cols)
  BY <1>3, LenProperties
<1>5. DOMAIN cols = 1 .. m
  BY <1>2
<1>6. Len(cols) = m
  <2> DEFINE n == Len(cols)
  <2>1. n \in Nat /\ 1 .. n = 1 .. m
    BY <1>4, <1>5
  <2> HIDE DEF n
  <2>2. (n > m => n \in 1 .. m) /\ (m > n => m \in 1 .. n)
    BY <2>1
  <2>3. n = m
    BY <2>1, <2>2
  <2> QED
    BY <2>3, ZenonT(60) DEF n
<1> QED
  BY <1>3, <1>5, <1>6 DEF S

LEMMA SequenceIsRow ==
    ASSUME NEW m \in Nat, NEW S, NEW cols \in Seq(S), Len(cols) = m, \A i \in 1 .. m : IsColumn(cols[i])
    PROVE  IsRow(cols, m)
<1>1. cols \in [1 .. m -> S]
  BY LenProperties
<1> QED
  BY <1>1 DEF IsRow

LEMMA PartsOfRow ==
    ASSUME c \in Configs, NEW cols, IsRow(cols, c.top_k)
    PROVE  /\ IsRow(RoutedPart(cols), Routed) /\ IsRow(SharedPart(cols), c.n)
           /\ \A i \in 1 .. Routed : RoutedPart(cols)[i] = cols[i]
           /\ \A i \in 1 .. c.n : SharedPart(cols)[i] = cols[Routed + i]
<1> DEFINE S == {cols[i] : i \in 1 .. c.top_k}
<1>1. /\ c.top_k \in Nat /\ Routed \in Nat /\ Routed + c.n = c.top_k /\ c.n \in Nat
  BY ConfigFacts, SMT
<1>2. Len(cols) = c.top_k /\ \A i \in 1 .. c.top_k : cols[i] \in S
  BY <1>1, RowIsSequence
<1>3. c.top_k - c.n = Routed /\ c.top_k - c.n + 1 = Routed + 1
  BY DEF Routed
<1> HIDE DEF S
<1>4. /\ RoutedPart(cols) \in Seq(S) /\ Len(RoutedPart(cols)) = Routed
      /\ \A i \in 1 .. Routed : RoutedPart(cols)[i] = cols[i]
  <2>1. /\ SubSeq(cols, 1, Routed) \in Seq(S)
        /\ Len(SubSeq(cols, 1, Routed)) = IF 1 <= Routed THEN Routed - 1 + 1 ELSE 0
        /\ \A i \in 1 .. Routed - 1 + 1 : SubSeq(cols, 1, Routed)[i] = cols[1 + i - 1]
    <3>1. \A i \in 1 .. Routed : cols[i] \in S
      BY <1>1, <1>2
    <3> QED
      BY <1>1, <3>1, SubSeqProperties
  <2>2. RoutedPart(cols) = SubSeq(cols, 1, Routed)
    BY <1>2, <1>3 DEF RoutedPart
  <2> QED
    BY <1>1, <2>1, <2>2
<1>5. /\ SharedPart(cols) \in Seq(S) /\ Len(SharedPart(cols)) = c.n
      /\ \A i \in 1 .. c.n : SharedPart(cols)[i] = cols[Routed + i]
  <2>1. /\ SubSeq(cols, Routed + 1, c.top_k) \in Seq(S)
        /\ Len(SubSeq(cols, Routed + 1, c.top_k)) =
              IF Routed + 1 <= c.top_k THEN c.top_k - (Routed + 1) + 1 ELSE 0
        /\ \A i \in 1 .. c.top_k - (Routed + 1) + 1 :
              SubSeq(cols, Routed + 1, c.top_k)[i] = cols[Routed + 1 + i - 1]
    <3>1. \A i \in Routed + 1 .. c.top_k : cols[i] \in S
      BY <1>1, <1>2
    <3> QED
      BY <1>1, <3>1, SubSeqProperties
  <2>2. SharedPart(cols) = SubSeq(cols, Routed + 1, c.top_k)
    BY <1>2, <1>3 DEF SharedPart
  <2>3. /\ c.top_k - (Routed + 1) + 1 = c.n /\ (Routed + 1 <= c.top_k <=> c.n > 0)
        /\ \A i \in 1 .. c.n : Routed + 1 + i - 1 = Routed + i
    BY <1>1
  <2>4. Len(SharedPart(cols)) = c.n
    BY <1>1, <2>1, <2>2, <2>3
  <2> QED
    BY <2>1, <2>2, <2>3, <2>4, SMTT(60)
<1>6. \A i \in 1 .. c.top_k : IsColumn(cols[i])
  BY DEF IsRow
<1>7. /\ \A i \in 1 .. Routed : IsColumn(RoutedPart(cols)[i])
      /\ \A i \in 1 .. c.n : IsColumn(SharedPart(cols)[i])
  <2>1. /\ \A i \in 1 .. Routed : i \in 1 .. c.top_k
        /\ \A i \in 1 .. c.n : Routed + i \in 1 .. c.top_k
    BY <1>1
  <2>2. /\ \A i \in 1 .. Routed : IsColumn(cols[i])
        /\ \A i \in 1 .. c.n : IsColumn(cols[Routed + i])
    BY <1>6, <2>1
  <2> QED
    BY <1>4, <1>5, <2>2
<1> QED
  BY <1>1, <1>4, <1>5, <1>7, SequenceIsRow

\* u is row s of m columns followed by row t of n columns.
Joins(u, s, m, t, n) ==
    /\ IsRow(u, m + n)
    /\ \A i \in 1 .. m : u[i] = s[i]
    /\ \A i \in 1 .. n : u[m + i] = t[i]

LEMMA ConcatOfRows ==
    ASSUME NEW m \in Nat, NEW n \in Nat, NEW s, NEW t, IsRow(s, m), IsRow(t, n)
    PROVE  Joins(s \o t, s, m, t, n)
<1> DEFINE u == s \o t
           A == {s[i] : i \in 1 .. m}
           B == {t[i] : i \in 1 .. n}
           S == A \cup B
<1>1. s \in Seq(A) /\ Len(s) = m /\ t \in Seq(B) /\ Len(t) = n
  BY RowIsSequence
<1>2. s \in Seq(S) /\ t \in Seq(S)
  BY <1>1, SeqMonotonic
<1> HIDE DEF S, A, B
<1>3. /\ u \in Seq(S) /\ Len(u) = m + n
      /\ \A i \in 1 .. m + n : u[i] = IF i <= m THEN s[i] ELSE t[i - m]
  BY <1>1, <1>2, ConcatProperties, ZenonT(60)
<1> HIDE DEF u
<1>4. /\ \A i \in 1 .. m : u[i] = s[i]
      /\ \A i \in 1 .. n : u[m + i] = t[i]
  <2>1. \A i \in 1 .. m : i \in 1 .. m + n /\ i <= m
    OBVIOUS
  <2>2. \A i \in 1 .. n : m + i \in 1 .. m + n /\ ~(m + i <= m) /\ m + i - m = i
    OBVIOUS
  <2>3. \A i \in 1 .. n : u[m + i] = t[m + i - m]
    BY <1>3, <2>2
  <2> QED
    BY <1>3, <2>1, <2>2, <2>3
<1>5. \A i \in 1 .. m + n : IsColumn(u[i])
  <2> SUFFICES ASSUME NEW i \in 1 .. m + n PROVE IsColumn(u[i])
    OBVIOUS
  <2>1. i <= m => i \in 1 .. m
    OBVIOUS
  <2>2. ~(i <= m) => i - m \in 1 .. n
    OBVIOUS
  <2> QED
    BY <1>3, <2>1, <2>2 DEF IsRow
<1>6. m + n \in Nat
  OBVIOUS
<1> QED
  <2>1. Joins(u, s, m, t, n)
    BY <1>3, <1>4, <1>5, <1>6, SequenceIsRow DEF Joins
  <2> QED
    BY <2>1 DEF u

\* u is row s of m columns followed by one more column.
Extends(u, s, m, col) ==
    /\ IsRow(u, m + 1) /\ u[m + 1] = col
    /\ \A i \in 1 .. m : u[i] = s[i]

LEMMA AppendToRow ==
    ASSUME NEW m \in Nat, NEW s, IsRow(s, m), NEW col, IsColumn(col)
    PROVE  Extends(Append(s, col), s, m, col)
<1> DEFINE u == Append(s, col)
           S == {s[i] : i \in 1 .. m} \cup {col}
<1>1. s \in Seq({s[i] : i \in 1 .. m}) /\ Len(s) = m
  BY RowIsSequence
<1>2. s \in Seq(S) /\ col \in S
  BY <1>1, SeqMonotonic
<1> HIDE DEF S
<1>3. /\ u \in Seq(S) /\ Len(u) = m + 1
      /\ \A i \in 1 .. m : u[i] = s[i]
      /\ u[m + 1] = col
  BY <1>1, <1>2, AppendProperties
<1> HIDE DEF u
<1>4. \A i \in 1 .. m + 1 : IsColumn(u[i])
  <2>1. \A i \in 1 .. m + 1 : i \in 1 .. m \/ i = m + 1
    OBVIOUS
  <2> QED
    BY <1>3, <2>1 DEF IsRow
<1>5. m + 1 \in Nat
  OBVIOUS
<1> QED
  <2>1. Extends(u, s, m, col)
    BY <1>3, <1>4, <1>5, SequenceIsRow DEF Extends
  <2> QED
    BY <2>1 DEF u

----------------------------------------------------------------------------
(* What each stage of the post-processing does to a row                    *)

LEMMA ReplicatedRow ==
    ASSUME NEW m \in Nat, NEW cols, IsRow(cols, m), NEW phys \in LogicalToPhysical(cols)
    PROVE  /\ IsRow(phys, m)
           /\ \A i \in 1 .. m : /\ phys[i].e = cols[i].e /\ phys[i].w = cols[i].w
                                /\ phys[i].id \in Physical(cols[i].id)
<1>1. CASE c.replicas = None
  BY <1>1 DEF LogicalToPhysical, Physical
<1>2. CASE c.replicas # None
  <2>1. PICK p : /\ phys = [i \in DOMAIN cols |-> [cols[i] EXCEPT !.id = p[i]]]
                 /\ \A i \in DOMAIN cols : p[i] \in Physical(cols[i].id)
    BY <1>2 DEF LogicalToPhysical
  <2>2. DOMAIN cols = 1 .. m /\ \A i \in 1 .. m : IsColumn(cols[i])
    BY DEF IsRow
  <2>3. \A i \in 1 .. m : phys[i] = Column(cols[i].e, p[i], cols[i].w)
    BY <2>1, <2>2, ColumnUpdate
  <2>4. \A i \in 1 .. m : /\ IsColumn(phys[i]) /\ phys[i].e = cols[i].e
                          /\ phys[i].w = cols[i].w /\ phys[i].id = p[i]
    BY <2>3, ColumnFields
  <2>5. phys = [i \in 1 .. m |-> phys[i]]
    BY <2>1, <2>2
  <2> QED
    BY <2>1, <2>2, <2>4, <2>5 DEF IsRow
<1> QED
  BY <1>1, <1>2

LEMMA MaskedRow ==
    ASSUME NEW m \in Nat, NEW cols, IsRow(cols, m), NEW fill
    PROVE  /\ IsRow(MaskPadded(cols, fill), m)
           /\ \A i \in 1 .. m : /\ MaskPadded(cols, fill)[i].e = cols[i].e
                                /\ MaskPadded(cols, fill)[i].w = cols[i].w
                                /\ IsPadded => MaskPadded(cols, fill)[i].id = fill
           /\ ~IsPadded => MaskPadded(cols, fill) = cols
<1>1. CASE ~IsPadded
  BY <1>1 DEF MaskPadded
<1>2. CASE IsPadded
  <2> DEFINE M == MaskPadded(cols, fill)
  <2>1. DOMAIN cols = 1 .. m /\ \A i \in 1 .. m : IsColumn(cols[i])
    BY DEF IsRow
  <2>2. M = [i \in 1 .. m |-> [cols[i] EXCEPT !.id = fill]]
    BY <1>2, <2>1 DEF MaskPadded, WithIds
  <2> HIDE DEF M
  <2>3. \A i \in 1 .. m : M[i] = Column(cols[i].e, fill, cols[i].w)
    BY <2>1, <2>2, ColumnUpdate
  <2>4. \A i \in 1 .. m : /\ IsColumn(M[i]) /\ M[i].e = cols[i].e /\ M[i].w = cols[i].w
                          /\ M[i].id = fill
    BY <2>3, ColumnFields
  <2>5. M = [i \in 1 .. m |-> M[i]]
    BY <2>2
  <2>6. IsRow(M, m)
    BY <2>4, <2>5 DEF IsRow
  <2> QED
    BY <1>2, <2>4, <2>6 DEF M
<1> QED
  BY <1>1, <1>2

LEMMA ZeroedRow ==
    ASSUME NEW m \in Nat, NEW cols, IsRow(cols, m)
    PROVE  /\ IsRow(ZeroPadded(cols), m)
           /\ \A i \in 1 .. m : /\ ZeroPadded(cols)[i].e = cols[i].e
                                /\ ZeroPadded(cols)[i].id = cols[i].id
                                /\ IsPadded => ZeroPadded(cols)[i].w = <<0, 1>>
<1>1. CASE ~IsPadded
  BY <1>1 DEF ZeroPadded
<1>2. CASE IsPadded
  <2> DEFINE Z == ZeroPadded(cols)
  <2>1. DOMAIN cols = 1 .. m /\ \A i \in 1 .. m : IsColumn(cols[i])
    BY DEF IsRow
  <2>2. Z = [i \in 1 .. m |-> [cols[i] EXCEPT !.w = <<0, 1>>]]
    BY <1>2, <2>1 DEF ZeroPadded
  <2> HIDE DEF Z
  <2>3. \A i \in 1 .. m : Z[i] = Column(cols[i].e, cols[i].id, <<0, 1>>)
    BY <2>1, <2>2, ColumnUpdate
  <2>4. \A i \in 1 .. m : /\ IsColumn(Z[i]) /\ Z[i].e = cols[i].e /\ Z[i].w = <<0, 1>>
                          /\ Z[i].id = cols[i].id
    BY <2>3, ColumnFields
  <2>5. Z = [i \in 1 .. m |-> Z[i]]
    BY <2>2
  <2>6. IsRow(Z, m)
    BY <2>4, <2>5 DEF IsRow
  <2> QED
    BY <1>2, <2>4, <2>6 DEF Z
<1> QED
  BY <1>1, <1>2

\* The ids of a CUDA row: physical or masked, the shared part left alone when
\* the shared experts have slots per rank and no solver dispatches.
LEMMA CudaIdsRow ==
    ASSUME c \in Configs, NEW cols, IsRow(cols, c.top_k), NEW ids \in CudaIds(cols)
    PROVE  /\ IsRow(ids, c.top_k)
           /\ \A i \in 1 .. c.top_k :
                /\ ids[i].e = cols[i].e
                /\ ~(c.slots /\ i > Routed) =>
                      ids[i].id \in IF IsPadded THEN {-1} ELSE Physical(cols[i].id)
<1>1. Routed \in Nat /\ Routed + c.n = c.top_k /\ c.n \in Nat /\ c.top_k \in Nat
  BY ConfigFacts, SMT
<1>2. CASE ~(c.slots /\ ~c.lp)
  <2>1. PICK phys \in LogicalToPhysical(cols) : ids = MaskPadded(phys, -1)
    BY <1>2 DEF CudaIds
  <2>2. /\ IsRow(phys, c.top_k)
        /\ \A i \in 1 .. c.top_k : phys[i].e = cols[i].e /\ phys[i].id \in Physical(cols[i].id)
    BY <1>1, ReplicatedRow
  <2>3. /\ IsRow(ids, c.top_k)
        /\ \A i \in 1 .. c.top_k : ids[i].e = phys[i].e /\ (IsPadded => ids[i].id = -1)
        /\ ~IsPadded => ids = phys
    BY <1>1, <2>1, <2>2, MaskedRow
  <2> QED
    BY <1>2, <2>2, <2>3
<1>3. CASE c.slots /\ ~c.lp
  <2> DEFINE R == RoutedPart(cols)
             T == SharedPart(cols)
  <2>1. PICK phys \in LogicalToPhysical(R) : ids = MaskPadded(phys, -1) \o T
    BY <1>3 DEF CudaIds
  <2> DEFINE M == MaskPadded(phys, -1)
  <2>2. /\ IsRow(R, Routed) /\ IsRow(T, c.n)
        /\ \A i \in 1 .. Routed : R[i] = cols[i]
        /\ \A i \in 1 .. c.n : T[i] = cols[Routed + i]
    BY PartsOfRow
  <2> HIDE DEF R, T
  <2>3. /\ IsRow(phys, Routed)
        /\ \A i \in 1 .. Routed : phys[i].e = R[i].e /\ phys[i].id \in Physical(R[i].id)
    BY <1>1, <2>2, ReplicatedRow
  <2>4. /\ IsRow(M, Routed)
        /\ \A i \in 1 .. Routed : M[i].e = phys[i].e /\ (IsPadded => M[i].id = -1)
        /\ ~IsPadded => M = phys
    BY <1>1, <2>3, MaskedRow
  <2>5. ids = M \o T
    BY <2>1
  <2> HIDE DEF M
  <2>6. /\ IsRow(ids, c.top_k) /\ \A i \in 1 .. Routed : ids[i] = M[i]
        /\ \A i \in 1 .. c.n : ids[Routed + i] = T[i]
    <3>1. /\ IsRow(ids, Routed + c.n)
          /\ \A i \in 1 .. Routed : ids[i] = M[i]
          /\ \A i \in 1 .. c.n : ids[Routed + i] = T[i]
      <4>1. Joins(M \o T, M, Routed, T, c.n)
        BY <1>1, <2>2, <2>4, ConcatOfRows
      <4> QED
        BY <2>5, <4>1 DEF Joins
    <3> QED
      BY <1>1, <3>1
  <2>7. ASSUME NEW i \in 1 .. c.top_k, i > Routed PROVE ids[i] = cols[i]
    <3>1. i - Routed \in 1 .. c.n /\ Routed + (i - Routed) = i
      BY <1>1, <2>7
    <3> QED
      BY <2>2, <2>6, <3>1
  <2>8. ASSUME NEW i \in 1 .. c.top_k, ~(i > Routed)
        PROVE  /\ ids[i].e = cols[i].e
               /\ ids[i].id \in IF IsPadded THEN {-1} ELSE Physical(cols[i].id)
    <3>1. i \in 1 .. Routed
      BY <1>1, <2>8
    <3> QED
      BY <2>2, <2>3, <2>4, <2>6, <3>1
  <2> QED
    BY <1>3, <2>6, <2>7, <2>8
<1> QED
  BY <1>2, <1>3

LEMMA LocalRoutedFact ==
    ASSUME c \in Configs, c.slots
    PROVE  LocalRouted \in Nat \ {0} /\ c.n = 1
<1>1. c.physical \in Nat \ {0} /\ c.ep_size \in Nat \ {0} /\ c.physical % c.ep_size = 0 /\ c.n = 1
  BY ConfigFacts
<1>2. /\ c.physical \div c.ep_size \in Nat
      /\ c.physical = c.ep_size * (c.physical \div c.ep_size) + (c.physical % c.ep_size)
  BY <1>1, DivMod
<1>3. c.physical \div c.ep_size # 0
  BY <1>1, <1>2
<1> QED
  BY <1>1, <1>2, <1>3 DEF LocalRouted

\* Shared slots per rank shift the routed ids, and give the shared expert the
\* slot of its rank.
LEMMA RemappedRow ==
    ASSUME c \in Configs, NEW ids, IsRow(ids, c.top_k)
    PROVE  /\ IsRow(RemapPerRank(ids), c.top_k)
           /\ \A i \in 1 .. c.top_k :
                /\ RemapPerRank(ids)[i].e = ids[i].e
                /\ RemapPerRank(ids)[i].id = IF i <= Routed THEN ids[i].id + (ids[i].id \div LocalRouted)
                                             ELSE SharedSlot
<1> DEFINE R == RemapPerRank(ids)
           Id(i) == IF i <= Routed THEN ids[i].id + (ids[i].id \div LocalRouted) ELSE SharedSlot
           W(i) == IF i <= Routed THEN ids[i].w ELSE <<1, c.rsf>>
<1>1. Len(ids) - c.n = Routed /\ DOMAIN ids = 1 .. c.top_k /\ \A i \in 1 .. c.top_k : IsColumn(ids[i])
  BY ConfigFacts, RowIsSequence DEF Routed, IsRow
<1>2. R = [i \in 1 .. c.top_k |->
             IF i <= Routed THEN [ids[i] EXCEPT !.id = ids[i].id + (ids[i].id \div LocalRouted)]
             ELSE [ids[i] EXCEPT !.id = SharedSlot, !.w = <<1, c.rsf>>]]
  BY <1>1 DEF RemapPerRank
<1>3. \A i \in 1 .. c.top_k : R[i] = Column(ids[i].e, Id(i), W(i))
  <2> SUFFICES ASSUME NEW i \in 1 .. c.top_k PROVE R[i] = Column(ids[i].e, Id(i), W(i))
    OBVIOUS
  <2>1. CASE i <= Routed
    BY <1>1, <1>2, <2>1, ColumnUpdate
  <2>2. CASE ~(i <= Routed)
    <3>1. R[i] = [ids[i] EXCEPT !.id = SharedSlot, !.w = <<1, c.rsf>>]
      BY <1>2, <2>2
    <3>2. ids[i] = Column(ids[i].e, ids[i].id, ids[i].w)
      BY <1>1 DEF IsColumn
    <3> QED
      BY <2>2, <3>1, <3>2 DEF Column
  <2> QED
    BY <2>1, <2>2
<1>4. R = [i \in 1 .. c.top_k |-> R[i]]
  BY <1>2
<1> HIDE DEF R, Id, W
<1>5. \A i \in 1 .. c.top_k : IsColumn(R[i]) /\ R[i].e = ids[i].e /\ R[i].id = Id(i)
  BY <1>3, ColumnFields
<1>6. IsRow(R, c.top_k)
  BY <1>4, <1>5 DEF IsRow
<1> QED
  BY <1>5, <1>6 DEF R, Id

\* aiter's row gets the shared expert as its last column.
LEMMA AppendedRow ==
    ASSUME NEW m \in Nat, NEW ids, IsRow(ids, m)
    PROVE  /\ IsRow(AppendShared(ids), m + 1)
           /\ \A i \in 1 .. m :
                /\ AppendShared(ids)[i].e = ids[i].e
                /\ AppendShared(ids)[i].id = IF c.slots THEN ids[i].id + (ids[i].id \div LocalRouted)
                                             ELSE ids[i].id
           /\ AppendShared(ids)[m + 1].e = Shared
           /\ AppendShared(ids)[m + 1].id = IF c.slots THEN SharedSlot ELSE E
<1> DEFINE Id(i) == IF c.slots THEN ids[i].id + (ids[i].id \div LocalRouted) ELSE ids[i].id
           B == IF c.slots THEN [i \in 1 .. m |-> [ids[i] EXCEPT !.id = ids[i].id + (ids[i].id \div LocalRouted)]]
                ELSE ids
           last == Column(Shared, IF c.slots THEN SharedSlot ELSE E,
                          <<1, IF c.slots \/ c.scale = 0 THEN 1 ELSE c.scale>>)
           A == AppendShared(ids)
<1>1. DOMAIN ids = 1 .. m /\ ids = [i \in 1 .. m |-> ids[i]] /\ \A i \in 1 .. m : IsColumn(ids[i])
  BY DEF IsRow
<1>2. A = Append(B, last)
  BY <1>1 DEF AppendShared, WithIds
<1>3. B = [i \in 1 .. m |-> B[i]] /\ \A i \in 1 .. m : B[i] = Column(ids[i].e, Id(i), ids[i].w)
  <2>1. CASE c.slots
    BY <1>1, <2>1, ColumnUpdate
  <2>2. CASE ~c.slots
    BY <1>1, <2>2 DEF IsColumn
  <2> QED
    BY <2>1, <2>2
<1>4. /\ IsColumn(last) /\ last.e = Shared
      /\ last.id = IF c.slots THEN SharedSlot ELSE E
  BY ColumnFields
<1> HIDE DEF A, B, Id, last
<1>5. \A i \in 1 .. m : IsColumn(B[i]) /\ B[i].e = ids[i].e /\ B[i].id = Id(i)
  BY <1>3, ColumnFields
<1>6. IsRow(B, m)
  BY <1>3, <1>5 DEF IsRow
<1>7. Extends(A, B, m, last)
  BY <1>2, <1>4, <1>6, AppendToRow
<1>8. IsRow(A, m + 1) /\ A[m + 1] = last /\ \A i \in 1 .. m : A[i] = B[i]
  BY <1>7 DEF Extends
<1> QED
  BY <1>4, <1>5, <1>8 DEF A, Id

\* The rows of the cold pool replace the ids of experts.
LEMMA ColdRow ==
    ASSUME NEW m \in Nat, NEW cols, IsRow(cols, m)
    PROVE  /\ IsRow(ColdRows(cols), m)
           /\ \A i \in 1 .. m :
                /\ ColdRows(cols)[i].e = cols[i].e /\ ColdRows(cols)[i].w = cols[i].w
                /\ ColdRows(cols)[i].id =
                      IF c.cold # None /\ cols[i].id \in Experts THEN c.cold[cols[i].id] ELSE cols[i].id
<1>1. CASE c.cold = None
  BY <1>1 DEF ColdRows
<1>2. CASE c.cold # None
  <2> DEFINE C == ColdRows(cols)
             Id(i) == IF cols[i].id \in Experts THEN c.cold[cols[i].id] ELSE cols[i].id
  <2>1. DOMAIN cols = 1 .. m /\ \A i \in 1 .. m : IsColumn(cols[i])
    BY DEF IsRow
  <2>2. C = [i \in 1 .. m |-> [cols[i] EXCEPT !.id = Id(i)]]
    BY <1>2, <2>1 DEF ColdRows, WithIds
  <2> HIDE DEF C, Id
  <2>3. \A i \in 1 .. m : C[i] = Column(cols[i].e, Id(i), cols[i].w)
    BY <2>1, <2>2, ColumnUpdate
  <2>4. \A i \in 1 .. m : IsColumn(C[i]) /\ C[i].e = cols[i].e /\ C[i].w = cols[i].w /\ C[i].id = Id(i)
    BY <2>3, ColumnFields
  <2>5. C = [i \in 1 .. m |-> C[i]]
    BY <2>2
  <2>6. IsRow(C, m)
    BY <2>4, <2>5 DEF IsRow
  <2> QED
    BY <1>2, <2>4, <2>6 DEF C, Id
<1> QED
  BY <1>1, <1>2

----------------------------------------------------------------------------
(* What the post-processing makes of a row of the gate                     *)

\* The columns the gate yields: aiter leaves out the shared expert's.
Width == IF c.platform = "hip" THEN Routed ELSE c.top_k

Silent(cols) ==
    \A i \in 1 .. c.top_k :
        /\ \/ cols[i].id < 0 \/ cols[i].w[1] = 0
           \/ c.platform = "cuda" /\ c.slots /\ i > Routed
           \/ c.platform = "hip" /\ c.unmasked
        /\ c.platform = "hip" => cols[i].id \in 0 .. Places - 1

\* Where the routed column i of a row, with id id, ends up.
Placed(id, place) ==
    \E p \in Physical(id) : place = IF c.slots THEN p + (p \div LocalRouted) ELSE p

RoutedPlaced(cols, new) ==
    \A i \in 1 .. Routed : new[i].e = cols[i].e /\ Placed(cols[i].id, new[i].id)

SharedPlaced(cols, new) ==
    \A i \in Routed + 1 .. c.top_k :
        /\ new[i].e = IF c.platform = "hip" THEN Shared ELSE cols[i].e
        /\ new[i].id = IF c.slots THEN SharedSlot
                       ELSE IF c.platform = "hip" THEN E ELSE cols[i].id

\* The recorder's row: the routed columns with their physical ids, or the result
\* itself, which the shift for the shared slots reaches.
Recorded(cols, new, seen) ==
    \E m \in {Routed, c.top_k} :
        /\ IsRow(seen, m)
        /\ \A i \in 1 .. m : seen[i].e = IF i <= Routed \/ c.platform = "cuda" THEN cols[i].e ELSE Shared
        /\ IF RecorderAliased THEN seen = new
           ELSE \A i \in 1 .. Routed : seen[i].id \in Physical(cols[i].id)

\* The places that aiter's kernels may be given exist.
LEMMA PlacesExist ==
    ASSUME c \in Configs
    PROVE  /\ Physical(0) \subseteq 0 .. c.physical - 1
           /\ \A p \in 0 .. c.physical - 1 :
                 (IF c.slots THEN p + (p \div LocalRouted) ELSE p) \in 0 .. Places - 1
           /\ c.n > 0 => (IF c.slots THEN SharedSlot ELSE E) \in 0 .. Places - 1
<1> DEFINE P == c.physical
           L == LocalRouted
           s == c.ep_size
           r == c.ep_rank
<1>1. /\ P \in Nat \ {0} /\ c.n \in {0, 1} /\ s \in Nat \ {0} /\ r \in Nat /\ r < s
      /\ c.slots => c.n = 1 /\ P % s = 0
      /\ c.replicas = None => P = E
      /\ c.n > 0 /\ c.replicas # None => c.slots
      /\ c.replicas # None => \A e \in Experts : c.replicas[e] \subseteq 0 .. P - 1
  BY ConfigFacts
<1>2. 0 \in Experts
  BY ConstantFacts DEF Experts
<1>3. Physical(0) \subseteq 0 .. P - 1
  BY <1>1, <1>2 DEF Physical
<1>4. CASE c.slots
  <2>1. L \in Nat \ {0} /\ P = s * L
    <3>1. P \div s \in Nat /\ P = s * (P \div s) + (P % s)
      BY <1>1, DivMod
    <3> QED
      BY <1>1, <1>4, <3>1, LocalRoutedFact DEF LocalRouted
  <2>2. Places = P + s
    BY <1>1, <1>4 DEF Places
  <2>3. SharedSlot = r * (L + 1) + L
    BY <1>1, <1>4 DEF SharedSlot
  <2> HIDE DEF L, s, r, P
  <2>4. ASSUME NEW p \in 0 .. P - 1 PROVE p + (p \div L) \in 0 .. P + s - 1
    <3> DEFINE a == p \div L
               x == p % L
    <3>1. p \in Nat /\ p < P
      BY <1>1
    <3>2. a \in Nat /\ x \in 0 .. L - 1 /\ p = L * a + x
      BY <2>1, <3>1, DivMod
    <3> HIDE DEF a, x
    <3>3. a < s
      <4> SUFFICES ASSUME a >= s PROVE FALSE
        BY <1>1, <3>2
      <4>1. a - s \in Nat
        BY <1>1, <3>2
      <4>2. L * (a - s) \in Nat /\ L * (a - s) = L * a - L * s
        BY <1>1, <2>1, <3>2, <4>1
      <4>3. L * a >= P
        BY <1>1, <2>1, <3>2, <4>2
      <4> QED
        BY <1>1, <2>1, <3>1, <3>2, <4>3
    <3>4. p + a \in 0 .. P + s - 1
      BY <1>1, <3>1, <3>2, <3>3
    <3> QED
      BY <3>4 DEF a
  <2>5. SharedSlot \in 0 .. P + s - 1
    <3>1. (s - 1 - r) * L \in Nat /\ r * L \in Nat
      <4>1. s - 1 - r \in Nat
        BY <1>1
      <4> QED
        BY <1>1, <2>1, <4>1
    <3>2. (s - 1 - r) * L = s * L - L - r * L /\ r * (L + 1) = r * L + r
      BY <1>1, <2>1
    <3> QED
      BY <1>1, <2>1, <2>3, <3>1, <3>2
  <2>6. \A p \in 0 .. P - 1 : p + (p \div L) \in 0 .. Places - 1
    BY <1>1, <2>2, <2>4
  <2>7. SharedSlot \in 0 .. Places - 1
    BY <1>1, <2>2, <2>5
  <2>8. \A p \in 0 .. c.physical - 1 : p + (p \div LocalRouted) \in 0 .. Places - 1
    BY <2>6 DEF P, L
  <2>9. Physical(0) \subseteq 0 .. c.physical - 1
    BY <1>3 DEF P
  <2> QED
    BY <1>4, <2>7, <2>8, <2>9, Zenon
<1>5. CASE ~c.slots
  <2>1. Places = P + c.n
    BY <1>1, <1>5 DEF Places
  <2>2. c.n > 0 => P = E
    BY <1>1, <1>5
  <2> QED
    BY <1>1, <1>3, <1>5, <2>1, <2>2
<1> QED
  BY <1>4, <1>5

LEMMA CudaPost ==
    ASSUME c \in Configs, c.platform = "cuda", NEW cols, IsRow(cols, c.top_k), NEW post \in PostProcess(cols)
    PROVE  /\ IsRow(post.cols, c.top_k)
           /\ IsPadded => Silent(post.cols)
           /\ ~IsPadded => /\ RoutedPlaced(cols, post.cols) /\ SharedPlaced(cols, post.cols)
                           /\ Recorded(cols, post.cols, post.seen)
<1>1. /\ Routed \in Nat /\ Routed + c.n = c.top_k /\ c.n \in {0, 1} /\ c.top_k \in Nat
      /\ c.n > 0 /\ c.replicas # None => c.slots
  BY ConfigFacts
<1>2. PICK ids \in CudaIds(cols) :
         post = [cols |-> IF c.slots THEN RemapPerRank(ids) ELSE ids,
                 seen |-> IF ~c.slots THEN ids
                          ELSE IF c.lp THEN RemapPerRank(ids) ELSE RoutedPart(ids)]
  BY DEF PostProcess, CudaResult
<1>3. /\ IsRow(ids, c.top_k)
      /\ \A i \in 1 .. c.top_k :
            /\ ids[i].e = cols[i].e
            /\ ~(c.slots /\ i > Routed) =>
                  ids[i].id \in IF IsPadded THEN {-1} ELSE Physical(cols[i].id)
  BY CudaIdsRow
<1>4. CASE ~c.slots
  <2>1. post.cols = ids /\ post.seen = ids
    BY <1>2, <1>4
  <2>2. ASSUME IsPadded PROVE Silent(ids)
    <3>1. \A i \in 1 .. c.top_k : ids[i].id = -1
      BY <1>3, <1>4, <2>2
    <3> QED
      BY <3>1 DEF Silent
  <2>3. ASSUME ~IsPadded
        PROVE  RoutedPlaced(cols, ids) /\ SharedPlaced(cols, ids) /\ Recorded(cols, ids, ids)
    <3>1. \A i \in 1 .. c.top_k : ids[i].e = cols[i].e /\ ids[i].id \in Physical(cols[i].id)
      BY <1>3, <1>4, <2>3
    <3>2. \A i \in 1 .. Routed : i \in 1 .. c.top_k /\ i <= Routed
      BY <1>1
    <3>3. RoutedPlaced(cols, ids)
      BY <1>4, <3>1, <3>2 DEF RoutedPlaced, Placed
    <3>4. SharedPlaced(cols, ids)
      <4> SUFFICES ASSUME NEW i \in Routed + 1 .. c.top_k
                   PROVE  ids[i].e = cols[i].e /\ ids[i].id = cols[i].id
        BY <1>4 DEF SharedPlaced
      <4>1. i \in 1 .. c.top_k /\ c.n > 0
        BY <1>1
      <4>2. Physical(cols[i].id) = {cols[i].id}
        BY <1>1, <1>4, <4>1 DEF Physical
      <4> QED
        BY <3>1, <4>1, <4>2
    <3>5. Recorded(cols, ids, ids)
      BY <1>3, <3>1, <3>2 DEF Recorded
    <3> QED
      BY <3>3, <3>4, <3>5
  <2> QED
    BY <1>3, <2>1, <2>2, <2>3
<1>5. CASE c.slots
  <2> DEFINE R == RemapPerRank(ids)
             S == RoutedPart(ids)
  <2>1. post.cols = R /\ post.seen = IF c.lp THEN R ELSE S
    BY <1>2, <1>5
  <2>2. /\ IsRow(R, c.top_k)
        /\ \A i \in 1 .. c.top_k :
              /\ R[i].e = ids[i].e
              /\ R[i].id = IF i <= Routed THEN ids[i].id + (ids[i].id \div LocalRouted) ELSE SharedSlot
    BY <1>3, RemappedRow
  <2>3. IsRow(S, Routed) /\ \A i \in 1 .. Routed : S[i] = ids[i]
    BY <1>3, PartsOfRow
  <2> HIDE DEF R, S
  <2>4. LocalRouted \in Nat \ {0} /\ \A i \in 1 .. Routed : i \in 1 .. c.top_k /\ i <= Routed /\ ~(i > Routed)
    BY <1>1, <1>5, LocalRoutedFact
  <2>5. ASSUME IsPadded PROVE Silent(R)
    <3> SUFFICES ASSUME NEW i \in 1 .. c.top_k, ~(i > Routed) PROVE R[i].id < 0
      BY <1>5 DEF Silent
    <3>1. ids[i].id = -1 /\ i <= Routed
      BY <1>1, <1>3, <2>5
    <3>2. ids[i].id \in Int /\ ids[i].id < 0
      BY <3>1
    <3>3. ids[i].id + (ids[i].id \div LocalRouted) < 0
      BY <2>4, <3>2, MaskShift
    <3> QED
      BY <2>2, <3>1, <3>3
  <2>6. ASSUME ~IsPadded
        PROVE  /\ RoutedPlaced(cols, R) /\ SharedPlaced(cols, R)
               /\ Recorded(cols, R, IF c.lp THEN R ELSE S)
    <3>1. \A i \in 1 .. Routed : ids[i].e = cols[i].e /\ ids[i].id \in Physical(cols[i].id)
      BY <1>3, <2>4, <2>6
    <3>2. RoutedPlaced(cols, R)
      BY <1>5, <2>2, <2>4, <3>1 DEF RoutedPlaced, Placed
    <3>3. SharedPlaced(cols, R)
      <4> SUFFICES ASSUME NEW i \in Routed + 1 .. c.top_k
                   PROVE  R[i].e = cols[i].e /\ R[i].id = SharedSlot
        BY <1>5 DEF SharedPlaced
      <4>1. i \in 1 .. c.top_k /\ ~(i <= Routed)
        BY <1>1
      <4> QED
        BY <1>3, <2>2, <4>1
    <3>4. CASE ~c.lp
      <4>1. Recorded(cols, R, S)
        BY <2>3, <2>4, <3>1, <3>4 DEF Recorded, RecorderAliased
      <4> QED
        BY <3>2, <3>3, <3>4, <4>1
    <3>5. CASE c.lp
      <4>1. RecorderAliased
        BY <1>5, <3>5 DEF RecorderAliased
      <4>2. \A i \in 1 .. c.top_k : R[i].e = cols[i].e
        BY <1>3, <2>2
      <4>3. Recorded(cols, R, R)
        BY <2>2, <4>1, <4>2 DEF Recorded
      <4> QED
        BY <3>2, <3>3, <3>5, <4>3
    <3> QED
      BY <3>4, <3>5
  <2> QED
    BY <2>1, <2>2, <2>5, <2>6
<1> QED
  BY <1>4, <1>5

LEMMA HipPost ==
    ASSUME c \in Configs, c.platform = "hip", NEW cols, IsRow(cols, Routed), NEW post \in PostProcess(cols)
    PROVE  /\ IsRow(post.cols, c.top_k)
           /\ IsPadded => Silent(post.cols)
           /\ ~IsPadded => /\ RoutedPlaced(cols, post.cols) /\ SharedPlaced(cols, post.cols)
                           /\ Recorded(cols, post.cols, post.seen)
<1> DEFINE masked == MaskPadded(cols, 0)
<1>1. /\ Routed \in Nat /\ Routed + c.n = c.top_k /\ c.n \in {0, 1} /\ c.top_k \in Nat
      /\ c.slots => c.n = 1
  BY ConfigFacts
<1>2. PICK ids \in LogicalToPhysical(masked) :
         post = HipResult(ids)
  BY DEF PostProcess, HipIds
<1> DEFINE A == IF c.n > 0 THEN AppendShared(ids) ELSE ids
           Z == IF c.unmasked THEN A ELSE ZeroPadded(A)
<1>3. post.cols = Z /\ post.seen = ids
  BY <1>2 DEF HipResult
<1>4. /\ IsRow(masked, Routed)
      /\ \A i \in 1 .. Routed : masked[i].e = cols[i].e
      /\ IsPadded => \A i \in 1 .. Routed : masked[i].id = 0
      /\ ~IsPadded => masked = cols
  BY <1>1, MaskedRow
<1> HIDE DEF masked
<1>5. /\ IsRow(ids, Routed)
      /\ \A i \in 1 .. Routed : ids[i].e = cols[i].e /\ ids[i].id \in Physical(masked[i].id)
  BY <1>1, <1>4, ReplicatedRow
<1>6. /\ IsRow(A, c.top_k)
      /\ \A i \in 1 .. Routed :
           /\ A[i].e = cols[i].e
           /\ A[i].id = IF c.slots THEN ids[i].id + (ids[i].id \div LocalRouted) ELSE ids[i].id
      /\ \A i \in Routed + 1 .. c.top_k :
           A[i].e = Shared /\ A[i].id = IF c.slots THEN SharedSlot ELSE E
  <2>1. CASE c.n = 0
    <3>1. A = ids /\ Routed = c.top_k /\ ~c.slots /\ Routed + 1 .. c.top_k = {}
      BY <1>1, <2>1
    <3> QED
      BY <1>5, <3>1
  <2>2. CASE c.n = 1
    <3>1. A = AppendShared(ids) /\ Routed + 1 = c.top_k /\ Routed + 1 .. c.top_k = {Routed + 1}
      BY <1>1, <2>2
    <3> HIDE DEF A
    <3>2. /\ IsRow(AppendShared(ids), Routed + 1)
          /\ \A i \in 1 .. Routed :
                /\ AppendShared(ids)[i].e = ids[i].e
                /\ AppendShared(ids)[i].id = IF c.slots THEN ids[i].id + (ids[i].id \div LocalRouted)
                                             ELSE ids[i].id
          /\ AppendShared(ids)[Routed + 1].e = Shared
          /\ AppendShared(ids)[Routed + 1].id = IF c.slots THEN SharedSlot ELSE E
      BY <1>1, <1>5, AppendedRow
    <3> QED
      BY <1>5, <3>1, <3>2
  <2> QED
    BY <1>1, <2>1, <2>2
<1> HIDE DEF A
<1>7. /\ IsRow(Z, c.top_k)
      /\ \A i \in 1 .. c.top_k : /\ Z[i].e = A[i].e /\ Z[i].id = A[i].id
                                 /\ IsPadded /\ ~c.unmasked => Z[i].w = <<0, 1>>
  BY <1>1, <1>6, ZeroedRow
<1> HIDE DEF Z
<1>8. ASSUME IsPadded PROVE Silent(Z)
  <2>1. ~c.unmasked => \A i \in 1 .. c.top_k : Z[i].w[1] = 0
    <3>1. ~c.unmasked => \A i \in 1 .. c.top_k : Z[i].w = <<0, 1>>
      BY <1>7, <1>8
    <3> QED
      BY <3>1
  <2>2. \A i \in 1 .. Routed : A[i].id \in 0 .. Places - 1
    <3>1. \A i \in 1 .. Routed : ids[i].id \in Physical(0)
      BY <1>4, <1>5, <1>8
    <3>2. \A i \in 1 .. Routed : ids[i].id \in 0 .. c.physical - 1
      BY <3>1, PlacesExist
    <3> QED
      BY <1>6, <3>2, PlacesExist
  <2>3. \A i \in Routed + 1 .. c.top_k : A[i].id \in 0 .. Places - 1
    <3>1. Routed + 1 .. c.top_k # {} => c.n > 0
      BY <1>1
    <3> QED
      BY <1>6, <3>1, PlacesExist
  <2>4. \A i \in 1 .. c.top_k : i \in 1 .. Routed \/ i \in Routed + 1 .. c.top_k
    BY <1>1
  <2>5. \A i \in 1 .. c.top_k : Z[i].id \in 0 .. Places - 1
    BY <1>7, <2>2, <2>3, <2>4
  <2> QED
    BY <2>1, <2>5 DEF Silent
<1>9. ASSUME ~IsPadded
      PROVE  RoutedPlaced(cols, Z) /\ SharedPlaced(cols, Z) /\ Recorded(cols, Z, ids)
  <2>1. \A i \in 1 .. Routed : ids[i].e = cols[i].e /\ ids[i].id \in Physical(cols[i].id)
    BY <1>4, <1>5, <1>9
  <2>2. \A i \in 1 .. Routed : i \in 1 .. c.top_k /\ i <= Routed
    BY <1>1
  <2>3. RoutedPlaced(cols, Z)
    BY <1>6, <1>7, <2>1, <2>2 DEF RoutedPlaced, Placed
  <2>4. \A i \in Routed + 1 .. c.top_k : i \in 1 .. c.top_k
    BY <1>1
  <2>5. SharedPlaced(cols, Z)
    BY <1>6, <1>7, <2>4 DEF SharedPlaced
  <2>6. Recorded(cols, Z, ids)
    BY <1>5, <2>1, <2>2 DEF Recorded, RecorderAliased
  <2> QED
    BY <2>3, <2>5, <2>6
<1> QED
  BY <1>3, <1>7, <1>8, <1>9

----------------------------------------------------------------------------
(* What a gate selects                                                     *)

\* X is a best part of the pool.
Beats(X, pool, f) == X \subseteq pool /\ \A x \in X, y \in pool \ X : f[x] >= f[y]

\* When every expert of a pool that is large enough scores above the others,
\* the top ones come from the pool.
LEMMA TopPool ==
    ASSUME NEW f \in [Experts -> Int], NEW k \in Nat, NEW pool, pool \subseteq Experts,
           Cardinality(pool) >= k, \A x \in Experts \ pool, y \in pool : f[x] < f[y],
           NEW X \in TopSets(f, k)
    PROVE  X \subseteq Experts /\ Cardinality(X) = k /\ Beats(X, pool, f)
<1>1. X \subseteq Experts /\ Cardinality(X) = k /\ \A x \in X, y \in Experts \ X : f[x] >= f[y]
  BY DEF TopSets, kSubset
<1>2. IsFiniteSet(X) /\ IsFiniteSet(pool)
  BY <1>1, ConstantFacts, FS_Subset
<1>3. X \subseteq pool
  <2> SUFFICES ASSUME NEW x \in X, x \notin pool PROVE FALSE
    OBVIOUS
  <2>1. pool \subseteq X
    <3> SUFFICES ASSUME NEW y \in pool, y \notin X PROVE FALSE
      OBVIOUS
    <3>1. f[x] >= f[y] /\ f[x] < f[y] /\ f[x] \in Int /\ f[y] \in Int
      BY <1>1
    <3> QED
      BY <3>1
  <2>2. IsFiniteSet(X \ {x}) /\ Cardinality(X \ {x}) = k - 1
    BY <1>1, <1>2, FS_RemoveElement
  <2>3. pool \in SUBSET (X \ {x})
    BY <2>1
  <2>4. Cardinality(pool) <= k - 1 /\ Cardinality(pool) \in Nat
    BY <1>2, <2>2, <2>3, FS_Subset, FS_CardinalityType
  <2> QED
    BY <2>4
<1> QED
  BY <1>1, <1>3 DEF Beats

LEMMA PickedPool ==
    ASSUME c \in Configs, NEW f \in [Experts -> Int], NEW pool, pool \subseteq Experts,
           Cardinality(pool) >= Routed, \A x \in Experts \ pool, y \in pool : f[x] < f[y],
           NEW X \in Picked(f)
    PROVE  X \subseteq Experts /\ Cardinality(X) = Routed /\ Beats(X, pool, f)
<1>1. Routed \in Nat /\ Routed + c.n = c.top_k /\ c.n \in {0, 1} /\ c.top_k \in Nat
  BY ConfigFacts
<1>2. CASE c.n = 0 \/ c.platform = "hip"
  <2>1. X \in TopSets(f, Routed)
    BY <1>2 DEF Picked
  <2> QED
    BY <1>1, <2>1, TopPool
<1>3. CASE ~(c.n = 0 \/ c.platform = "hip")
  <2>1. PICK Y \in TopSets(f, c.top_k) : \E m \in Y : (\A x \in Y : f[m] <= f[x]) /\ X = Y \ {m}
    BY <1>3 DEF Picked
  <2>2. PICK m \in Y : (\A x \in Y : f[m] <= f[x]) /\ X = Y \ {m}
    BY <2>1
  <2>3. Y \subseteq Experts /\ Cardinality(Y) = c.top_k /\ \A x \in Y, y \in Experts \ Y : f[x] >= f[y]
    BY DEF TopSets, kSubset
  <2>4. IsFiniteSet(Y) /\ IsFiniteSet(pool)
    BY <2>3, ConstantFacts, FS_Subset
  <2>5. IsFiniteSet(X) /\ Cardinality(X) = c.top_k - 1
    BY <2>2, <2>3, <2>4, FS_RemoveElement
  <2>6. c.top_k - 1 = Routed
    BY <1>1, <1>3
  <2>7. X \subseteq pool
    <3> SUFFICES ASSUME NEW x \in X, x \notin pool PROVE FALSE
      OBVIOUS
    <3>1. x \in Y /\ x \in Experts /\ m \in Experts /\ f[m] <= f[x] /\ f[x] \in Int /\ f[m] \in Int
      BY <2>2, <2>3
    <3>2. m \notin pool
      <4> SUFFICES ASSUME m \in pool PROVE FALSE
        OBVIOUS
      <4>1. f[x] < f[m]
        BY <3>1
      <4> QED
        BY <3>1, <4>1
    <3>3. pool \subseteq Y
      <4> SUFFICES ASSUME NEW y \in pool, y \notin Y PROVE FALSE
        OBVIOUS
      <4>1. f[x] >= f[y] /\ f[x] < f[y] /\ f[y] \in Int
        BY <2>3, <3>1
      <4> QED
        BY <3>1, <4>1
    <3>4. IsFiniteSet(X \ {x}) /\ Cardinality(X \ {x}) = Routed - 1
      BY <2>5, <2>6, FS_RemoveElement, ZenonT(60)
    <3>5. pool \in SUBSET (X \ {x})
      BY <2>2, <3>2, <3>3
    <3>6. Cardinality(pool) <= Routed - 1 /\ Cardinality(pool) \in Nat
      BY <2>4, <3>4, <3>5, FS_Subset, FS_CardinalityType
    <3> QED
      BY <1>1, <3>6
  <2>8. ASSUME NEW x \in X, NEW y \in pool \ X PROVE f[x] >= f[y]
    <3>1. x \in Y /\ x \in Experts /\ m \in Experts /\ f[m] <= f[x] /\ f[x] \in Int /\ f[m] \in Int
      BY <2>2, <2>3
    <3>2. CASE y = m
      BY <3>1, <3>2
    <3>3. CASE y # m
      BY <2>2, <2>3, <3>1, <3>3
    <3> QED
      BY <3>2, <3>3
  <2> QED
    BY <2>2, <2>3, <2>5, <2>6, <2>7, <2>8 DEF Beats
<1> QED
  BY <1>2, <1>3

\* The experts of the groups kept.
PoolOf(gs) == UNION {Members(g) : g \in gs}

LEMMA GroupsHold ==
    ASSUME c \in Configs, c.groups > 0, NEW f, DOMAIN f = 0 .. c.groups - 1,
           NEW gs \in TopSets(f, c.topk_group)
    PROVE  /\ PoolOf(gs) = {e \in Experts : GroupOf(e) \in gs}
           /\ PoolOf(gs) \subseteq Experts /\ Cardinality(PoolOf(gs)) >= Routed
<1> DEFINE d == E \div c.groups
           J == 0 .. d - 1
           G == 0 .. c.groups - 1
           h == [p \in gs \X J |-> p[1] * d + p[2]]
<1>1. PoolOf(gs) = {e \in Experts : GroupOf(e) \in gs}
  BY DEF PoolOf, Members
<1>2. /\ c.groups \in Nat \ {0} /\ c.topk_group \in Nat /\ E % c.groups = 0
      /\ c.topk_group * d >= c.top_k - c.n
  BY ConfigFacts, GroupAssumption, SMTT(60)
<1>3. E \in Nat /\ E > 0
  BY ConstantFacts
<1>4. d \in Nat /\ E = c.groups * d
  <2>1. d \in Nat /\ E = c.groups * d + (E % c.groups)
    BY <1>2, <1>3, DivMod
  <2> QED
    BY <1>2, <1>3, <2>1
<1> HIDE DEF d
<1>5. d \in Nat \ {0}
  BY <1>2, <1>3, <1>4
<1>6. gs \subseteq G /\ Cardinality(gs) = c.topk_group
  BY DEF TopSets, kSubset
<1>7. IsFiniteSet(G) /\ IsFiniteSet(J) /\ Cardinality(J) = d
  <2>1. c.groups - 1 \in Int /\ d - 1 \in Int
    BY <1>2, <1>4
  <2> QED
    BY <1>5, <2>1, FS_Interval, SMTT(60)
<1>8. IsFiniteSet(gs)
  BY <1>6, <1>7, FS_Subset
<1>9. Cardinality(gs \X J) = c.topk_group * d
  <2> HIDE DEF J
  <2>1. Cardinality(gs \X J) = Cardinality(gs) * Cardinality(J)
    BY <1>7, <1>8, FS_Product
  <2> QED
    BY <1>6, <1>7, <2>1
<1>10. ASSUME NEW g \in G, NEW j \in J
       PROVE  g * d + j \in Experts /\ (g * d + j) \div d = g /\ (g * d + j) % d = j
  <2>1. g * d \in Nat /\ g * d <= E - d
    <3>1. g \in Nat /\ c.groups - 1 - g \in Nat
      BY <1>2
    <3>2. g * d \in Nat /\ (c.groups - 1 - g) * d \in Nat
      BY <1>5, <3>1
    <3>3. (c.groups - 1 - g) * d = c.groups * d - d - g * d
      BY <1>2, <1>5, <3>1, SMTT(60)
    <3> QED
      BY <1>3, <1>4, <1>5, <3>2, <3>3
  <2>2. g * d + j \in 0 .. E - 1 /\ g * d + j \in Nat
    BY <1>3, <1>5, <2>1
  <2>3. (g * d + j) \div d = g /\ (g * d + j) % d = j
    <3> DEFINE q == (g * d + j) \div d
               r == (g * d + j) % d
    <3>1. q \in Nat /\ r \in 0 .. d - 1 /\ g * d + j = d * q + r
      BY <1>5, <2>2, DivMod
    <3> HIDE DEF q, r
    <3>2. g \in Int /\ j \in 0 .. d - 1 /\ q \in Int /\ d * g + j = d * q + r
      BY <1>2, <1>5, <3>1
    <3>3. g = q /\ j = r
      BY <1>5, <3>1, <3>2, Digits
    <3> QED
      BY <3>3 DEF q, r
  <2> QED
    BY <2>2, <2>3 DEF Experts
<1>11. h \in Injection(gs \X J, PoolOf(gs))
  <2>1. ASSUME NEW p \in gs \X J PROVE h[p] \in PoolOf(gs) /\ h[p] \div d = p[1] /\ h[p] % d = p[2]
    <3>1. p[1] \in gs /\ p[1] \in G /\ p[2] \in J /\ h[p] = p[1] * d + p[2]
      BY <1>6
    <3>2. h[p] \in Experts /\ h[p] \div d = p[1] /\ h[p] % d = p[2]
      BY <1>10, <3>1
    <3>3. GroupOf(h[p]) = p[1]
      BY <3>2 DEF GroupOf, d
    <3> QED
      BY <1>1, <3>1, <3>2, <3>3
  <2>2. h \in [gs \X J -> PoolOf(gs)]
    BY <2>1
  <2>3. ASSUME NEW p \in gs \X J, NEW q \in gs \X J, h[p] = h[q] PROVE p = q
    <3>1. p[1] = q[1] /\ p[2] = q[2]
      BY <2>1, <2>3
    <3> QED
      BY <3>1
  <2> HIDE DEF h
  <2> QED
    BY <2>2, <2>3 DEF Injection, IsInjective
<1>12. PoolOf(gs) \subseteq Experts /\ IsFiniteSet(PoolOf(gs))
  BY <1>1, ConstantFacts, FS_Subset
<1> HIDE DEF h, J
<1>13. Cardinality(gs \X J) <= Cardinality(PoolOf(gs))
  BY <1>11, <1>12, FS_Injection
<1>14. Cardinality(PoolOf(gs)) \in Nat
  BY <1>12, FS_CardinalityType
<1> QED
  BY <1>1, <1>2, <1>5, <1>9, <1>12, <1>13, <1>14, ConfigFacts, SMTT(60) DEF Routed

LEMMA GroupedPool ==
    ASSUME c \in Configs, c.groups > 0, NEW f, DOMAIN f = 0 .. c.groups - 1,
           NEW gs \in TopSets(f, c.topk_group), NEW g \in [Experts -> Int], NEW fill \in Int,
           \A e \in Experts : fill < g[e],
           NEW X \in Picked(OfGroups(g, gs, fill)) \cup TopSets(OfGroups(g, gs, fill), Routed)
    PROVE  X \subseteq Experts /\ Cardinality(X) = Routed /\ Beats(X, PoolOf(gs), g)
<1> DEFINE h == OfGroups(g, gs, fill)
           pool == PoolOf(gs)
<1>1. /\ pool = {e \in Experts : GroupOf(e) \in gs} /\ pool \subseteq Experts
      /\ Cardinality(pool) >= Routed
  BY GroupsHold
<1>2. h \in [Experts -> Int] /\ \A e \in Experts : h[e] = IF e \in pool THEN g[e] ELSE fill
  BY <1>1 DEF OfGroups
<1>3. Routed \in Nat /\ X \in Picked(h) \cup TopSets(h, Routed)
  BY ConfigFacts
<1> HIDE DEF h, pool
<1>4. \A x \in Experts \ pool, y \in pool : h[x] < h[y]
  BY <1>1, <1>2
<1>5. X \subseteq Experts /\ Cardinality(X) = Routed /\ Beats(X, pool, h)
  <2>1. CASE X \in Picked(h)
    BY <1>1, <1>2, <1>4, <2>1, PickedPool
  <2>2. CASE X \in TopSets(h, Routed)
    BY <1>1, <1>2, <1>3, <1>4, <2>2, TopPool
  <2> QED
    BY <1>3, <2>1, <2>2
<1>6. Beats(X, pool, g)
  BY <1>1, <1>2, <1>5 DEF Beats
<1> QED
  BY <1>5, <1>6 DEF pool

\* The scores that decide, and what a gate promises about its choice.
Choice == IF c.bias = None THEN token.scores ELSE Biased(token.scores)
Value == IF c.bias = None THEN MaxScores(Choice) ELSE PairScores(Choice)
Best(X) ==
    IF c.groups = 0 THEN Beats(X, IF c.cold = None THEN Experts ELSE c.kept, Choice)
    ELSE \E gs \in TopSets(Value, c.topk_group) : Beats(X, PoolOf(gs), Choice)

LEMMA ScoreFacts ==
    ASSUME c \in Configs, token \in Tokens
    PROVE  /\ token.scores \in [Experts -> Int] /\ \A e \in Experts : token.scores[e] > 0
           /\ Choice \in [Experts -> Int]
           /\ c.bias # None => \A e \in Experts : Choice[e] > NegInf
           /\ c.cold = None => KeepMasked(token.scores) = token.scores
<1>1. token.scores \in [Experts -> 1 .. MaxScore] /\ MaxScore \in Nat
  BY LayerAssumption DEF Tokens
<1>2. token.scores \in [Experts -> Int] /\ \A e \in Experts : token.scores[e] > 0
  BY <1>1
<1>3. c.bias # None => c.bias \in [Experts -> Int]
  BY ConfigAssumption DEF ConfigShape
<1>4. c.bias # None => \A e \in Experts : c.bias[e] > NegInf
  BY ConfigFacts
<1>5. CASE c.bias = None
  BY <1>2, <1>5 DEF Choice, KeepMasked
<1>6. CASE c.bias # None
  <2>1. Choice = [e \in Experts |-> token.scores[e] + c.bias[e]]
    BY <1>6 DEF Choice, Biased
  <2>2. \A e \in Experts : token.scores[e] \in Int /\ c.bias[e] \in Int
    BY <1>2, <1>3, <1>6
  <2>3. Choice \in [Experts -> Int] /\ \A e \in Experts : Choice[e] > NegInf
    BY <1>2, <1>4, <1>6, <2>1, <2>2 DEF NegInf
  <2>4. c.cold = None => KeepMasked(token.scores) = token.scores
    BY <1>2 DEF KeepMasked
  <2> QED
    BY <1>2, <1>6, <2>3, <2>4
<1> QED
  BY <1>5, <1>6

\* The softmax gate has no shared expert to leave out.
LEMMA SoftmaxPicked ==
    ASSUME c \in Configs, c.groups = 0, NEW f
    PROVE  FusedTopk(f) = Picked(f)
<1>1. c.scoring = "softmax" => c.n = 0
  BY ConfigFacts
<1>2. Routed = c.top_k - c.n /\ c.top_k \in Nat
  BY ConfigFacts DEF Routed
<1>3. c.n = 0 => Routed = c.top_k
  BY <1>2
<1> QED
  BY <1>1, <1>3 DEF FusedTopk, Picked

LEMMA GateBest ==
    ASSUME c \in Configs, token \in Tokens, NEW X \in Gate(KeepMasked(token.scores))
    PROVE  X \subseteq Experts /\ Cardinality(X) = Routed /\ Best(X)
<1> DEFINE s == KeepMasked(token.scores)
<1>1. /\ Routed \in Nat /\ Routed <= E /\ c.groups \in Nat /\ c.kept \subseteq Experts
      /\ Cardinality(c.kept) >= c.top_k /\ c.top_k \in Nat /\ Routed + c.n = c.top_k /\ c.n \in {0, 1}
      /\ c.cold # None => c.groups = 0 /\ c.bias = None
  BY ConfigFacts
<1>2. /\ token.scores \in [Experts -> Int] /\ \A e \in Experts : token.scores[e] > 0
      /\ Choice \in [Experts -> Int]
      /\ c.bias # None => \A e \in Experts : Choice[e] > NegInf
      /\ c.cold = None => s = token.scores
  BY ScoreFacts
<1>3. UsesDeepseek => c.groups > 0 /\ c.bias # None
  BY DEF UsesDeepseek
<1>4. X \in Gate(s)
  OBVIOUS
<1>5. CASE c.cold # None
  <2>1. Choice = token.scores
    BY <1>1, <1>5 DEF Choice
  <2>2. ~UsesDeepseek /\ ~(c.groups > 0) /\ c.bias = None
    BY <1>1, <1>3, <1>5
  <2>3. X \in Picked(s)
    BY <1>1, <1>4, <2>2, SoftmaxPicked DEF Gate
  <2>4. s = [e \in Experts |-> IF e \notin c.kept THEN 0 ELSE token.scores[e]]
    BY <1>5 DEF KeepMasked
  <2> HIDE DEF s
  <2>5. /\ s \in [Experts -> Int] /\ \A x \in Experts \ c.kept, y \in c.kept : s[x] < s[y]
        /\ \A y \in c.kept : s[y] = token.scores[y]
    BY <1>1, <1>2, <2>4
  <2>6. Cardinality(c.kept) >= Routed
    <3>1. Cardinality(c.kept) \in Nat
      BY <1>1, ConstantFacts, FS_Subset, FS_CardinalityType
    <3> QED
      BY <1>1, <3>1
  <2>7. X \subseteq Experts /\ Cardinality(X) = Routed /\ Beats(X, c.kept, s)
    BY <1>1, <2>3, <2>5, <2>6, PickedPool
  <2>8. Beats(X, c.kept, Choice)
    BY <2>1, <2>5, <2>7 DEF Beats
  <2> QED
    BY <1>1, <1>5, <2>7, <2>8 DEF Best
<1>6. CASE c.cold = None /\ c.groups = 0
  <2>1. ~UsesDeepseek /\ ~(c.groups > 0) /\ s = token.scores
    BY <1>2, <1>3, <1>6
  <2>2. X \in Picked(Choice)
    <3>1. CASE c.bias = None
      BY <1>4, <1>6, <2>1, <3>1, SoftmaxPicked DEF Gate, Choice
    <3>2. CASE c.bias # None
      BY <1>4, <1>6, <2>1, <3>2 DEF Gate, BiasedTopk, Choice
    <3> QED
      BY <3>1, <3>2
  <2>3. Cardinality(Experts) >= Routed /\ \A x \in Experts \ Experts, y \in Experts : Choice[x] < Choice[y]
    BY <1>1, ConstantFacts
  <2>4. X \subseteq Experts /\ Cardinality(X) = Routed /\ Beats(X, Experts, Choice)
    BY <1>2, <2>2, <2>3, PickedPool
  <2> QED
    BY <1>6, <2>4 DEF Best
<1>7. CASE c.cold = None /\ c.groups > 0
  <2>1. s = token.scores /\ c.groups # 0
    BY <1>1, <1>2, <1>7
  <2>2. DOMAIN Value = 0 .. c.groups - 1
    BY DEF Value, MaxScores, PairScores
  <2>3. CASE c.bias = None
    <3>1. ~UsesDeepseek /\ Choice = token.scores /\ Value = MaxScores(token.scores)
      BY <1>3, <2>3 DEF Choice, Value
    <3>2. X \in GroupedTopk(token.scores)
      BY <1>4, <1>7, <2>1, <2>3, <3>1 DEF Gate
    <3>3. PICK gs \in TopSets(Value, c.topk_group) : X \in Picked(OfGroups(Choice, gs, 0))
      BY <3>1, <3>2 DEF GroupedTopk
    <3>4. 0 \in Int /\ \A e \in Experts : 0 < Choice[e]
      BY <1>2, <3>1
    <3>5. X \in Picked(OfGroups(Choice, gs, 0)) \cup TopSets(OfGroups(Choice, gs, 0), Routed)
      BY <3>3
    <3>6. X \subseteq Experts /\ Cardinality(X) = Routed /\ Beats(X, PoolOf(gs), Choice)
      BY <1>2, <1>7, <2>2, <3>4, <3>5, GroupedPool
    <3> QED
      BY <2>1, <3>6 DEF Best
  <2>4. CASE c.bias # None
    <3>1. Choice = Biased(token.scores) /\ Value = PairScores(Biased(token.scores))
      BY <2>4 DEF Choice, Value
    <3>2. X \in DeepseekTopk(token.scores) \cup BiasedGroupedTopk(token.scores)
      BY <1>4, <1>7, <2>1, <2>4 DEF Gate
    <3>3. PICK gs \in TopSets(Value, c.topk_group) :
            X \in Picked(OfGroups(Choice, gs, NegInf)) \cup TopSets(OfGroups(Choice, gs, NegInf), Routed)
      BY <3>1, <3>2 DEF DeepseekTopk, BiasedGroupedTopk
    <3>4. NegInf \in Int /\ \A e \in Experts : NegInf < Choice[e]
      BY <1>2, <2>4 DEF NegInf
    <3>5. X \subseteq Experts /\ Cardinality(X) = Routed /\ Beats(X, PoolOf(gs), Choice)
      BY <1>2, <1>7, <2>2, <3>3, <3>4, GroupedPool
    <3> QED
      BY <2>1, <3>5 DEF Best
  <2> QED
    BY <2>3, <2>4
<1> QED
  BY <1>1, <1>5, <1>6, <1>7

----------------------------------------------------------------------------
(* The row a gate or a benchmark routing yields                            *)

\* The routed columns hold the experts of X, each once; a shared one follows.
GateRow(cols, X) ==
    /\ IsRow(cols, Width) /\ X \subseteq Experts
    /\ \A i \in 1 .. Routed : cols[i].e \in X /\ cols[i].id = cols[i].e
    /\ \A i, j \in 1 .. Routed : i # j => cols[i].e # cols[j].e
    /\ \A x \in X : \E i \in 1 .. Routed : cols[i].e = x
    /\ \A i \in Routed + 1 .. Width : cols[i].e = Shared /\ cols[i].id = E

LEMMA RoutedColumnsRow ==
    ASSUME c \in Configs, NEW X, X \subseteq Experts, Cardinality(X) = Routed, NEW weight
    PROVE  /\ IsRow(RoutedColumns(X, weight), Routed)
           /\ \A i \in 1 .. Routed : /\ RoutedColumns(X, weight)[i].e \in X
                                     /\ RoutedColumns(X, weight)[i].id = RoutedColumns(X, weight)[i].e
           /\ \A i, j \in 1 .. Routed :
                 i # j => RoutedColumns(X, weight)[i].e # RoutedColumns(X, weight)[j].e
           /\ \A x \in X : \E i \in 1 .. Routed : RoutedColumns(X, weight)[i].e = x
<1> DEFINE s == SetToSeq(X)
           R == RoutedColumns(X, weight)
<1>1. IsFiniteSet(X)
  BY ConstantFacts, FS_Subset
<1>2. /\ s \in [1 .. Routed -> X]
      /\ \A i, j \in 1 .. Routed : i # j => s[i] # s[j]
      /\ \A x \in X : \E i \in 1 .. Routed : s[i] = x
  BY <1>1, Enumeration
<1>3. R = [i \in 1 .. Routed |-> Column(s[i], s[i], weight[s[i]])]
  BY DEF RoutedColumns
<1> HIDE DEF R, s
<1>4. \A i \in 1 .. Routed : IsColumn(R[i]) /\ R[i].e = s[i] /\ R[i].id = s[i]
  BY <1>3, ColumnFields
<1>5. R = [i \in 1 .. Routed |-> R[i]]
  BY <1>3
<1>6. IsRow(R, Routed)
  BY <1>4, <1>5 DEF IsRow
<1>7. \A i \in 1 .. Routed : s[i] \in X
  BY <1>2
<1> QED
  BY <1>2, <1>4, <1>6, <1>7 DEF R

LEMMA ColumnsRow ==
    ASSUME c \in Configs, NEW X, X \subseteq Experts, Cardinality(X) = Routed, NEW scores
    PROVE  GateRow(Columns(X, scores), X)
<1>1. /\ Routed \in Nat /\ Routed + c.n = c.top_k /\ c.n \in {0, 1} /\ c.top_k \in Nat
      /\ c.platform \in {"cuda", "hip"}
  BY ConfigFacts
<1>2. \/ \E weight : /\ c.n = 0 \/ c.platform = "hip"
                     /\ Columns(X, scores) = RoutedColumns(X, weight)
      \/ \E weight, w : /\ c.n # 0 /\ c.platform # "hip"
                        /\ Columns(X, scores) = Append(RoutedColumns(X, weight), Column(Shared, SharedId, w))
  <2>1. CASE UsesDeepseek
    <3>1. c.platform = "cuda"
      BY <2>1 DEF UsesDeepseek
    <3> QED
      BY <2>1, <3>1 DEF Columns, DeepseekColumns
  <2>2. CASE ~UsesDeepseek
    BY <2>2 DEF Columns, ImplColumns
  <2> QED
    BY <2>1, <2>2
<1>3. ASSUME NEW weight, c.n = 0 \/ c.platform = "hip"
      PROVE  GateRow(RoutedColumns(X, weight), X)
  <2>1. Width = Routed /\ Routed + 1 .. Width = {}
    BY <1>1, <1>3 DEF Width
  <2> QED
    BY <2>1, RoutedColumnsRow DEF GateRow
<1>4. ASSUME NEW weight, NEW w, c.n # 0, c.platform # "hip"
      PROVE  GateRow(Append(RoutedColumns(X, weight), Column(Shared, SharedId, w)), X)
  <2> DEFINE R == RoutedColumns(X, weight)
             last == Column(Shared, SharedId, w)
             A == Append(R, last)
  <2>1. /\ IsRow(R, Routed)
        /\ \A i \in 1 .. Routed : R[i].e \in X /\ R[i].id = R[i].e
        /\ \A i, j \in 1 .. Routed : i # j => R[i].e # R[j].e
        /\ \A x \in X : \E i \in 1 .. Routed : R[i].e = x
    BY RoutedColumnsRow
  <2>2. IsColumn(last) /\ last.e = Shared /\ last.id = E
    BY ColumnFields DEF SharedId
  <2> HIDE DEF R, last
  <2>3. Extends(A, R, Routed, last)
    BY <1>1, <2>1, <2>2, AppendToRow
  <2>4. Width = Routed + 1 /\ Routed + 1 .. Width = {Routed + 1}
    BY <1>1, <1>4 DEF Width
  <2> HIDE DEF A
  <2>5. IsRow(A, Routed + 1) /\ A[Routed + 1] = last /\ \A i \in 1 .. Routed : A[i] = R[i]
    BY <2>3 DEF Extends
  <2>6. GateRow(A, X)
    BY <2>1, <2>2, <2>4, <2>5 DEF GateRow
  <2> QED
    BY <2>6 DEF A, R, last
<1> QED
  BY <1>2, <1>3, <1>4

\* Two numbers less than E apart leave different remainders.
LEMMA Remainders ==
    ASSUME NEW a \in Nat, NEW b \in Nat, a < b, b - a < E
    PROVE  a % E # b % E
<1>1. E \in Nat \ {0}
  BY ConstantFacts
<1> DEFINE p == a \div E
           q == b \div E
<1>2. p \in Nat /\ q \in Nat /\ a % E \in Int /\ b % E \in Int /\ a = E * p + (a % E) /\ b = E * q + (b % E)
  BY <1>1, DivMod
<1> HIDE DEF p, q
<1> SUFFICES ASSUME a % E = b % E PROVE FALSE
  OBVIOUS
<1>3. b - a = E * (q - p)
  BY <1>1, <1>2
<1>4. q - p \in Int /\ ~(q - p <= 0) /\ ~(q - p >= 1)
  <2>1. q - p \in Int
    BY <1>2
  <2> DEFINE d == q - p
  <2>2. d \in Int /\ E * d > 0 /\ E * d < E
    BY <1>3, <2>1
  <2> HIDE DEF d
  <2>3. ~(d <= 0)
    BY <1>1, <2>2
  <2>4. ~(d >= 1)
    BY <1>1, <2>2
  <2> QED
    BY <2>1, <2>3, <2>4 DEF d
<1> QED
  BY <1>4

LEMMA SpacedRow ==
    ASSUME c \in Configs, c.simulate # "none", NEW offset \in Nat
    PROVE  \E X : GateRow(Spaced(offset), X)
<1> DEFINE k == c.top_k
           step == IF E \div k > 1 THEN E \div k ELSE 1
           At(j) == offset + (j - 1) * step
           S == Spaced(offset)
<1>1. /\ c.n = 0 /\ k = Routed /\ k \in Nat \ {0} /\ k <= E /\ c.platform = "cuda"
  BY ConfigFacts
<1>2. E \in Nat /\ E > 0
  BY ConstantFacts
<1>3. S = [j \in 1 .. k |-> Column(At(j) % E, At(j) % E, <<1, k>>)]
  BY DEF Spaced
<1>4. step \in Nat /\ step >= 1 /\ k * step <= E
  <2>1. E \div k \in Nat /\ k * (E \div k) <= E
    <3>1. E \div k \in Nat /\ E % k \in 0 .. k - 1 /\ E = k * (E \div k) + (E % k)
      BY <1>1, <1>2, DivMod
    <3>2. k * (E \div k) \in Nat
      BY <1>1, <3>1
    <3> QED
      BY <1>1, <1>2, <3>1, <3>2
  <2> QED
    BY <1>1, <1>2, <2>1
<1> HIDE DEF step, S
<1>5. \A j \in 1 .. k : At(j) \in Nat
  <2> SUFFICES ASSUME NEW j \in 1 .. k PROVE At(j) \in Nat
    OBVIOUS
  <2>1. j - 1 \in Nat
    BY <1>1
  <2>2. (j - 1) * step \in Nat
    BY <1>4, <2>1
  <2> QED
    BY <2>2
<1>6. ASSUME NEW i \in 1 .. k, NEW j \in 1 .. k, i < j PROVE At(i) % E # At(j) % E
  <2>1. i \in Int /\ j \in Int /\ j - i \in Nat /\ j - i >= 1 /\ k - 1 - (j - i) \in Nat
    BY <1>1, <1>6
  <2>2. (j - i) * step >= 1 /\ (j - i) * step < E
    <3> DEFINE d == j - i
               e == k - 1 - (j - i)
    <3>1. d \in Nat /\ d >= 1 /\ e \in Nat /\ k = d + e + 1
      BY <1>1, <2>1
    <3> HIDE DEF d, e
    <3>2. d * step \in Nat /\ d * step >= 1 /\ e * step \in Nat
      BY <1>4, <3>1
    <3>3. k * step = d * step + e * step + step
      BY <1>4, <3>1
    <3>4. d * step < E
      BY <1>2, <1>4, <3>2, <3>3
    <3> QED
      BY <3>2, <3>4 DEF d
  <2>3. At(j) - At(i) = (j - i) * step
    BY <1>4, <2>1
  <2>4. At(i) \in Nat /\ At(j) \in Nat
    BY <1>5
  <2> HIDE DEF At
  <2>5. At(i) < At(j) /\ At(j) - At(i) < E
    BY <1>2, <2>2, <2>3, <2>4
  <2> QED
    BY <2>4, <2>5, Remainders
<1>7. \A j \in 1 .. k : At(j) % E \in Experts
  <2> SUFFICES ASSUME NEW j \in 1 .. k PROVE At(j) % E \in Experts
    OBVIOUS
  <2> DEFINE a == At(j)
  <2>1. a \in Nat /\ E \in Nat \ {0}
    BY <1>2, <1>5
  <2> HIDE DEF a
  <2>2. a % E \in 0 .. E - 1
    BY <2>1, DivMod
  <2> QED
    BY <2>2 DEF Experts, a
<1>8. \A j \in 1 .. k : IsColumn(S[j]) /\ S[j].e = At(j) % E /\ S[j].id = At(j) % E
  BY <1>3, ColumnFields
<1>9. S = [j \in 1 .. k |-> S[j]]
  BY <1>3
<1> HIDE DEF At
<1>10. IsRow(S, k)
  BY <1>8, <1>9 DEF IsRow
<1>11. \A i, j \in 1 .. k : i # j => S[i].e # S[j].e
  <2> SUFFICES ASSUME NEW i \in 1 .. k, NEW j \in 1 .. k, i # j PROVE S[i].e # S[j].e
    OBVIOUS
  <2>1. i < j \/ j < i
    BY <1>1
  <2> QED
    BY <1>6, <1>8, <2>1
<1>12. Width = k /\ Routed + 1 .. Width = {}
  BY <1>1 DEF Width
<1> DEFINE X == {S[i].e : i \in 1 .. k}
<1>13. GateRow(S, X)
  <2>1. X \subseteq Experts
    BY <1>7, <1>8
  <2> QED
    BY <1>1, <1>8, <1>10, <1>11, <1>12, <2>1 DEF GateRow
<1> QED
  BY <1>13 DEF S

LEMMA RouterRow ==
    ASSUME c \in Configs, token \in Tokens, NEW cols \in RouterColumns
    PROVE  \E X : GateRow(cols, X) /\ (c.simulate = "none" => Best(X))
<1>1. CASE c.simulate = "none"
  <2>1. PICK X \in Gate(KeepMasked(token.scores)) : cols = Columns(X, KeepMasked(token.scores))
    BY <1>1 DEF RouterColumns
  <2>2. X \subseteq Experts /\ Cardinality(X) = Routed /\ Best(X)
    BY GateBest
  <2>3. GateRow(cols, X)
    BY <2>1, <2>2, ColumnsRow
  <2> QED
    BY <2>2, <2>3
<1>2. CASE c.simulate # "none"
  <2>1. PICK offset \in Nat : cols = Spaced(offset)
    <3>1. cols \in Simulated
      BY <1>2 DEF RouterColumns
    <3>2. token.pos \in Nat /\ Experts \subseteq Nat
      BY LayerAssumption, ConstantFacts DEF Tokens
    <3> QED
      BY <3>1, <3>2 DEF Simulated
  <2> QED
    BY <1>2, <2>1, SpacedRow
<1> QED
  BY <1>1, <1>2

----------------------------------------------------------------------------
(* The row that leaves the layer                                           *)

\* Where an expert that the gate chose is addressed.
Settled(e, id) ==
    \E p \in Physical(e) : id = IF c.slots THEN p + (p \div LocalRouted)
                                ELSE IF c.cold # None THEN c.cold[e] ELSE p

\* The result o puts the experts of X into the routed columns, each at a place
\* of its own, and the shared one behind them.
Result(o, X) ==
    /\ IsRow(o.cols, c.top_k) /\ X \subseteq Experts
    /\ \A i \in 1 .. Routed : o.cols[i].e \in X /\ Settled(o.cols[i].e, o.cols[i].id)
    /\ \A i, j \in 1 .. Routed : i # j => o.cols[i].e # o.cols[j].e
    /\ \A x \in X : \E i \in 1 .. Routed : o.cols[i].e = x
    /\ \A i \in Routed + 1 .. c.top_k :
          o.cols[i].e = Shared /\ o.cols[i].id = IF c.slots THEN SharedSlot ELSE E
    /\ RecorderRow(o)

\* Before the ids are renamed to rows of the cold pool.
LEMMA ResultOfPlaced ==
    ASSUME c \in Configs, NEW cols, NEW X, GateRow(cols, X), NEW new, IsRow(new, c.top_k), NEW seen,
           RoutedPlaced(cols, new), SharedPlaced(cols, new), Recorded(cols, new, seen)
    PROVE  Result([cols |-> ColdRows(new), seen |-> seen], X)
<1> DEFINE F == ColdRows(new)
           o == [cols |-> F, seen |-> seen]
<1>1. /\ Routed \in Nat /\ Routed + c.n = c.top_k /\ c.n \in {0, 1} /\ c.top_k \in Nat
      /\ c.platform \in {"cuda", "hip"}
      /\ c.cold # None => c.replicas = None /\ ~c.slots /\ c.cold \in [Experts -> Experts]
  BY ConfigFacts
<1>2. /\ IsRow(F, c.top_k)
      /\ \A i \in 1 .. c.top_k :
            /\ F[i].e = new[i].e
            /\ F[i].id = IF c.cold # None /\ new[i].id \in Experts THEN c.cold[new[i].id] ELSE new[i].id
  BY <1>1, ColdRow
<1> HIDE DEF F
<1>3. /\ IsRow(cols, Width) /\ X \subseteq Experts
      /\ \A i \in 1 .. Routed : cols[i].e \in X /\ cols[i].id = cols[i].e
      /\ \A i, j \in 1 .. Routed : i # j => cols[i].e # cols[j].e
      /\ \A x \in X : \E i \in 1 .. Routed : cols[i].e = x
      /\ \A i \in Routed + 1 .. Width : cols[i].e = Shared /\ cols[i].id = E
  BY DEF GateRow
<1>4. \A i \in 1 .. Routed : i \in 1 .. c.top_k
  BY <1>1
<1>5. \A i \in 1 .. Routed : F[i].e = cols[i].e
  BY <1>2, <1>4 DEF RoutedPlaced
<1>6. ASSUME NEW i \in 1 .. Routed PROVE Settled(F[i].e, F[i].id)
  <2> DEFINE e == cols[i].e
  <2>1. e \in Experts /\ cols[i].id = e /\ F[i].e = e
    BY <1>3, <1>5
  <2>2. PICK p \in Physical(e) : new[i].id = IF c.slots THEN p + (p \div LocalRouted) ELSE p
    BY <2>1 DEF RoutedPlaced, Placed
  <2>3. F[i].id = IF c.cold # None /\ new[i].id \in Experts THEN c.cold[new[i].id] ELSE new[i].id
    BY <1>2, <1>4
  <2> HIDE DEF e
  <2>4. CASE c.cold = None
    BY <2>1, <2>2, <2>3, <2>4 DEF Settled
  <2>5. CASE c.cold # None
    <3>1. ~c.slots /\ Physical(e) = {e}
      BY <1>1, <2>5 DEF Physical
    <3>2. new[i].id = e /\ p = e
      BY <2>2, <3>1
    <3>3. F[i].id = c.cold[e]
      BY <2>1, <2>3, <2>5, <3>2
    <3> QED
      BY <2>1, <2>5, <3>1, <3>3 DEF Settled
  <2> QED
    BY <2>4, <2>5
<1>7. ASSUME NEW i \in Routed + 1 .. c.top_k
      PROVE  F[i].e = Shared /\ F[i].id = IF c.slots THEN SharedSlot ELSE E
  <2>1. i \in 1 .. c.top_k
    BY <1>1
  <2>2. c.platform # "hip" => cols[i].e = Shared /\ cols[i].id = E
    BY <1>3 DEF Width
  <2>3. new[i].e = Shared /\ new[i].id = IF c.slots THEN SharedSlot ELSE E
    BY <2>2 DEF SharedPlaced
  <2>4. c.cold # None => new[i].id \notin Experts
    BY <1>1, <2>3, ConstantFacts DEF Shared
  <2> QED
    BY <1>2, <2>1, <2>3, <2>4
<1>8. ASSUME ~RecorderAliased, NEW i \in DOMAIN seen, IsRouted(seen[i])
      PROVE  seen[i].id \in Physical(seen[i].e)
  <2>1. PICK m \in {Routed, c.top_k} :
           /\ IsRow(seen, m)
           /\ \A k \in 1 .. m : seen[k].e = IF k <= Routed \/ c.platform = "cuda" THEN cols[k].e ELSE Shared
           /\ \A k \in 1 .. Routed : seen[k].id \in Physical(cols[k].id)
    BY <1>8 DEF Recorded
  <2>2. i \in 1 .. m
    BY <2>1 DEF IsRow
  <2>3. CASE i <= Routed
    <3>1. i \in 1 .. Routed
      BY <1>1, <2>2, <2>3
    <3> QED
      BY <1>3, <2>1, <2>2, <2>3, <3>1
  <2>4. CASE ~(i <= Routed)
    <3>1. i \in Routed + 1 .. c.top_k /\ c.platform # "hip" => Width = c.top_k
      BY DEF Width
    <3>2. i \in Routed + 1 .. c.top_k
      BY <1>1, <2>2, <2>4
    <3>3. seen[i].e = Shared
      BY <1>1, <1>3, <2>1, <2>2, <2>4, <3>1, <3>2
    <3> QED
      BY <1>8, <3>3 DEF IsRouted
  <2> QED
    BY <2>3, <2>4
<1>9. o.cols = F /\ o.seen = seen
  OBVIOUS
<1>11. RecorderAliased => seen = F
  <2> SUFFICES ASSUME RecorderAliased PROVE seen = F
    OBVIOUS
  <2>1. seen = new /\ c.cold = None
    BY <1>1 DEF Recorded, RecorderAliased
  <2> QED
    BY <2>1 DEF F, ColdRows
<1> HIDE DEF o
<1>10. Result(o, X)
  BY <1>2, <1>3, <1>5, <1>6, <1>7, <1>8, <1>9, <1>11 DEF Result, RecorderRow, SeenPhysical
<1> QED
  BY <1>10 DEF o, F

\* What one forward of the layer delivers.
Delivered(o) ==
    /\ IsRow(o.cols, c.top_k)
    /\ IsPadded => Silent(o.cols)
    /\ ~IsPadded => \E X : Result(o, X) /\ (c.simulate = "none" => Best(X))

LEMMA SelectDelivers ==
    ASSUME c \in Configs, token \in Tokens, SelectExperts
    PROVE  Delivered(out')
<1>1. PICK cols \in RouterColumns : \E post \in PostProcess(cols) :
         out' = [cols |-> ColdRows(post.cols), seen |-> post.seen]
  BY DEF SelectExperts
<1>2. PICK post \in PostProcess(cols) : out' = [cols |-> ColdRows(post.cols), seen |-> post.seen]
  BY <1>1
<1>3. PICK X : GateRow(cols, X) /\ (c.simulate = "none" => Best(X))
  BY RouterRow
<1>4. /\ IsRow(post.cols, c.top_k)
      /\ IsPadded => Silent(post.cols)
      /\ ~IsPadded => /\ RoutedPlaced(cols, post.cols) /\ SharedPlaced(cols, post.cols)
                      /\ Recorded(cols, post.cols, post.seen)
  <2>1. CASE c.platform = "cuda"
    <3>1. IsRow(cols, c.top_k)
      BY <1>3, <2>1 DEF GateRow, Width
    <3> QED
      BY <2>1, <3>1, CudaPost
  <2>2. CASE c.platform = "hip"
    <3>1. IsRow(cols, Routed)
      BY <1>3, <2>2 DEF GateRow, Width
    <3> QED
      BY <2>2, <3>1, HipPost
  <2> QED
    BY <2>1, <2>2, ConfigFacts
<1> DEFINE F == ColdRows(post.cols)
<1>5. /\ IsRow(F, c.top_k)
      /\ \A i \in 1 .. c.top_k :
            /\ F[i].w = post.cols[i].w
            /\ F[i].id = IF c.cold # None /\ post.cols[i].id \in Experts THEN c.cold[post.cols[i].id]
                         ELSE post.cols[i].id
  BY <1>4, ColdRow, ConfigFacts
<1> HIDE DEF F
<1>6. ASSUME IsPadded PROVE Silent(F)
  <2> SUFFICES ASSUME NEW i \in 1 .. c.top_k
               PROVE  /\ \/ F[i].id < 0 \/ F[i].w[1] = 0
                         \/ c.platform = "cuda" /\ c.slots /\ i > Routed
                         \/ c.platform = "hip" /\ c.unmasked
                      /\ c.platform = "hip" => F[i].id \in 0 .. Places - 1
    BY DEF Silent
  <2>1. /\ \/ post.cols[i].id < 0 \/ post.cols[i].w[1] = 0
           \/ c.platform = "cuda" /\ c.slots /\ i > Routed
           \/ c.platform = "hip" /\ c.unmasked
        /\ c.platform = "hip" => post.cols[i].id \in 0 .. Places - 1
    BY <1>4, <1>6 DEF Silent
  <2>2. post.cols[i].id < 0 => post.cols[i].id \notin Experts
    BY ConstantFacts DEF Experts
  <2>3. c.platform = "hip" => c.cold = None
    BY ConfigFacts
  <2> QED
    BY <1>5, <2>1, <2>2, <2>3
<1>7. ASSUME ~IsPadded PROVE Result([cols |-> F, seen |-> post.seen], X)
  BY <1>3, <1>4, <1>7, ResultOfPlaced DEF F
<1>8. out' = [cols |-> F, seen |-> post.seen] /\ out'.cols = F
  BY <1>2 DEF F
<1> QED
  BY <1>3, <1>5, <1>6, <1>7, <1>8 DEF Delivered

LEMMA PrecomputedDelivers ==
    ASSUME c \in Configs, token \in Tokens, BuildPrecomputed
    PROVE  Delivered(out')
<1>1. PICK X \in Gate(token.scores) :
         out' = [cols |-> Columns(X, token.scores), seen |-> Columns(X, token.scores)]
  BY DEF BuildPrecomputed
<1> DEFINE F == Columns(X, token.scores)
<1>2. /\ c.precomputed /\ c.platform = "cuda" /\ c.n = 0 /\ ~token.known /\ c.replicas = None
      /\ c.simulate = "none"
  BY DEF BuildPrecomputed, PostProcessIsNoop
<1>3. /\ c.cold = None /\ ~c.slots /\ Routed = c.top_k /\ Routed \in Nat
  BY <1>2, ConfigFacts
<1>4. ~IsPadded
  BY <1>2 DEF IsPadded
<1>5. KeepMasked(token.scores) = token.scores
  BY <1>3, ScoreFacts
<1>6. X \subseteq Experts /\ Cardinality(X) = Routed /\ Best(X)
  BY <1>5, GateBest
<1>7. GateRow(F, X)
  BY <1>6, ColumnsRow
<1> HIDE DEF F
<1>8. IsRow(F, c.top_k)
  BY <1>2, <1>7 DEF GateRow, Width
<1>9. \A i \in 1 .. Routed : F[i].e \in Experts /\ F[i].id = F[i].e /\ F[i].id \in Physical(F[i].e)
  BY <1>2, <1>7 DEF GateRow, Physical
<1>10. Result([cols |-> F, seen |-> F], X)
  <2> DEFINE o == [cols |-> F, seen |-> F]
  <2>1. o.cols = F /\ o.seen = F
    OBVIOUS
  <2>2. \A i \in 1 .. Routed : Settled(F[i].e, F[i].id)
    BY <1>3, <1>9 DEF Settled
  <2>3. Routed + 1 .. c.top_k = {} /\ DOMAIN F = 1 .. Routed
    BY <1>3, <1>8 DEF IsRow
  <2> HIDE DEF o
  <2>4. Result(o, X)
    BY <1>7, <1>8, <1>9, <2>1, <2>2, <2>3 DEF Result, GateRow, RecorderRow, SeenPhysical
  <2> QED
    BY <2>4 DEF o
<1>11. out' = [cols |-> F, seen |-> F] /\ out'.cols = F
  BY <1>1 DEF F
<1> QED
  BY <1>4, <1>6, <1>8, <1>10, <1>11 DEF Delivered

----------------------------------------------------------------------------
(* Addresses                                                               *)

\* Shared slots leave the ids of different physical experts apart, and apart
\* from the slots.
LEMMA ShiftedApart ==
    ASSUME NEW L \in Nat \ {0}, NEW p \in Nat
    PROVE  /\ \A q \in Nat : p # q => p + (p \div L) # q + (q \div L)
           /\ \A r \in Nat : p + (p \div L) # r * (L + 1) + L
<1> DEFINE a == p \div L
           x == p % L
<1>1. a \in Nat /\ x \in 0 .. L - 1 /\ p = L * a + x
  BY DivMod
<1> HIDE DEF a, x
<1>2. p + a = (L + 1) * a + x /\ a \in Int /\ x \in 0 .. (L + 1) - 1 /\ L + 1 \in Nat \ {0}
  BY <1>1
<1>3. ASSUME NEW q \in Nat, p + a = q + (q \div L) PROVE p = q
  <2> DEFINE b == q \div L
             y == q % L
  <2>1. b \in Nat /\ y \in 0 .. L - 1 /\ q = L * b + y
    BY DivMod
  <2>2. p + a = q + b
    BY <1>3
  <2> HIDE DEF b, y
  <2>3. q + b = (L + 1) * b + y /\ b \in Int /\ y \in 0 .. (L + 1) - 1
    BY <2>1
  <2>4. a = b /\ x = y
    BY <1>2, <2>2, <2>3, Digits
  <2> QED
    BY <1>1, <2>1, <2>4
<1>4. ASSUME NEW r \in Nat, p + a = r * (L + 1) + L PROVE FALSE
  <2>1. r \in Int /\ L \in 0 .. (L + 1) - 1 /\ (L + 1) * a + x = (L + 1) * r + L
    BY <1>2, <1>4
  <2>2. x = L
    BY <1>2, <2>1, Digits
  <2> QED
    BY <1>1, <2>2
<1> QED
  BY <1>3, <1>4 DEF a

\* The id of a physical expert is its place in the block of its rank.
LEMMA BlockAddress ==
    ASSUME c \in Configs, c.slots
    PROVE  /\ \A p \in Nat : AddressOf(p) = p + (p \div LocalRouted)
           /\ SharedSlot = AddressOf(c.ep_rank * LocalRouted) + LocalRouted
           /\ SharedSlot = c.ep_rank * (LocalRouted + 1) + LocalRouted
<1> DEFINE L == LocalRouted
<1>1. L \in Nat \ {0} /\ c.n = 1 /\ c.ep_rank \in Nat
  BY LocalRoutedFact, ConfigFacts
<1>2. \A p \in Nat : AddressOf(p) = (p \div L) * (L + 1) + (p % L)
  BY <1>1 DEF AddressOf, Rank, Local, LocalRouted
<1>3. SharedSlot = c.ep_rank * (L + 1) + L
  BY <1>1 DEF SharedSlot
<1> HIDE DEF L
<1>4. ASSUME NEW p \in Nat PROVE AddressOf(p) = p + (p \div L)
  <2> DEFINE a == p \div L
             x == p % L
  <2>1. a \in Nat /\ x \in 0 .. L - 1 /\ p = L * a + x
    BY <1>1, DivMod
  <2>2. AddressOf(p) = a * (L + 1) + x
    BY <1>2
  <2> HIDE DEF a, x
  <2>3. AddressOf(p) = p + a
    BY <1>1, <2>1, <2>2
  <2> QED
    BY <2>3 DEF a
<1>5. AddressOf(c.ep_rank * L) = c.ep_rank * (L + 1)
  <2> DEFINE r == c.ep_rank
             p == r * L
             a == p \div L
             x == p % L
  <2>1. r \in Nat /\ p \in Nat
    BY <1>1
  <2>2. a \in Nat /\ x \in 0 .. L - 1 /\ p = L * a + x
    BY <1>1, <2>1, DivMod
  <2>3. AddressOf(p) = a * (L + 1) + x
    BY <1>2, <2>1
  <2>4. L * r + 0 = L * a + x
    BY <1>1, <2>1, <2>2
  <2> HIDE DEF r, p, a, x
  <2>5. r = a /\ x = 0
    <3>1. 0 \in 0 .. L - 1 /\ r \in Int /\ a \in Int
      BY <1>1, <2>1, <2>2
    <3> QED
      BY <1>1, <2>2, <2>4, <3>1, Digits
  <2>6. AddressOf(p) = r * (L + 1)
    BY <1>1, <2>1, <2>3, <2>5
  <2> QED
    BY <2>6 DEF p, r
<1>6. c.ep_rank * (L + 1) + L = AddressOf(c.ep_rank * L) + L
  BY <1>5
<1> QED
  BY <1>3, <1>4, <1>6 DEF L

----------------------------------------------------------------------------
(* The inductive invariant                                                 *)

NoTrace(o) ==
    IsPadded => \A i \in DOMAIN o.cols :
                   /\ \/ o.cols[i].id < 0 \/ o.cols[i].w[1] = 0
                      \/ c.platform = "cuda" /\ c.slots /\ i > Len(o.cols) - c.n
                      \/ c.platform = "hip" /\ c.unmasked
                   /\ c.platform = "hip" => o.cols[i].id \in 0 .. Places - 1

Apart(o) == \A i, j \in DOMAIN o.cols : i # j => o.cols[i].id # o.cols[j].id

InPlace(o) ==
    /\ \A i \in DOMAIN o.cols :
          o.cols[i].id \in (IF IsRouted(o.cols[i]) THEN Addresses(o.cols[i].e)
                            ELSE IF c.slots THEN {AddressOf(c.ep_rank * (c.physical \div c.ep_size))
                                                  + c.physical \div c.ep_size}
                            ELSE {E})
    /\ RecorderRow(o)

ExpertsOf(o) == {o.cols[i].e : i \in {i \in DOMAIN o.cols : IsRouted(o.cols[i])}}

Sound(o) ==
    /\ Len(o.cols) = c.top_k /\ NoTrace(o)
    /\ ~token.padded => Apart(o) /\ InPlace(o) /\ (c.simulate = "none" => Best(ExpertsOf(o)))

RowInv == c \in Configs /\ token \in Tokens /\ (out # None => Sound(out))

LEMMA PhysicalApart ==
    ASSUME c \in Configs, NEW d \in Experts, NEW e \in Experts
    PROVE  /\ Physical(e) \subseteq Nat
           /\ d # e => Physical(d) \cap Physical(e) = {}
<1>1. CASE c.replicas = None
  BY <1>1, ConstantFacts DEF Physical
<1>2. CASE c.replicas # None
  <2>1. /\ c.replicas \in [Experts -> SUBSET Nat]
        /\ d # e => c.replicas[d] \cap c.replicas[e] = {}
    BY <1>2, ConfigFacts
  <2> QED
    BY <1>2, <2>1 DEF Physical
<1> QED
  BY <1>1, <1>2

LEMMA ResultApart ==
    ASSUME c \in Configs, NEW o, NEW X, Result(o, X), c.simulate = "none" => Best(X)
    PROVE  Apart(o)
<1>1. /\ Routed \in Nat /\ Routed + c.n = c.top_k /\ c.n \in {0, 1} /\ c.top_k \in Nat
      /\ c.n > 0 /\ c.replicas # None => c.slots
      /\ c.ep_rank \in Nat
      /\ c.cold # None =>
            /\ c.groups = 0 /\ c.replicas = None /\ ~c.slots /\ c.simulate = "none"
            /\ c.cold \in [Experts -> Experts]
            /\ \A d, e \in c.kept : d # e => c.cold[d] # c.cold[e]
  BY ConfigFacts
<1> DEFINE F == o.cols
<1>2. /\ DOMAIN F = 1 .. c.top_k /\ X \subseteq Experts
      /\ \A i \in 1 .. Routed : F[i].e \in X /\ Settled(F[i].e, F[i].id)
      /\ \A i, j \in 1 .. Routed : i # j => F[i].e # F[j].e
      /\ \A i \in Routed + 1 .. c.top_k : F[i].id = IF c.slots THEN SharedSlot ELSE E
  BY DEF Result, IsRow
<1> HIDE DEF F
<1>3. c.cold # None => X \subseteq c.kept
  BY <1>1 DEF Best, Beats
<1>4. c.slots => LocalRouted \in Nat \ {0} /\ SharedSlot = c.ep_rank * (LocalRouted + 1) + LocalRouted
  BY LocalRoutedFact, BlockAddress
<1>5. ASSUME NEW d \in X, NEW e \in X, d # e, NEW x, NEW y, Settled(d, x), Settled(e, y)
      PROVE  x # y
  <2>1. d \in Experts /\ e \in Experts
    BY <1>2
  <2>2. Physical(d) \subseteq Nat /\ Physical(e) \subseteq Nat /\ Physical(d) \cap Physical(e) = {}
    BY <1>5, <2>1, PhysicalApart
  <2>3. PICK p \in Physical(d) : x = IF c.slots THEN p + (p \div LocalRouted)
                                     ELSE IF c.cold # None THEN c.cold[d] ELSE p
    BY <1>5 DEF Settled
  <2>4. PICK q \in Physical(e) : y = IF c.slots THEN q + (q \div LocalRouted)
                                     ELSE IF c.cold # None THEN c.cold[e] ELSE q
    BY <1>5 DEF Settled
  <2>5. p \in Nat /\ q \in Nat /\ p # q
    BY <2>2
  <2>6. CASE c.slots
    <3>1. x = p + (p \div LocalRouted) /\ y = q + (q \div LocalRouted)
      BY <2>3, <2>4, <2>6
    <3>2. p + (p \div LocalRouted) # q + (q \div LocalRouted)
      BY <1>4, <2>5, <2>6, ShiftedApart
    <3> QED
      BY <3>1, <3>2
  <2>7. CASE ~c.slots /\ c.cold # None
    BY <1>1, <1>3, <1>5, <2>3, <2>4, <2>7
  <2>8. CASE ~c.slots /\ c.cold = None
    BY <2>3, <2>4, <2>5, <2>8
  <2> QED
    BY <2>6, <2>7, <2>8
<1>6. ASSUME NEW e \in X, NEW x, Settled(e, x), c.n > 0
      PROVE  x # IF c.slots THEN SharedSlot ELSE E
  <2>1. e \in Experts
    BY <1>2
  <2>2. Physical(e) \subseteq Nat
    BY <2>1, PhysicalApart
  <2>3. PICK p \in Physical(e) : x = IF c.slots THEN p + (p \div LocalRouted)
                                     ELSE IF c.cold # None THEN c.cold[e] ELSE p
    BY <1>6 DEF Settled
  <2>4. CASE c.slots
    <3>1. x = p + (p \div LocalRouted) /\ p \in Nat
      BY <2>2, <2>3, <2>4
    <3>2. p + (p \div LocalRouted) # c.ep_rank * (LocalRouted + 1) + LocalRouted
      BY <1>1, <1>4, <2>4, <3>1, ShiftedApart
    <3> QED
      BY <1>4, <2>4, <3>1, <3>2
  <2>5. CASE ~c.slots
    <3>1. Physical(e) = {e}
      BY <1>1, <1>6, <2>5 DEF Physical
    <3>2. x \in Experts
      BY <1>1, <2>1, <2>3, <2>5, <3>1
    <3> QED
      BY <2>5, <3>2, ConstantFacts DEF Shared
  <2> QED
    BY <2>4, <2>5
<1>7. ASSUME NEW i \in 1 .. c.top_k, NEW j \in 1 .. c.top_k, i < j PROVE F[i].id # F[j].id
  <2>1. i \in 1 .. Routed
    BY <1>1, <1>7
  <2>2. CASE j <= Routed
    <3>1. j \in 1 .. Routed /\ i # j
      BY <1>1, <1>7, <2>2
    <3>2. /\ F[i].e \in X /\ F[j].e \in X /\ F[i].e # F[j].e
          /\ Settled(F[i].e, F[i].id) /\ Settled(F[j].e, F[j].id)
      BY <1>2, <2>1, <3>1
    <3> QED
      BY <1>5, <3>2
  <2>3. CASE ~(j <= Routed)
    <3>1. j \in Routed + 1 .. c.top_k /\ c.n > 0
      BY <1>1, <2>3
    <3>2. F[i].e \in X /\ Settled(F[i].e, F[i].id) /\ F[j].id = IF c.slots THEN SharedSlot ELSE E
      BY <1>2, <2>1, <3>1
    <3> QED
      BY <1>6, <3>1, <3>2
  <2> QED
    BY <2>2, <2>3
<1>8. \A i, j \in DOMAIN F : i # j => F[i].id # F[j].id
  <2> SUFFICES ASSUME NEW i \in DOMAIN F, NEW j \in DOMAIN F, i # j PROVE F[i].id # F[j].id
    OBVIOUS
  <2>1. i \in 1 .. c.top_k /\ j \in 1 .. c.top_k
    BY <1>2
  <2>2. i < j \/ j < i
    BY <1>1, <2>1
  <2> QED
    BY <1>7, <2>1, <2>2
<1> QED
  BY <1>8 DEF Apart, F

LEMMA ResultInPlace ==
    ASSUME c \in Configs, NEW o, NEW X, Result(o, X)
    PROVE  InPlace(o) /\ ExpertsOf(o) = X
<1>1. /\ Routed \in Nat /\ Routed + c.n = c.top_k /\ c.n \in {0, 1} /\ c.top_k \in Nat
      /\ c.cold # None => c.replicas = None /\ ~c.slots
  BY ConfigFacts
<1> DEFINE F == o.cols
<1>2. /\ DOMAIN F = 1 .. c.top_k /\ X \subseteq Experts
      /\ \A i \in 1 .. Routed : F[i].e \in X /\ Settled(F[i].e, F[i].id)
      /\ \A x \in X : \E i \in 1 .. Routed : F[i].e = x
      /\ \A i \in Routed + 1 .. c.top_k :
            F[i].e = Shared /\ F[i].id = IF c.slots THEN SharedSlot ELSE E
      /\ RecorderRow(o)
  BY DEF Result, IsRow
<1> HIDE DEF F
<1>3. \A i \in 1 .. c.top_k : i \in 1 .. Routed \/ i \in Routed + 1 .. c.top_k
  BY <1>1
<1>4. \A i \in 1 .. Routed : i \in 1 .. c.top_k
  BY <1>1
<1>5. /\ \A i \in 1 .. Routed : IsRouted(F[i])
      /\ \A i \in Routed + 1 .. c.top_k : ~IsRouted(F[i])
  BY <1>2, ConstantFacts DEF IsRouted
<1>6. ASSUME NEW i \in 1 .. Routed PROVE F[i].id \in Addresses(F[i].e)
  <2> DEFINE e == F[i].e
             x == F[i].id
  <2>1. e \in Experts /\ Settled(e, x)
    BY <1>2
  <2> HIDE DEF e, x
  <2>2. PICK p \in Physical(e) : x = IF c.slots THEN p + (p \div LocalRouted)
                                     ELSE IF c.cold # None THEN c.cold[e] ELSE p
    BY <2>1 DEF Settled
  <2>3. CASE c.slots
    <3>1. p \in Nat
      BY <2>1, PhysicalApart
    <3>2. x = AddressOf(p)
      BY <2>2, <2>3, <3>1, BlockAddress
    <3> QED
      BY <2>3, <3>2 DEF Addresses, e, x
  <2>4. CASE ~c.slots
    BY <2>2, <2>4 DEF Addresses, e, x
  <2> QED
    BY <2>3, <2>4
<1>7. ASSUME NEW i \in Routed + 1 .. c.top_k
      PROVE  F[i].id \in IF c.slots THEN {AddressOf(c.ep_rank * (c.physical \div c.ep_size))
                                          + c.physical \div c.ep_size}
                         ELSE {E}
  <2>1. CASE c.slots
    <3>1. F[i].id = AddressOf(c.ep_rank * LocalRouted) + LocalRouted
      BY <1>2, <2>1, BlockAddress
    <3> QED
      BY <2>1, <3>1 DEF LocalRouted
  <2>2. CASE ~c.slots
    BY <1>2, <2>2
  <2> QED
    BY <2>1, <2>2
<1>8. InPlace(o)
  <2> SUFFICES ASSUME NEW i \in 1 .. c.top_k
               PROVE  F[i].id \in (IF IsRouted(F[i]) THEN Addresses(F[i].e)
                                   ELSE IF c.slots THEN {AddressOf(c.ep_rank * (c.physical \div c.ep_size))
                                                         + c.physical \div c.ep_size}
                                   ELSE {E})
    BY <1>2 DEF InPlace, F
  <2>1. CASE i \in 1 .. Routed
    BY <1>5, <1>6, <2>1
  <2>2. CASE i \in Routed + 1 .. c.top_k
    BY <1>5, <1>7, <2>2
  <2> QED
    BY <1>3, <2>1, <2>2
<1>9. ExpertsOf(o) = X
  <2>1. ExpertsOf(o) = {F[i].e : i \in {i \in 1 .. c.top_k : IsRouted(F[i])}}
    BY <1>2 DEF ExpertsOf, F
  <2>2. {i \in 1 .. c.top_k : IsRouted(F[i])} = 1 .. Routed
    BY <1>3, <1>4, <1>5
  <2>3. ExpertsOf(o) = {F[i].e : i \in 1 .. Routed}
    BY <2>1, <2>2
  <2> QED
    BY <1>2, <2>3
<1> QED
  BY <1>8, <1>9

LEMMA DeliveredIsSound ==
    ASSUME c \in Configs, token \in Tokens, NEW o, Delivered(o)
    PROVE  Sound(o)
<1>1. c.top_k \in Nat /\ Len(o.cols) = c.top_k /\ DOMAIN o.cols = 1 .. c.top_k
  BY RowIsSequence, ConfigFacts DEF Delivered
<1>2. NoTrace(o)
  <2>1. Len(o.cols) - c.n = Routed
    BY <1>1 DEF Routed
  <2> QED
    BY <1>1, <2>1 DEF NoTrace, Delivered, Silent
<1>3. ASSUME ~token.padded
      PROVE  Apart(o) /\ InPlace(o) /\ (c.simulate = "none" => Best(ExpertsOf(o)))
  <2>1. PICK X : Result(o, X) /\ (c.simulate = "none" => Best(X))
    BY <1>3 DEF Delivered, IsPadded
  <2> QED
    BY <2>1, ResultApart, ResultInPlace
<1> QED
  BY <1>1, <1>2, <1>3 DEF Sound

\* The configuration and the row of a forward do not change while it runs.
LEMMA SoundStays ==
    ASSUME c' = c, token' = token, NEW o, Sound(o)
    PROVE  Sound(o)'
<1>1. Choice' = Choice
  BY DEF Choice, Biased
<1>2. Value' = Value
  BY DEF Value, Choice, Biased, MaxScores, PairScores, Members, GroupOf
<1>3. \A gs : PoolOf(gs)' = PoolOf(gs)
  BY DEF PoolOf, Members, GroupOf
<1>4. Best(ExpertsOf(o)) => Best(ExpertsOf(o))'
  BY <1>1, <1>2, <1>3 DEF Best
<1>5. NoTrace(o) => NoTrace(o)'
  BY DEF NoTrace, IsPadded, Places
<1>6. InPlace(o) => InPlace(o)'
  BY ZenonT(60) DEF InPlace, Addresses, AddressOf, Rank, Local, Physical, RecorderRow, SeenPhysical, RecorderAliased
<1> QED
  BY <1>4, <1>5, <1>6 DEF Sound

\* A row is selected once, and what is delivered then is sound, on every path
\* that select_experts and _post_process_topk_ids take in the model:
\* SelectExperts and BuildPrecomputed keep the invariant.  Sound excepts no
\* path: NoTrace says which columns of padding may weigh (shared slots on CUDA,
\* the opt-out on HIP), RecorderRow what the recorder gets on the solver's path.
THEOREM RowInvariant == Spec => []RowInv
<1>1. Init => RowInv
  BY DEF Init, RowInv
<1>2. RowInv /\ [Next]_vars => RowInv'
  <2> SUFFICES ASSUME RowInv, [Next]_vars PROVE RowInv'
    OBVIOUS
  <2>1. CASE Next
    <3>1. c' = c /\ token' = token
      BY <2>1 DEF Next, SelectExperts, BuildPrecomputed
    <3>2. c \in Configs /\ token \in Tokens
      BY DEF RowInv
    <3>3. Delivered(out')
      <4>1. CASE SelectExperts
        BY <3>2, <4>1, SelectDelivers
      <4>2. CASE BuildPrecomputed
        BY <3>2, <4>2, PrecomputedDelivers
      <4> QED
        BY <2>1, <4>1, <4>2 DEF Next
    <3>4. Sound(out')
      BY <3>2, <3>3, DeliveredIsSound
    <3>5. \A o : Sound(o) => Sound(o)'
      BY <3>1, SoundStays
    <3>6. token' \in Tokens'
      BY <3>1, <3>2 DEF Tokens
    <3> QED
      BY <3>1, <3>2, <3>4, <3>5, <3>6 DEF RowInv
  <2>2. CASE UNCHANGED vars
    <3>1. c' = c /\ token' = token /\ out' = out
      BY <2>2 DEF vars
    <3>2. \A o : Sound(o) => Sound(o)'
      BY <3>1, SoundStays
    <3>3. token' \in Tokens'
      BY <3>1 DEF RowInv, Tokens
    <3> QED
      BY <3>1, <3>2, <3>3 DEF RowInv
  <2> QED
    BY <2>1, <2>2
<1> QED
  BY <1>1, <1>2, PTL DEF Spec

----------------------------------------------------------------------------
(* The properties                                                          *)

\* _post_process_topk_ids: a row has top_k columns, and on a row that is not
\* padding they address top_k different places.
THEOREM TypeCorrect == Spec => []TypeOK
<1>1. RowInv => TypeOK
  BY DEF RowInv, Sound, Apart, TypeOK, Real
<1> QED
  BY <1>1, RowInvariant, PTL

\* The padded region (_mask_topk_ids_padded_region, and the weights zeroed for
\* aiter) leaves no trace in the experts, through remaps and appended columns,
\* but where the property excepts a column: shared slots on CUDA, the opt-out on
\* HIP.  An id that aiter's kernels are given is the id of a place that exists.
THEOREM PaddedSilentAlways == Spec => []PaddedSilent
<1>1. RowInv => PaddedSilent
  BY DEF RowInv, Sound, NoTrace, PaddedSilent
<1> QED
  BY <1>1, RowInvariant, PTL

\* A column addresses the place where its expert lives, after the mapping to
\* physical experts (the solver's included), the shared slots and the remap of
\* the cold pool.  The recorder gets the physical ids, but on the solver's path with
\* shared slots the shifted row of the result.
THEOREM AddressedAlways == Spec => []Addressed
<1>1. RowInv => Addressed
  BY DEF RowInv, Sound, InPlace, Addressed, Real
<1> QED
  BY <1>1, RowInvariant, PTL

\* Whatever gate the configuration leads to, it selects best experts among
\* those that may be selected.
THEOREM SelectsBestAlways == Spec => []SelectsBest
<1>1. RowInv => SelectsBest
  <2> SUFFICES ASSUME RowInv, Real, c.simulate = "none"
               PROVE  LET choice == IF c.bias = None THEN token.scores ELSE Biased(token.scores)
                          value == IF c.bias = None THEN MaxScores(choice) ELSE PairScores(choice)
                          Ok(pool) == /\ ExpertsOf(out) \subseteq pool
                                      /\ \A x \in ExpertsOf(out), y \in pool \ ExpertsOf(out) :
                                            choice[x] >= choice[y]
                      IN  IF c.groups = 0 THEN Ok(IF c.cold = None THEN Experts ELSE c.kept)
                          ELSE \E gs \in TopSets(value, c.topk_group) : Ok(UNION {Members(g) : g \in gs})
    BY DEF SelectsBest, ExpertsOf
  <2>1. Best(ExpertsOf(out))
    BY DEF RowInv, Sound, Real
  <2> QED
    BY <2>1 DEF Best, Beats, PoolOf, Choice, Value
<1> QED
  BY <1>1, RowInvariant, PTL
=============================================================================
