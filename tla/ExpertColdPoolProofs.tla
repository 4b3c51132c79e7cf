----------------------- MODULE ExpertColdPoolProofs -----------------------
(***************************************************************************)
(* Proofs about ExpertColdPool, for any number of experts, slots, tensors, *)
(* dtypes and any scores: the books of the rows, whose demand counts,      *)
(* which experts it can bring in, and the protection of rows in Phase B.   *)
(***************************************************************************)
EXTENDS ExpertColdPool, FiniteSetTheorems, SequenceTheorems, WellFoundedInduction,
        TLAPS

-----------------------------------------------------------------------------
(* Constants and helpers. *)

\* The sizes and ranges the other proofs use.
LEMMA ConstantFacts ==
    /\ E \in Nat /\ E > 0 /\ Slots \in Nat /\ KeepLen \in Nat /\ KeepLen > 0
    /\ Phys \in Nat /\ Phys > 0 /\ 0 \in Rows
    /\ SlotRows \subseteq Rows /\ Rows \subseteq Nat /\ Gids \subseteq Nat
    /\ \A i \in 1 .. KeepLen : Keep[i] \in Gids /\ i - 1 \in Rows
    /\ KeepSet \subseteq Gids /\ Cold \subseteq Gids
    /\ \A g \in Gids : g # NoGid
    /\ \A r \in Rows : r # NoRow
  BY SizeAssumption, KeepAssumption, SMTT(60)
  DEF KeepLen, Phys, Rows, SlotRows, Gids, KeepSet, Cold, NoGid, NoRow

\* KeepRemap gives a kept expert its index and a cold one row 0.
LEMMA KeepRemapFacts ==
    /\ KeepRemap \in [Gids -> Rows]
    /\ \A i \in 1 .. KeepLen : KeepRemap[Keep[i]] = i - 1
    /\ \A g \in Cold : KeepRemap[g] = 0
<1>1. \A i \in 1 .. KeepLen : KeepRemap[Keep[i]] = i - 1
  <2> SUFFICES ASSUME NEW i \in 1 .. KeepLen PROVE KeepRemap[Keep[i]] = i - 1
    OBVIOUS
  <2>1. Keep[i] \in Gids /\ Keep[i] \in KeepSet
    BY ConstantFacts DEF KeepSet
  <2>2. \A j \in 1 .. KeepLen : Keep[j] = Keep[i] => j = i
    <3>1. \A j \in 1 .. KeepLen : Keep[j] \in Nat
      BY ConstantFacts
    <3> QED
      BY <3>1, KeepAssumption, ConstantFacts DEF KeepLen
  <2>3. (CHOOSE j \in 1 .. KeepLen : Keep[j] = Keep[i]) = i
    BY <2>2
  <2> QED
    BY <2>1, <2>3 DEF KeepRemap
<1>2. \A g \in Cold : KeepRemap[g] = 0
  BY DEF KeepRemap, Cold
<1>3. \A g \in Gids : KeepRemap[g] \in Rows
  <2> SUFFICES ASSUME NEW g \in Gids PROVE KeepRemap[g] \in Rows
    OBVIOUS
  <2>1. CASE g \in KeepSet
    <3>1. PICK i \in 1 .. KeepLen : Keep[i] = g
      BY <2>1 DEF KeepSet
    <3> QED
      BY <3>1, <1>1, ConstantFacts
  <2>2. CASE g \notin KeepSet
    BY <2>2, <1>2, ConstantFacts DEF Cold
  <2> QED
    BY <2>1, <2>2
<1> QED
  BY <1>1, <1>2, <1>3 DEF KeepRemap

\* The initial free list is a sequence of all the slots.
LEMMA InitialFreeList ==
    LET init == [i \in 1 .. Slots |-> KeepLen + i - 1]
    IN  /\ init \in Seq(SlotRows)
        /\ DOMAIN init = 1 .. Slots
        /\ \A i, j \in DOMAIN init : init[i] = init[j] => i = j
        /\ \A r \in SlotRows : \E i \in DOMAIN init : init[i] = r
<1> DEFINE init == [i \in 1 .. Slots |-> KeepLen + i - 1]
<1>1. \A i \in 1 .. Slots : init[i] = KeepLen + i - 1 /\ init[i] \in SlotRows
  BY ConstantFacts DEF SlotRows, Phys
<1>2. init \in Seq(SlotRows)
  <2>1. init \in [1 .. Slots -> SlotRows]
    BY <1>1
  <2>2. Slots \in Nat
    BY ConstantFacts
  <2> HIDE DEF init
  <2> QED
    BY <2>1, <2>2, SeqDef
<1>3. \A i, j \in DOMAIN init : init[i] = init[j] => i = j
  BY <1>1, ConstantFacts
<1>4. \A r \in SlotRows : \E i \in DOMAIN init : init[i] = r
  <2> SUFFICES ASSUME NEW r \in SlotRows PROVE \E i \in DOMAIN init : init[i] = r
    OBVIOUS
  <2>1. r - KeepLen + 1 \in 1 .. Slots
    BY ConstantFacts DEF SlotRows, Phys
  <2>2. init[r - KeepLen + 1] = r
    BY <2>1, <1>1, ConstantFacts DEF SlotRows
  <2> QED
    BY <2>1, <2>2
<1> QED
  BY <1>2, <1>3, <1>4

\* A prefix of a sequence is a sequence over the same set.
LEMMA PrefixType ==
    ASSUME NEW S, NEW q \in Seq(S), NEW n \in Nat
    PROVE  Prefix(q, n) \in Seq(S)
  BY DEF Prefix

LEMMA TailType ==
    ASSUME NEW S, NEW q \in Seq(S), q # <<>>
    PROVE  /\ Head(q) \in S
           /\ Tail(q) \in Seq(S)
           /\ DOMAIN Tail(q) = 1 .. (Len(q) - 1)
           /\ \A i \in DOMAIN Tail(q) : Tail(q)[i] = q[i + 1] /\ i + 1 \in DOMAIN q
           /\ 1 \in DOMAIN q /\ Head(q) = q[1]
  OBVIOUS

-----------------------------------------------------------------------------
(* Type correctness, Phase B included. *)

\* Counting rows of the stash and of the pool gives naturals.
LEMMA StashCounts ==
    ASSUME NEW S, stash \in Seq(S), NEW T, T \subseteq DOMAIN stash
    PROVE  Cardinality(T) \in Nat
<1>1. IsFiniteSet(DOMAIN stash)
  BY LenProperties, FS_Interval
<1> QED
  BY <1>1, FS_Subset, FS_CardinalityType

LEMMA RowCounts ==
    ASSUME NEW S, S \subseteq Rows
    PROVE  Cardinality(S) \in 0 .. Phys
<1>1. IsFiniteSet(Rows) /\ Cardinality(Rows) = Phys
  <2>1. 0 \in Int /\ Phys - 1 \in Int
    BY ConstantFacts
  <2>2. IsFiniteSet(Rows) /\ Cardinality(Rows) = IF 0 > Phys - 1 THEN 0 ELSE (Phys - 1) - 0 + 1
    BY <2>1, FS_Interval DEF Rows
  <2> QED
    BY <2>2, ConstantFacts
<1>2. Cardinality(S) <= Cardinality(Rows)
  BY <1>1, FS_Subset
<1>3. Cardinality(S) \in Nat
  BY <1>1, FS_Subset, FS_CardinalityType
<1> QED
  BY <1>1, <1>2, <1>3, ConstantFacts

LEMMA AgedTicksType ==
    ASSUME row_tick \in [Rows -> NoTick .. Now]
    PROVE  AgedTicks \in [Rows -> NoTick .. Now]
<1> SUFFICES ASSUME NEW r \in Rows PROVE AgedTicks[r] \in NoTick .. Now
  BY DEF AgedTicks
<1>1. CASE row_tick[r] <= Oldest
  BY <1>1 DEF AgedTicks
<1>2. CASE ~(row_tick[r] <= Oldest)
  <2> DEFINE older == {q \in Rows : /\ row_tick[q] > Oldest
                                    /\ row_tick[q] < row_tick[r]
                                    /\ \A p \in Rows : row_tick[p] = row_tick[q] => q <= p}
  <2>1. Cardinality(older) \in 0 .. Phys
    BY RowCounts
  <2>2. AgedTicks[r] = 1 + Cardinality(older)
    BY <1>2 DEF AgedTicks
  <2> HIDE DEF older
  <2> QED
    BY <2>1, <2>2, ConstantFacts DEF NoTick, Now
<1> QED
  BY <1>1, <1>2

\* Sampling a batch yields rows of the batch.
LEMMA SampledType ==
    ASSUME NEW S, NEW n \in Nat, NEW batch \in [1 .. n -> S]
    PROVE  Sampled(batch) \in Seq(S)
<1>1. batch \in Seq(S) /\ Len(batch) = n
  BY SeqDef
<1>2. CASE Len(batch) <= StashRows
  BY <1>1, <1>2 DEF Sampled
<1>3. CASE ~(Len(batch) <= StashRows)
  <2> DEFINE stride == (n + StashRows - 1) \div StashRows
             len == (n + stride - 1) \div stride
  <2>1. StashRows \in Nat /\ StashRows > 0 /\ n > StashRows
    BY <1>1, <1>3, DemandAssumption
  <2>2. stride \in Nat /\ stride > 0
    BY <2>1
  <2>3. len \in Nat /\ len * stride <= n + stride - 1
    <3> HIDE DEF stride
    <3> QED
      BY <2>1, <2>2
  <2>4. ASSUME NEW i \in 1 .. len PROVE batch[(i - 1) * stride + 1] \in S
    <3> HIDE DEF stride, len
    <3>1. i * stride <= len * stride
      BY <2>2, <2>3
    <3>2. (i - 1) * stride = i * stride - stride /\ (i - 1) * stride >= 0
      BY <2>2, <2>3
    <3>3. (i - 1) * stride + 1 \in 1 .. n
      BY <3>1, <3>2, <2>2, <2>3
    <3> QED
      BY <3>3
  <2>5. Sampled(batch) = [i \in 1 .. len |-> batch[(i - 1) * stride + 1]]
    BY <1>1, <1>3 DEF Sampled
  <2> HIDE DEF stride, len
  <2>6. Sampled(batch) \in [1 .. len -> S]
    BY <2>4, <2>5
  <2> QED
    BY <2>3, <2>6, SeqDef
<1> QED
  BY <1>2, <1>3

\* The demand counters stay natural through a tally.
LEMMA TalliedType ==
    ASSUME TypeOK, NEW g \in Gids
    PROVE  Tallied(g) \in Nat
<1>1. StrongHits(g) \in Nat
  BY StashCounts DEF StrongHits, TypeOK
<1>2. ProbeHits(g) \in Nat
  BY StashCounts DEF ProbeHits, TypeOK
<1>3. need[g] \in Nat /\ Unit \in Nat /\ DecayNum \in Nat /\ DecayDen \in Nat /\ DecayDen > 0
  BY DemandAssumption DEF TypeOK
<1> DEFINE votes == Unit * ProbeHits(g)
           late == Unit * StrongHits(g)
           sum == need[g] + votes
           scaled == sum * DecayNum
<1>4. votes \in Nat /\ late \in Nat
  BY <1>1, <1>2, <1>3
<1>5. sum \in Nat
  BY <1>3, <1>4
<1>6. scaled \in Nat
  BY <1>3, <1>5
<1> HIDE DEF votes, late, sum, scaled
<1>7. (scaled \div DecayDen) + late \in Nat
  BY <1>3, <1>4, <1>6
<1> QED
  BY <1>7 DEF Tallied, votes, late, sum, scaled

LEMMA RankingsType ==
    ASSUME NEW S, S \subseteq Gids, NEW f, NEW q \in Rankings(S, f)
    PROVE  q \in Seq(S)
<1>1. q \in [1 .. Cardinality(S) -> S]
  BY DEF Rankings, SetToSeqs
<1>2. IsFiniteSet(S)
  <2>1. IsFiniteSet(Gids)
    BY FS_Interval, ConstantFacts DEF Gids
  <2> QED
    BY <2>1, FS_Subset
<1>3. Cardinality(S) \in Nat
  BY <1>2, FS_CardinalityType
<1> QED
  BY <1>1, <1>3, SeqDef

LEMMA AdvanceTickType ==
    ASSUME TypeOK, AdvanceTick
    PROVE  /\ row_tick' \in [Rows -> NoTick .. Now]
           /\ tick' \in 0 .. (Window + 1)
           /\ seen_age' \in [KeepSet -> 0 .. (Window + 1)]
<1>1. row_tick' \in [Rows -> NoTick .. Now]
  BY AgedTicksType DEF TypeOK, AdvanceTick
<1>2. \A n \in 0 .. (Window + 1) : AgeUpTo(n) \in 0 .. (Window + 1)
  BY DemandAssumption DEF AgeUpTo
<1> QED
  BY <1>1, <1>2 DEF TypeOK, AdvanceTick

\* Masking and unmasking keep the tables typed.
LEMMA MaskType ==
    ASSUME TypeOK, NEW g \in Gids, Mask(g)
    PROVE  remap' \in [Gids -> Rows] /\ bias' \in [Dtypes -> [Gids -> BOOLEAN]]
  BY ConstantFacts DEF TypeOK, Mask

LEMMA UnmaskType ==
    ASSUME TypeOK, NEW g \in Gids, NEW r \in Rows, Unmask(g, r)
    PROVE  remap' \in [Gids -> Rows] /\ bias' \in [Dtypes -> [Gids -> BOOLEAN]]
  BY ConstantFacts DEF TypeOK, Unmask

LEMMA SetTickType ==
    ASSUME TypeOK, NEW r \in Rows, NEW t \in NoTick .. Now, SetTick(r, t)
    PROVE  row_tick' \in [Rows -> NoTick .. Now] /\ row_order' \in [Rows -> Nat]
<1>1. 1 + Cardinality({q \in Rows : row_tick[q] # NoTick}) \in Nat
  BY RowCounts, ConstantFacts
<1> QED
  BY <1>1 DEF TypeOK, SetTick

\* Every variable of the cold pool keeps its type in every configuration.
THEOREM TypeCorrect == Spec => []TypeOK
<1>1. Init => TypeOK
  <2> SUFFICES ASSUME Init PROVE TypeOK
    OBVIOUS
  <2>1. free_rows \in Seq(Rows)
    <3>1. free_rows \in Seq(SlotRows)
      BY InitialFreeList DEF Init
    <3> QED
      BY <3>1, ConstantFacts, SeqMonotonic
  <2>2. remap \in [Gids -> Rows] /\ bias \in [Dtypes -> [Gids -> BOOLEAN]]
    BY KeepRemapFacts DEF Init, KeepBias
  <2>3. host \in [Gids -> UNION {[T -> Gids \cup {Junk}] : T \in SUBSET tensors}]
    <3>1. host = [g \in Gids |-> [t \in {} |-> Junk]]
      BY DEF Init
    <3>2. [t \in {} |-> Junk] \in [{} -> Gids \cup {Junk}]
      OBVIOUS
    <3>3. {} \in SUBSET tensors
      OBVIOUS
    <3>4. [t \in {} |-> Junk] \in UNION {[T -> Gids \cup {Junk}] : T \in SUBSET tensors}
      BY <3>2, <3>3, Zenon
    <3> QED
      BY <3>1, <3>4, Zenon
  <2>4. row_tick \in [Rows -> NoTick .. Now]
    BY ConstantFacts DEF Init, NoTick, Now
  <2>5. weights \in [(IF Shrunk THEN Rows ELSE Gids) -> [tensors -> Gids \cup {Junk}]]
    BY DEF Init, Shrunk
  <2>6. tick \in 0 .. (Window + 1) /\ seen_age \in [KeepSet -> 0 .. (Window + 1)]
    BY DemandAssumption DEF Init
  <2>7. calls \in 0 .. (HookPeriod - 1)
    BY DemandAssumption DEF Init
  <2>8. /\ phase = "loaded" /\ hasTopk \in BOOLEAN /\ managed = {}
        /\ tensors \in {Tensors, Tensors \cup {Unlisted}}
        /\ protected = {} /\ dirty = FALSE /\ pc = "ready"
        /\ cur = NoGid /\ dst = NoRow /\ copied = {} /\ flat = {}
    BY DEF Init
  <2>9. /\ gid_row \in [Gids -> Rows \cup {NoRow}]
        /\ row_gid \in [Rows -> Gids \cup {NoGid}]
        /\ row_order \in [Rows -> Nat]
        /\ need \in [Gids -> Nat]
    BY DEF Init
  <2>10. stash \in Seq(StashRow) /\ todo \in Seq(Gids)
    BY DEF Init
  <2> QED
    BY <2>1, <2>2, <2>3, <2>4, <2>5, <2>6, <2>7, <2>8, <2>9, <2>10 DEF TypeOK
<1>2. TypeOK /\ [Next]_vars => TypeOK'
  <2> SUFFICES ASSUME TypeOK, [Next]_vars PROVE TypeOK'
    OBVIOUS
  <2> USE DEF modelVars, tableVars, ownerVars, demandVars, copyVars
  <2>1. CASE Shrink
    <3>1. weights' \in [Rows -> [tensors -> Gids \cup {Junk}]]
      <4>1. \A r \in Rows, t \in tensors : ShrunkRow(r, t) \in Gids \cup {Junk}
        BY ConstantFacts DEF ShrunkRow, Rows, Gids
      <4> QED
        BY <2>1, <4>1 DEF Shrink
    <3>2. host' \in [Gids -> UNION {[T -> Gids \cup {Junk}] : T \in SUBSET tensors}]
      <4> DEFINE Hosts == UNION {[T -> Gids \cup {Junk}] : T \in SUBSET tensors}
      <4>1. \A g \in Gids : [t \in tensors \cap Tensors |-> g] \in Hosts
        <5> SUFFICES ASSUME NEW g \in Gids
                     PROVE  [t \in tensors \cap Tensors |-> g] \in Hosts
          OBVIOUS
        <5>1. [t \in tensors \cap Tensors |-> g] \in [tensors \cap Tensors -> Gids \cup {Junk}]
          OBVIOUS
        <5> QED
          BY <5>1
      <4>2. [t \in {} |-> Junk] \in Hosts
        <5>1. [t \in {} |-> Junk] \in [{} -> Gids \cup {Junk}]
          OBVIOUS
        <5> QED
          BY <5>1
      <4>3. host' = [g \in Gids |-> IF g \in Cold THEN [t \in tensors \cap Tensors |-> g]
                                                 ELSE [t \in {} |-> Junk]]
        BY <2>1 DEF Shrink
      <4> HIDE DEF Hosts
      <4>4. host' \in [Gids -> Hosts]
        BY <4>1, <4>2, <4>3
      <4> QED
        BY <4>4 DEF Hosts
    <3>3. remap' \in [Gids -> Rows] /\ bias' \in [Dtypes -> [Gids -> BOOLEAN]]
      BY <2>1, KeepRemapFacts DEF Shrink, KeepBias
    <3> QED
      BY <2>1, <3>1, <3>2, <3>3 DEF Shrink, TypeOK, Shrunk
  <2>2. CASE RefuseShrink
    BY <2>2 DEF RefuseShrink, TypeOK, Shrunk
  <2>3. CASE Aborted \/ UNCHANGED vars
    BY <2>3, ZenonT(60) DEF Aborted, vars, TypeOK, Shrunk
  <2>4. ASSUME NEW cfg \in {"target", "draft"}, EagerForward(cfg) PROVE TypeOK'
    <3>1. stash' \in Seq(StashRow)
      <4>1. CASE IsManagedConfig(cfg) /\ Dynamic
        <5>1. PICK d \in Dtypes, n \in MinRows .. MaxRows :
                 \E batch \in TupleOf(BatchRows(cfg, d), n) : stash' = Sampled(batch)
          BY <2>4, <4>1 DEF EagerForward
        <5>2. PICK batch \in TupleOf(BatchRows(cfg, d), n) : stash' = Sampled(batch)
          BY <5>1
        <5>3. n \in Nat
          BY DemandAssumption
        <5>4. BatchRows(cfg, d) \subseteq StashRow
          BY DEF BatchRows, StashRow, TopKSets, Routable
        <5>5. batch \in [1 .. n -> StashRow]
          BY <5>4 DEF TupleOf
        <5> QED
          BY <5>2, <5>3, <5>5, SampledType
      <4>2. CASE ~(IsManagedConfig(cfg) /\ Dynamic)
        BY <2>4, <4>2 DEF EagerForward, TypeOK
      <4> QED
        BY <4>1, <4>2
    <3>2. dirty' \in BOOLEAN
      BY <2>4 DEF EagerForward, TypeOK
    <3> QED
      BY <2>4, <3>1, <3>2 DEF EagerForward, TypeOK, Shrunk
  <2>5. CASE ReplayForward
    BY <2>5 DEF ReplayForward, TypeOK, Shrunk
  <2>6. CASE HookEntry
    <3>1. calls' \in 0 .. (HookPeriod - 1)
      <4>1. \A c \in Nat : c % HookPeriod \in 0 .. (HookPeriod - 1)
        BY DemandAssumption
      <4>2. calls + 1 \in Nat
        BY DemandAssumption DEF TypeOK
      <4>3. calls' = (calls + 1) % HookPeriod \/ calls' = calls
        BY <2>6 DEF HookEntry
      <4> QED
        BY <4>1, <4>2, <4>3 DEF TypeOK
    <3>2. dirty' \in BOOLEAN
      BY <2>6 DEF HookEntry, TypeOK
    <3> QED
      BY <2>6, <3>1, <3>2 DEF HookEntry, ScanDue, TypeOK, Shrunk
  <2>7. CASE ScanSkip
    BY <2>7, AdvanceTickType DEF ScanSkip, TypeOK, Shrunk
  <2>8. CASE ScanTally
    <3>1. need' \in [Gids -> Nat]
      BY <2>8, TalliedType DEF ScanTally, TypeOK
    <3>2. todo' \in Seq(Gids)
      <4> DEFINE cands == {g \in Cold : need'[g] >= NeedHits * Unit}
      <4>1. PICK q \in Rankings(cands, need') : todo' = Prefix(q, MaxStage)
        BY <2>8 DEF ScanTally
      <4>2. q \in Seq(Gids)
        BY RankingsType, ConstantFacts, SeqMonotonic, ZenonT(60)
      <4> QED
        BY <4>1, <4>2, PrefixType, DemandAssumption
    <3>3. flat' \in SUBSET Gids
      <4>1. \A i \in DOMAIN stash : stash[i] \in StashRow
        BY DEF TypeOK
      <4>2. \A i \in DOMAIN stash : stash[i].sel \in SUBSET Gids
        BY <4>1 DEF StashRow
      <4>3. flat' = UNION {stash[i].sel : i \in DOMAIN stash}
        BY <2>8 DEF ScanTally
      <4> QED
        BY <4>2, <4>3
    <3>4. /\ pc = "scan" /\ pc' = "stage" /\ stash' = <<>> /\ AdvanceTick
          /\ UNCHANGED <<modelVars, weights, host, tableVars, gid_row, row_gid,
                         row_order, free_rows, protected, dirty, calls, copyVars>>
      BY <2>8 DEF ScanTally
    <3>5. stash' \in Seq(StashRow)
      BY <3>4, EmptySeq
    <3>6. /\ row_tick' \in [Rows -> NoTick .. Now]
          /\ tick' \in 0 .. (Window + 1)
          /\ seen_age' \in [KeepSet -> 0 .. (Window + 1)]
      BY <3>4, AdvanceTickType
    <3> QED
      BY <3>1, <3>2, <3>3, <3>4, <3>5, <3>6 DEF TypeOK, Shrunk
  <2>9. ASSUME TakeCandidate
        PROVE  /\ need' \in [Gids -> Nat]
               /\ Head(todo) \in Gids
               /\ Tail(todo) \in Seq(Gids)
    BY <2>9, TailType DEF TakeCandidate, TypeOK
  <2>10. CASE StageSkip
    BY <2>10, <2>9, ZenonT(60) DEF StageSkip, TypeOK, Shrunk
  <2>11. CASE StageFree
    <3>1. Head(free_rows) \in Rows /\ Tail(free_rows) \in Seq(Rows)
      BY <2>11, TailType DEF StageFree, TypeOK
    <3>2. pc = "stage"
      BY <2>11 DEF StageFree, TakeCandidate
    <3> QED
      BY <2>11, <2>9, <3>1, <3>2, ConstantFacts DEF StageFree, BeginCopy, TypeOK, Shrunk
  <2>12. CASE StageEvict
    <3>1. PICK victim \in Victims : EvictRow(victim) /\ BeginCopy(Head(todo), victim)
      BY <2>12 DEF StageEvict
    <3>2. victim \in Rows
      BY DEF Victims, Evictable
    <3>3. /\ remap' \in [Gids -> Rows] /\ bias' \in [Dtypes -> [Gids -> BOOLEAN]]
          /\ gid_row' \in [Gids -> Rows \cup {NoRow}]
          /\ row_gid' \in [Rows -> Gids \cup {NoGid}]
      <4>1. CASE row_gid[victim] = NoGid
        BY <3>1, <4>1 DEF EvictRow, TypeOK
      <4>2. CASE row_gid[victim] # NoGid
        <5>1. row_gid[victim] \in Gids
          BY <3>2, <4>2 DEF TypeOK
        <5> QED
          BY <3>1, <3>2, <4>2, <5>1, MaskType DEF EvictRow, TypeOK
      <4> QED
        BY <4>1, <4>2
    <3>4. pc = "stage"
      BY <2>12 DEF StageEvict, TakeCandidate
    <3> QED
      BY <2>12, <2>9, <3>1, <3>2, <3>3, <3>4, ConstantFacts
      DEF StageEvict, BeginCopy, TypeOK, Shrunk
  <2>13. CASE StageNoRow
    <3>1. /\ pc = "stage" /\ todo' = <<>> /\ TakeCandidate
          /\ UNCHANGED <<modelVars, weights, host, tableVars, ownerVars, free_rows,
                         protected, tick, seen_age, stash, dirty, calls, pc,
                         copyVars, flat>>
      BY <2>13 DEF StageNoRow, TakeCandidate
    <3>2. todo' \in Seq(Gids)
      BY <3>1, EmptySeq
    <3>3. need' \in [Gids -> Nat]
      BY <2>9, <3>1
    <3> QED
      BY <3>1, <3>2, <3>3 DEF TypeOK, Shrunk
  <2>14. CASE CopyTensor
    <3>1. cur \in Gids /\ dst \in Rows /\ Shrunk
      BY <2>14 DEF CopyTensor, TypeOK
    <3>2. PICK t \in DOMAIN host[cur] \ copied :
             /\ weights' = [weights EXCEPT ![dst][t] = host[cur][t]]
             /\ copied' = copied \cup {t}
      BY <2>14 DEF CopyTensor
    <3>3. t \in tensors /\ host[cur][t] \in Gids \cup {Junk}
      <4>1. PICK T \in SUBSET tensors : host[cur] \in [T -> Gids \cup {Junk}]
        BY <3>1 DEF TypeOK
      <4> QED
        BY <4>1
    <3>4. weights' \in [Rows -> [tensors -> Gids \cup {Junk}]]
      BY <3>1, <3>2, <3>3 DEF TypeOK
    <3> QED
      BY <2>14, <3>1, <3>2, <3>3, <3>4 DEF CopyTensor, TypeOK, Shrunk
  <2>15. CASE CopyDone
    <3>1. cur \in Gids /\ dst \in Rows /\ Shrunk
      BY <2>15 DEF CopyDone, TypeOK
    <3>2. Now \in NoTick .. Now
      BY ConstantFacts DEF Now, NoTick
    <3>3. row_tick' \in [Rows -> NoTick .. Now] /\ row_order' \in [Rows -> Nat]
      BY <2>15, <3>1, <3>2, SetTickType DEF CopyDone
    <3>4. remap' \in [Gids -> Rows] /\ bias' \in [Dtypes -> [Gids -> BOOLEAN]]
      BY <2>15, <3>1, UnmaskType DEF CopyDone
    <3> QED
      BY <2>15, <3>1, <3>3, <3>4 DEF CopyDone, TypeOK, Shrunk
  <2>16. CASE CopyFail
    <3>1. free_rows' \in Seq(Rows)
      BY <2>16 DEF CopyFail, ReturnRow, TypeOK
    <3> QED
      BY <2>16, <3>1 DEF CopyFail, TypeOK, Shrunk
  <2>17. CASE StageDone
    BY <2>17 DEF StageDone, TypeOK, Shrunk
  <2>18. CASE DegradeScan
    <3>1. seen_age' \in [KeepSet -> 0 .. (Window + 1)]
      <4>1. seen_age' = [g \in KeepSet |-> IF g \in flat THEN 0 ELSE seen_age[g]]
        BY <2>18 DEF DegradeScan
      <4>2. 0 \in 0 .. (Window + 1)
        BY DemandAssumption
      <4> QED
        BY <4>1, <4>2 DEF TypeOK
    <3>2. todo' \in Seq(Gids)
      <4>1. PICK q \in Starved(seen_age') : todo' = Prefix(q, 2)
        BY <2>18 DEF DegradeScan
      <4>2. q \in Seq(Gids)
        BY RankingsType, ConstantFacts, SeqMonotonic, ZenonT(60) DEF Starved
      <4> QED
        BY <4>1, <4>2, PrefixType
    <3> QED
      BY <2>18, <3>1, <3>2 DEF DegradeScan, TypeOK, Shrunk
  <2>19. CASE Demote
    <3> DEFINE g == Head(todo)
               row == remap[g]
    <3>1. g \in Gids /\ row \in Rows /\ Tail(todo) \in Seq(Gids) /\ Shrunk
      BY <2>19, TailType DEF Demote, TypeOK
    <3>2. CASE row >= KeepLen
      BY <2>19, <3>1, <3>2 DEF Demote, TypeOK, Shrunk
    <3>3. CASE ~(row >= KeepLen)
      <4>1. /\ host' = [host EXCEPT ![g] = weights[row]]
            /\ Mask(g)
            /\ row_gid' = [row_gid EXCEPT ![row] = NoGid]
            /\ SetTick(row, Oldest)
        BY <2>19, <3>3 DEF Demote
      <4>2. remap' \in [Gids -> Rows] /\ bias' \in [Dtypes -> [Gids -> BOOLEAN]]
        BY <3>1, <4>1, MaskType
      <4>3. Oldest \in NoTick .. Now
        BY ConstantFacts DEF Oldest, NoTick, Now
      <4>4. row_tick' \in [Rows -> NoTick .. Now] /\ row_order' \in [Rows -> Nat]
        BY <3>1, <4>1, <4>3, SetTickType
      <4>5. host' \in [Gids -> UNION {[T -> Gids \cup {Junk}] : T \in SUBSET tensors}]
        <5> DEFINE Hosts == UNION {[T -> Gids \cup {Junk}] : T \in SUBSET tensors}
        <5>1. weights[row] \in [tensors -> Gids \cup {Junk}]
          BY <3>1 DEF TypeOK
        <5>2. weights[row] \in Hosts
          BY <5>1, Zenon
        <5>3. host \in [Gids -> Hosts]
          BY DEF TypeOK
        <5> HIDE DEF Hosts
        <5>4. host' \in [Gids -> Hosts]
          BY <3>1, <4>1, <5>2, <5>3
        <5> QED
          BY <5>4 DEF Hosts
      <4>6. row_gid' \in [Rows -> Gids \cup {NoGid}]
        BY <3>1, <4>1 DEF TypeOK
      <4> QED
        BY <2>19, <3>1, <4>2, <4>4, <4>5, <4>6 DEF Demote, TypeOK, Shrunk
    <3> QED
      BY <3>2, <3>3
  <2>20. CASE Promote
    <3>1. protected' \in SUBSET Rows
      BY <2>20 DEF Promote, Staged, TypeOK
    <3> QED
      BY <2>20, <3>1 DEF Promote, TypeOK, Shrunk
  <2> QED
    BY <2>1, <2>2, <2>3, <2>4, <2>5, <2>6, <2>7, <2>8, <2>10, <2>11, <2>12,
       <2>13, <2>14, <2>15, <2>16, <2>17, <2>18, <2>19, <2>20
    DEF Next, HookStep
<1> QED
  BY <1>1, <1>2, PTL DEF Spec

-----------------------------------------------------------------------------
(* The books, the tables and the rows agree, with Phase B off. *)

\* A kept expert is not cold, and kept rows are not slots.
LEMMA KeptNotCold ==
    /\ \A i \in 1 .. KeepLen : Keep[i] \notin Cold /\ i - 1 \notin SlotRows
    /\ \A g \in Gids : g \notin Cold => \E i \in 1 .. KeepLen : g = Keep[i]
<1>1. \A i \in 1 .. KeepLen : i - 1 \notin SlotRows
  BY ConstantFacts DEF SlotRows
<1> QED
  BY <1>1 DEF Cold, KeepSet

\* Ageing the ticks adds no key.
LEMMA AgedKeys ==
    ASSUME TypeOK, NEW r \in Rows, AgedTicks[r] # NoTick
    PROVE  row_tick[r] # NoTick
  BY DEF AgedTicks, NoTick, Oldest

\* Steps that touch neither rows, tables, books nor the free list.
LEMMA QuietStep ==
    ASSUME TypeOK, PoolInv,
           UNCHANGED <<phase, tensors, weights, host, bias, remap, gid_row,
                       row_gid, free_rows>>,
           pc # "copy", pc' \notin {"copy", "degrade", "demote"},
           ~Shrunk => UNCHANGED <<row_tick, todo>>,
           Shrunk => todo' \in Seq(Cold),
           \A r \in Rows : row_tick'[r] # NoTick => row_tick[r] # NoTick
    PROVE  PoolInv'
<1>1. CASE ~Shrunk
  BY <1>1 DEF PoolInv, Shrunk, Untouched
<1>2. CASE Shrunk
  <2>1. KeptInPlace' /\ ColdBooked' /\ FreeListSound'
    BY <1>2 DEF PoolInv, KeptInPlace, ColdBooked, Staged, FreeListSound
  <2>2. RowsBooked'
    BY <1>2 DEF PoolInv, RowsBooked
  <2>3. SlotsCovered' /\ CopySound'
    BY <1>2 DEF PoolInv, SlotsCovered, CopySound
  <2> QED
    BY <1>2, <2>1, <2>2, <2>3 DEF PoolInv, Shrunk
<1> QED
  BY <1>1, <1>2

\* The shrink puts every kept expert on its row and masks the cold ones.
LEMMA ShrinkStep ==
    ASSUME TypeOK, PoolInv, Shrink
    PROVE  PoolInv'
<1> USE DEF ownerVars, demandVars, copyVars
<1>1. Untouched /\ pc = "ready" /\ tensors = Tensors
  BY TensorAssumption DEF Shrink, PoolInv, Shrunk, InventoryClean, TypeOK
<1>2. /\ tensors' = tensors /\ gid_row' = gid_row /\ row_gid' = row_gid
      /\ row_tick' = row_tick /\ free_rows' = free_rows /\ todo' = todo
      /\ pc' = pc /\ phase' = "serving"
      /\ remap' = KeepRemap /\ bias' = KeepBias
  BY DEF Shrink
<1>3. \A r \in Rows, t \in tensors : weights'[r][t] = ShrunkRow(r, t)
  BY DEF Shrink
<1>4. KeptInPlace'
  <2> SUFFICES ASSUME NEW i \in 1 .. KeepLen
               PROVE  /\ remap'[Keep[i]] = i - 1
                      /\ gid_row'[Keep[i]] = NoRow
                      /\ \A d \in Dtypes : ~bias'[d][Keep[i]]
                      /\ \A t \in tensors' : weights'[i - 1][t] = Keep[i]
    BY DEF KeptInPlace
  <2>1. Keep[i] \in Gids /\ Keep[i] \in KeepSet /\ i - 1 \in Rows
    BY ConstantFacts DEF KeepSet
  <2>2. \A t \in tensors : ShrunkRow(i - 1, t) = Keep[i]
    BY <1>1, ConstantFacts DEF ShrunkRow
  <2> QED
    BY <1>1, <1>2, <1>3, <2>1, <2>2, KeepRemapFacts DEF Untouched, KeepBias
<1>5. ColdBooked'
  BY <1>1, <1>2, KeepRemapFacts, ConstantFacts
  DEF ColdBooked, Staged, Untouched, KeepBias, Cold
<1>6. RowsBooked'
  BY <1>1, <1>2 DEF RowsBooked, Untouched
<1>7. FreeListSound' /\ SlotsCovered'
  <2>1. \A r \in SlotRows : row_gid[r] = NoGid
    BY <1>1, ConstantFacts DEF Untouched
  <2>2. free_rows = [i \in 1 .. Slots |-> KeepLen + i - 1]
    BY <1>1 DEF Untouched
  <2>3. /\ free_rows \in Seq(SlotRows)
        /\ \A i, j \in DOMAIN free_rows : free_rows[i] = free_rows[j] => i = j
        /\ \A r \in SlotRows : \E i \in DOMAIN free_rows : free_rows[i] = r
    BY <2>2, InitialFreeList
  <2>4. \A i \in DOMAIN free_rows : free_rows[i] \in SlotRows
    BY <2>3
  <2> QED
    BY <1>2, <2>1, <2>3, <2>4 DEF FreeListSound, SlotsCovered
<1>8. CopySound'
  BY <1>1, <1>2 DEF CopySound
<1>9. \A g \in Cold : host'[g] = [t \in tensors' |-> g]
  <2>1. tensors \cap Tensors = tensors'
    BY <1>1, <1>2
  <2> QED
    BY <2>1, ConstantFacts DEF Shrink
<1>10. todo' \in Seq(Cold)
  BY <1>1, <1>2, EmptySeq DEF Untouched
<1> QED
  BY <1>1, <1>2, <1>4, <1>5, <1>6, <1>7, <1>8, <1>9, <1>10 DEF PoolInv, Shrunk

\* Taking the head of the free list as target of a copy.
LEMMA StageFreeStep ==
    ASSUME TypeOK, PoolInv, StageFree
    PROVE  PoolInv'
<1> USE DEF modelVars, tableVars, ownerVars
<1>1. /\ Shrunk /\ pc = "stage" /\ todo # <<>> /\ free_rows # <<>>
      /\ pc' = "copy" /\ cur' = Head(todo) /\ dst' = Head(free_rows) /\ copied' = {}
      /\ todo' = Tail(todo) /\ free_rows' = Tail(free_rows) /\ ~Staged(Head(todo))
      /\ UNCHANGED <<phase, tensors, weights, host, bias, remap, gid_row, row_gid, row_tick>>
  BY DEF StageFree, TakeCandidate, BeginCopy, TypeOK
<1>2. KeptInPlace /\ ColdBooked /\ RowsBooked /\ FreeListSound
      /\ SlotsCovered /\ todo \in Seq(Cold)
  BY <1>1 DEF PoolInv
<1>3. /\ Head(todo) \in Cold /\ Tail(todo) \in Seq(Cold)
  BY <1>1, <1>2, TailType
<1>4. /\ Head(free_rows) \in SlotRows /\ Tail(free_rows) \in Seq(SlotRows)
      /\ DOMAIN Tail(free_rows) = 1 .. (Len(free_rows) - 1)
      /\ \A i \in DOMAIN Tail(free_rows) :
            Tail(free_rows)[i] = free_rows[i + 1] /\ i + 1 \in DOMAIN free_rows
      /\ 1 \in DOMAIN free_rows /\ Head(free_rows) = free_rows[1]
      /\ DOMAIN free_rows = 1 .. Len(free_rows) /\ Len(free_rows) \in Nat
  <2>1. free_rows \in Seq(SlotRows)
    BY <1>2 DEF FreeListSound
  <2> QED
    BY <1>1, <2>1, TailType, LenProperties
<1>5. KeptInPlace' /\ ColdBooked' /\ RowsBooked'
  BY <1>1, <1>2 DEF KeptInPlace, ColdBooked, Staged, RowsBooked
<1>6. FreeListSound'
  <2>1. \A i \in DOMAIN Tail(free_rows) : row_gid[Tail(free_rows)[i]] = NoGid
    BY <1>2, <1>4 DEF FreeListSound
  <2>2. ASSUME NEW i \in DOMAIN Tail(free_rows), NEW j \in DOMAIN Tail(free_rows),
               Tail(free_rows)[i] = Tail(free_rows)[j]
        PROVE  i = j
    <3>1. i + 1 = j + 1
      BY <1>2, <1>4, <2>2 DEF FreeListSound
    <3> QED
      BY <3>1, <1>4
  <2> QED
    BY <1>1, <1>4, <2>1, <2>2 DEF FreeListSound
<1>7. CopySound'
  <2>1. \A i \in DOMAIN Tail(free_rows) : Tail(free_rows)[i] # Head(free_rows)
    <3> SUFFICES ASSUME NEW i \in DOMAIN Tail(free_rows),
                        Tail(free_rows)[i] = Head(free_rows)
                 PROVE  FALSE
      OBVIOUS
    <3>1. i + 1 = 1
      BY <1>2, <1>4 DEF FreeListSound
    <3> QED
      BY <3>1, <1>4
  <2>2. row_gid[Head(free_rows)] = NoGid
    BY <1>2, <1>4 DEF FreeListSound
  <2> QED
    BY <1>1, <1>3, <1>4, <2>1, <2>2 DEF CopySound, Staged
<1>8. SlotsCovered'
  <2> SUFFICES ASSUME NEW r \in SlotRows, row_gid[r] = NoGid, Head(free_rows) # r
               PROVE  \E i \in DOMAIN Tail(free_rows) : Tail(free_rows)[i] = r
    BY <1>1 DEF SlotsCovered
  <2>1. PICK i \in DOMAIN free_rows : free_rows[i] = r
    BY <1>1, <1>2 DEF SlotsCovered
  <2>2. i - 1 \in DOMAIN Tail(free_rows)
    BY <1>4, <2>1
  <2> QED
    BY <1>4, <2>1, <2>2
<1> QED
  BY <1>1, <1>2, <1>3, <1>5, <1>6, <1>7, <1>8 DEF PoolInv, Shrunk

\* Evicting the owner of a slot and taking the slot as target of a copy.
LEMMA StageEvictStep ==
    ASSUME TypeOK, PoolInv, StageEvict
    PROVE  PoolInv'
<1> USE DEF modelVars, tableVars
<1>1. PICK victim \in Victims : EvictRow(victim) /\ BeginCopy(Head(todo), victim)
  BY DEF StageEvict
<1>2. /\ Shrunk /\ pc = "stage" /\ todo # <<>> /\ free_rows = <<>>
      /\ pc' = "copy" /\ cur' = Head(todo) /\ dst' = victim /\ copied' = {}
      /\ todo' = Tail(todo) /\ ~Staged(Head(todo))
      /\ UNCHANGED <<phase, tensors, weights, host, row_tick, free_rows>>
  BY <1>1 DEF StageEvict, TakeCandidate, BeginCopy, TypeOK
<1>3. KeptInPlace /\ ColdBooked /\ RowsBooked /\ FreeListSound
      /\ SlotsCovered /\ todo \in Seq(Cold)
  BY <1>2 DEF PoolInv
<1>4. /\ Head(todo) \in Cold /\ Tail(todo) \in Seq(Cold)
  BY <1>2, <1>3, TailType
<1>5. victim \in SlotRows /\ victim \in Rows
  BY <1>3 DEF Victims, Evictable, RowsBooked
<1> DEFINE old == row_gid[victim]
<1>6. DOMAIN free_rows = {}
  BY <1>2
<1>7. old # NoGid
  BY <1>2, <1>3, <1>5, <1>6 DEF SlotsCovered
<1>8. old \in Cold /\ gid_row[old] = victim /\ old \in Gids
  BY <1>3, <1>5, <1>7, ConstantFacts DEF RowsBooked
<1>9. /\ remap' = [remap EXCEPT ![old] = 0]
      /\ bias' = [d \in Dtypes |-> [bias[d] EXCEPT ![old] = TRUE]]
      /\ gid_row' = [gid_row EXCEPT ![old] = NoRow]
      /\ row_gid' = [row_gid EXCEPT ![victim] = NoGid]
  BY <1>1, <1>7 DEF EvictRow, Mask
<1> HIDE DEF old
<1>10. /\ \A g \in Gids : g # old => remap'[g] = remap[g] /\ gid_row'[g] = gid_row[g]
                                     /\ \A d \in Dtypes : bias'[d][g] = bias[d][g]
       /\ remap'[old] = 0 /\ gid_row'[old] = NoRow /\ \A d \in Dtypes : bias'[d][old]
       /\ row_gid'[victim] = NoGid
       /\ \A r \in Rows : r # victim => row_gid'[r] = row_gid[r]
  BY <1>5, <1>8, <1>9 DEF TypeOK
<1>11. KeptInPlace'
  <2>1. \A i \in 1 .. KeepLen : Keep[i] \in Gids /\ Keep[i] # old
    BY <1>8, KeptNotCold, ConstantFacts
  <2> QED
    BY <1>2, <1>3, <1>10, <2>1 DEF KeptInPlace
<1>12. ColdBooked'
  <2> SUFFICES ASSUME NEW g \in Cold
               PROVE  ColdBooked!(g)'
    BY DEF ColdBooked
  <2>1. CASE g = old
    BY <1>10, <2>1 DEF Staged
  <2>2. CASE g # old /\ Staged(g)
    <3>1. gid_row[g] \in Rows /\ row_gid[gid_row[g]] = g
      BY <1>3, <2>2, ConstantFacts DEF ColdBooked
    <3>2. gid_row[g] # victim
      BY <2>2, <3>1 DEF old
    <3>3. /\ gid_row'[g] = gid_row[g] /\ remap'[g] = remap[g]
          /\ \A d \in Dtypes : bias'[d][g] = bias[d][g]
          /\ row_gid'[gid_row[g]] = g
      BY <1>10, <2>2, <3>1, <3>2, ConstantFacts
    <3> QED
      BY <1>2, <1>3, <2>2, <3>1, <3>3 DEF ColdBooked, Staged
  <2>3. CASE g # old /\ ~Staged(g)
    BY <1>2, <1>3, <1>10, <2>3, ConstantFacts DEF ColdBooked, Staged
  <2> QED
    BY <2>1, <2>2, <2>3
<1>13. RowsBooked'
  <2>1. \A r \in Rows : r # victim /\ row_gid[r] # NoGid =>
           row_gid[r] # old /\ row_gid[r] \in Gids
    BY <1>3, <1>8, ConstantFacts DEF RowsBooked
  <2> QED
    BY <1>2, <1>3, <1>10, <2>1 DEF RowsBooked
<1>14. FreeListSound'
  BY <1>2, <1>3, <1>6 DEF FreeListSound
<1>15. CopySound'
  <2>1. Head(todo) # old
    BY <1>2, <1>5, <1>8, ConstantFacts DEF Staged
  <2> QED
    BY <1>2, <1>4, <1>5, <1>6, <1>10, <2>1, ConstantFacts DEF CopySound, Staged
<1>16. SlotsCovered'
  BY <1>2, <1>3, <1>6, <1>10, ConstantFacts DEF SlotsCovered
<1> QED
  BY <1>2, <1>4, <1>11, <1>12, <1>13, <1>14, <1>15, <1>16 DEF PoolInv, Shrunk

\* Writing one tensor of an unowned slot.
LEMMA CopyTensorStep ==
    ASSUME TypeOK, PoolInv, CopyTensor
    PROVE  PoolInv'
<1> USE DEF modelVars, tableVars, ownerVars
<1>1. PICK t \in DOMAIN host[cur] \ copied :
         /\ weights' = [weights EXCEPT ![dst][t] = host[cur][t]]
         /\ copied' = copied \cup {t}
  BY DEF CopyTensor
<1>2. /\ Shrunk /\ pc = "copy" /\ pc' = pc
      /\ UNCHANGED <<phase, tensors, host, bias, remap, gid_row, row_gid,
                     row_tick, free_rows, todo, cur, dst>>
  BY DEF CopyTensor, TypeOK
<1>3. KeptInPlace /\ ColdBooked /\ RowsBooked /\ FreeListSound /\ CopySound
      /\ SlotsCovered /\ todo \in Seq(Cold)
  BY <1>2 DEF PoolInv
<1>4. cur \in Cold /\ ~Staged(cur) /\ dst \in SlotRows /\ dst \in Rows /\ row_gid[dst] = NoGid
  BY <1>2, <1>3, ConstantFacts DEF CopySound
<1>5. host[cur] = [u \in tensors |-> cur]
  BY <1>2, <1>4 DEF PoolInv
<1>6. t \in tensors /\ host[cur][t] = cur
  BY <1>5
<1>7. weights \in [Rows -> [tensors -> Gids \cup {Junk}]]
  BY <1>2 DEF TypeOK
<1>8. /\ \A r \in Rows, u \in tensors : r # dst => weights'[r][u] = weights[r][u]
      /\ \A u \in tensors : u # t => weights'[dst][u] = weights[dst][u]
      /\ weights'[dst][t] = cur
  BY <1>1, <1>4, <1>6, <1>7
<1>9. KeptInPlace'
  <2>1. \A i \in 1 .. KeepLen : i - 1 \in Rows /\ i - 1 # dst
    BY <1>4, KeptNotCold, ConstantFacts
  <2> QED
    BY <1>2, <1>3, <1>8, <2>1 DEF KeptInPlace
<1>10. ColdBooked'
  <2>1. \A g \in Cold : Staged(g) => gid_row[g] # dst /\ gid_row[g] \in Rows
    BY <1>3, <1>4, ConstantFacts DEF ColdBooked
  <2> QED
    BY <1>2, <1>3, <1>8, <2>1 DEF ColdBooked, Staged
<1>11. RowsBooked' /\ FreeListSound' /\ SlotsCovered'
  BY <1>2, <1>3 DEF RowsBooked, FreeListSound, SlotsCovered
<1>12. CopySound'
  <2>1. copied \subseteq tensors
    BY DEF TypeOK
  <2>2. \A u \in copied' : weights'[dst][u] = cur
    BY <1>1, <1>2, <1>3, <1>8, <2>1 DEF CopySound
  <2> QED
    BY <1>2, <1>3, <2>2 DEF CopySound, Staged
<1> QED
  BY <1>2, <1>3, <1>9, <1>10, <1>11, <1>12 DEF PoolInv, Shrunk

\* A finished copy makes the slot the expert's and unmasks it.
LEMMA CopyDoneStep ==
    ASSUME TypeOK, PoolInv, CopyDone
    PROVE  PoolInv'
<1> USE DEF modelVars
<1>1. /\ Shrunk /\ pc = "copy" /\ pc' = "stage" /\ copied = DOMAIN host[cur]
      /\ remap' = [remap EXCEPT ![cur] = dst]
      /\ bias' = [d \in Dtypes |-> [bias[d] EXCEPT ![cur] = FALSE]]
      /\ gid_row' = [gid_row EXCEPT ![cur] = dst]
      /\ row_gid' = [row_gid EXCEPT ![dst] = cur]
      /\ row_tick' = [row_tick EXCEPT ![dst] = Now]
      /\ UNCHANGED <<phase, tensors, weights, host, free_rows, todo>>
  BY DEF CopyDone, Unmask, SetTick, TypeOK
<1>2. KeptInPlace /\ ColdBooked /\ RowsBooked /\ FreeListSound /\ CopySound
      /\ SlotsCovered /\ todo \in Seq(Cold)
  BY <1>1 DEF PoolInv
<1>3. /\ cur \in Cold /\ cur \in Gids /\ ~Staged(cur)
      /\ dst \in SlotRows /\ dst \in Rows /\ row_gid[dst] = NoGid
      /\ \A i \in DOMAIN free_rows : free_rows[i] # dst
      /\ \A t \in tensors : weights[dst][t] = cur
  <2>1. host[cur] = [u \in tensors |-> cur]
    BY <1>1, <1>2 DEF PoolInv, CopySound
  <2> QED
    BY <1>1, <1>2, <2>1, ConstantFacts DEF CopySound
<1>4. /\ \A g \in Gids : g # cur => remap'[g] = remap[g] /\ gid_row'[g] = gid_row[g]
                                    /\ \A d \in Dtypes : bias'[d][g] = bias[d][g]
      /\ remap'[cur] = dst /\ gid_row'[cur] = dst /\ \A d \in Dtypes : ~bias'[d][cur]
      /\ row_gid'[dst] = cur
      /\ \A r \in Rows : r # dst => row_gid'[r] = row_gid[r] /\ row_tick'[r] = row_tick[r]
  BY <1>1, <1>3 DEF TypeOK
<1>5. KeptInPlace'
  <2>1. \A i \in 1 .. KeepLen : Keep[i] \in Gids /\ Keep[i] # cur
    BY <1>3, KeptNotCold, ConstantFacts
  <2> QED
    BY <1>1, <1>2, <1>4, <2>1 DEF KeptInPlace
<1>6. ColdBooked'
  <2> SUFFICES ASSUME NEW g \in Cold
               PROVE  ColdBooked!(g)'
    BY DEF ColdBooked
  <2>1. CASE g = cur
    BY <1>1, <1>3, <1>4, <2>1, ConstantFacts DEF Staged
  <2>2. CASE g # cur /\ Staged(g)
    <3>1. gid_row[g] # dst /\ gid_row[g] \in Rows
      BY <1>2, <1>3, <2>2, ConstantFacts DEF ColdBooked
    <3> QED
      BY <1>1, <1>2, <1>4, <2>2, <3>1, ConstantFacts DEF ColdBooked, Staged
  <2>3. CASE g # cur /\ ~Staged(g)
    BY <1>1, <1>2, <1>4, <2>3, ConstantFacts DEF ColdBooked, Staged
  <2> QED
    BY <2>1, <2>2, <2>3
<1>7. RowsBooked'
  <2>1. \A r \in Rows : r # dst /\ row_gid[r] # NoGid => row_gid[r] # cur /\ row_gid[r] \in Gids
    BY <1>2, <1>3, ConstantFacts DEF RowsBooked, Staged
  <2> QED
    BY <1>1, <1>2, <1>3, <1>4, <2>1 DEF RowsBooked
<1>8. FreeListSound'
  <2>1. free_rows \in Seq(SlotRows)
    BY <1>2 DEF FreeListSound
  <2>2. \A i \in DOMAIN free_rows : free_rows[i] \in SlotRows
    BY <2>1
  <2>3. \A i \in DOMAIN free_rows : free_rows[i] \in Rows
    BY <2>2, ConstantFacts
  <2> QED
    BY <1>1, <1>2, <1>3, <1>4, <2>3 DEF FreeListSound
<1>9. CopySound'
  BY <1>1 DEF CopySound
<1>10. SlotsCovered'
  <2>1. SlotRows \subseteq Rows
    BY ConstantFacts
  <2>2. cur # NoGid
    BY <1>3, ConstantFacts
  <2> QED
    BY <1>1, <1>2, <1>4, <2>1, <2>2 DEF SlotsCovered
<1> QED
  BY <1>1, <1>2, <1>5, <1>6, <1>7, <1>8, <1>9, <1>10 DEF PoolInv, Shrunk

\* A failed copy gives the slot back to the free list.
LEMMA CopyFailStep ==
    ASSUME TypeOK, PoolInv, CopyFail
    PROVE  PoolInv'
<1> USE DEF modelVars, tableVars, ownerVars
<1>1. /\ Shrunk /\ pc = "copy" /\ pc' = "stage" /\ ReturnRow(dst)
      /\ UNCHANGED <<phase, tensors, weights, host, bias, remap, gid_row,
                     row_gid, row_tick, todo>>
  BY DEF CopyFail, TypeOK
<1>2. KeptInPlace /\ ColdBooked /\ RowsBooked /\ FreeListSound /\ CopySound
      /\ SlotsCovered /\ todo \in Seq(Cold)
  BY <1>1 DEF PoolInv
<1>3. /\ dst \in SlotRows /\ row_gid[dst] = NoGid
      /\ \A i \in DOMAIN free_rows : free_rows[i] # dst
      /\ free_rows \in Seq(SlotRows)
  BY <1>1, <1>2 DEF CopySound, FreeListSound
<1>4. DOMAIN free_rows = 1 .. Len(free_rows) /\ Len(free_rows) \in Nat
  BY <1>3, LenProperties, SMTT(60)
<1>5. free_rows' = Append(free_rows, dst)
  BY <1>1, <1>3, <1>4 DEF ReturnRow, Contains
<1>6. /\ free_rows' \in Seq(SlotRows)
      /\ DOMAIN free_rows' = 1 .. (Len(free_rows) + 1)
      /\ \A i \in 1 .. Len(free_rows) : free_rows'[i] = free_rows[i]
      /\ free_rows'[Len(free_rows) + 1] = dst
  BY <1>3, <1>5
<1>7. FreeListSound'
  <2>1. \A i \in DOMAIN free_rows' : row_gid'[free_rows'[i]] = NoGid
    BY <1>1, <1>2, <1>3, <1>4, <1>6 DEF FreeListSound
  <2>2. ASSUME NEW i \in DOMAIN free_rows', NEW j \in DOMAIN free_rows',
               free_rows'[i] = free_rows'[j]
        PROVE  i = j
    BY <1>2, <1>3, <1>4, <1>6, <2>2 DEF FreeListSound
  <2> QED
    BY <1>6, <2>1, <2>2 DEF FreeListSound
<1>8. SlotsCovered'
  BY <1>1, <1>2, <1>4, <1>6 DEF SlotsCovered
<1>9. KeptInPlace' /\ ColdBooked' /\ RowsBooked' /\ CopySound'
  BY <1>1, <1>2 DEF KeptInPlace, ColdBooked, Staged, RowsBooked, CopySound
<1> QED
  BY <1>1, <1>2, <1>7, <1>8, <1>9 DEF PoolInv, Shrunk

\* A scan leaves a list of cold experts to treat.
LEMMA ScanTallyStep ==
    ASSUME TypeOK, PoolInv, ScanTally
    PROVE  PoolInv'
<1> USE DEF modelVars, tableVars, copyVars
<1>1. /\ pc = "scan" /\ pc' = "stage" /\ Shrunk /\ row_tick' = AgedTicks
      /\ UNCHANGED <<phase, tensors, weights, host, bias, remap, gid_row,
                     row_gid, free_rows>>
  BY DEF ScanTally, AdvanceTick, TypeOK
<1>2. todo' \in Seq(Cold)
  <2> DEFINE C == {g \in Cold : need'[g] >= NeedHits * Unit}
  <2>1. PICK q \in Rankings(C, need') : todo' = Prefix(q, MaxStage)
    BY DEF ScanTally
  <2>2. C \subseteq Gids /\ C \subseteq Cold
    BY ConstantFacts
  <2>3. q \in Seq(C)
    BY <2>1, <2>2, RankingsType
  <2>4. q \in Seq(Cold)
    BY <2>2, <2>3
  <2> QED
    BY <2>1, <2>4, PrefixType, DemandAssumption
<1>3. \A r \in Rows : row_tick'[r] # NoTick => row_tick[r] # NoTick
  BY <1>1, AgedKeys
<1> QED
  BY <1>1, <1>2, <1>3, QuietStep

\* With Phase B off, PoolInv is inductive: whatever the hook has done so far,
\* rows, tables, books and free list fit together.
THEOREM PoolSafe ==
    ASSUME ~Degrade
    PROVE  Spec => []PoolInv
<1>1. Init => PoolInv
  <2> SUFFICES ASSUME Init PROVE PoolInv
    OBVIOUS
  <2>1. ~Shrunk
    BY DEF Init, Shrunk
  <2> QED
    BY <2>1 DEF Init, PoolInv, Untouched
<1>2. TypeOK /\ PoolInv /\ [Next]_vars => PoolInv'
  <2> SUFFICES ASSUME TypeOK, PoolInv, [Next]_vars PROVE PoolInv'
    OBVIOUS
  <2> USE DEF modelVars, tableVars, ownerVars, demandVars, copyVars
  <2>0. todo \in Seq(Cold) \/ ~Shrunk
    BY DEF PoolInv
  <2>1. CASE Shrink
    BY <2>1, ShrinkStep
  <2>2. CASE RefuseShrink
    BY <2>2 DEF RefuseShrink, PoolInv, Shrunk, Untouched
  <2>3. CASE UNCHANGED vars
    BY <2>3 DEF vars, PoolInv, Shrunk, Untouched, KeptInPlace, ColdBooked,
       Staged, RowsBooked, FreeListSound, CopySound, SlotsCovered
  <2>4. CASE Aborted
    BY <2>3, <2>4 DEF Aborted
  <2>5. ASSUME NEW cfg \in {"target", "draft"}, EagerForward(cfg) PROVE PoolInv'
    <3>1. /\ pc = "ready" /\ pc' = "tail"
          /\ UNCHANGED <<phase, tensors, weights, host, bias, remap, gid_row,
                         row_gid, row_tick, free_rows, todo>>
      BY <2>5 DEF EagerForward
    <3> QED
      BY <2>0, <3>1, QuietStep
  <2>6. CASE ReplayForward
    <3>1. /\ pc = "ready" /\ pc' = "tail"
          /\ UNCHANGED <<phase, tensors, weights, host, bias, remap, gid_row,
                         row_gid, row_tick, free_rows, todo>>
      BY <2>6 DEF ReplayForward
    <3> QED
      BY <2>0, <3>1, QuietStep
  <2>7. CASE HookEntry
    <3>1. /\ pc = "tail" /\ pc' \in {"scan", "ready"}
          /\ UNCHANGED <<phase, tensors, weights, host, bias, remap, gid_row,
                         row_gid, row_tick, free_rows, todo>>
      BY <2>7 DEF HookEntry
    <3> QED
      BY <2>0, <3>1, QuietStep
  <2>8. CASE ScanSkip
    <3>1. /\ pc = "scan" /\ pc' = "ready" /\ Shrunk /\ row_tick' = AgedTicks
          /\ UNCHANGED <<phase, tensors, weights, host, bias, remap, gid_row,
                         row_gid, free_rows, todo>>
      BY <2>8 DEF ScanSkip, AdvanceTick, TypeOK
    <3>2. \A r \in Rows : row_tick'[r] # NoTick => row_tick[r] # NoTick
      BY <3>1, AgedKeys
    <3> QED
      BY <2>0, <3>1, <3>2, QuietStep
  <2>9. CASE ScanTally
    BY <2>9, ScanTallyStep
  <2>10. CASE StageSkip \/ StageNoRow
    <3>1. /\ pc = "stage" /\ pc' = pc /\ Shrunk /\ todo # <<>>
          /\ todo' \in {Tail(todo), <<>>}
          /\ UNCHANGED <<phase, tensors, weights, host, bias, remap, gid_row,
                         row_gid, row_tick, free_rows>>
      BY <2>10 DEF StageSkip, StageNoRow, TakeCandidate, TypeOK
    <3>2. todo' \in Seq(Cold)
      <4>1. Tail(todo) \in Seq(Cold)
        BY <2>0, <3>1, TailType
      <4>2. <<>> \in Seq(Cold)
        BY EmptySeq
      <4> QED
        BY <3>1, <4>1, <4>2
    <3> QED
      BY <3>1, <3>2, QuietStep
  <2>11. CASE StageFree
    BY <2>11, StageFreeStep
  <2>12. CASE StageEvict
    BY <2>12, StageEvictStep
  <2>13. CASE CopyTensor
    BY <2>13, CopyTensorStep
  <2>14. CASE CopyDone
    BY <2>14, CopyDoneStep
  <2>15. CASE CopyFail
    BY <2>15, CopyFailStep
  <2>16. CASE StageDone
    <3>1. /\ pc = "stage" /\ pc' = "ready"
          /\ UNCHANGED <<phase, tensors, weights, host, bias, remap, gid_row,
                         row_gid, row_tick, free_rows, todo>>
      BY <2>16 DEF StageDone
    <3> QED
      BY <2>0, <3>1, QuietStep
  <2>17. CASE DegradeScan \/ Demote \/ Promote
    <3>1. pc \in {"degrade", "demote"}
      BY <2>17 DEF DegradeScan, Demote, Promote
    <3>2. Shrunk
      BY <3>1 DEF TypeOK
    <3> QED
      BY <3>1, <3>2 DEF PoolInv
  <2> QED
    BY <2>1, <2>2, <2>3, <2>4, <2>5, <2>6, <2>7, <2>8, <2>9, <2>10, <2>11,
       <2>12, <2>13, <2>14, <2>15, <2>16, <2>17 DEF Next, HookStep
<1> QED
  BY <1>1, <1>2, TypeCorrect, PTL DEF Spec

-----------------------------------------------------------------------------
(* The identity gate. *)

\* The target is managed from the shrink on, and nothing else ever is, so only
\* its rows are stashed.
TargetStash == \A i \in DOMAIN stash : stash[i].cfg = "target"
GateInv == managed = (IF Shrunk THEN {"target"} ELSE {}) /\ TargetStash

\* The gate goes by the config objects that maybe_shrink_after_process
\* registered, and sampling keeps the rows of one batch.
THEOREM GateSafe == Spec => []GateInv
<1>1. Init => GateInv
  BY DEF Init, GateInv, TargetStash, Shrunk
<1>2. GateInv /\ [Next]_vars => GateInv'
  <2> SUFFICES ASSUME GateInv, [Next]_vars PROVE GateInv'
    OBVIOUS
  <2> USE DEF modelVars, demandVars
  <2>1. CASE Shrink
    BY <2>1 DEF Shrink, GateInv, TargetStash, Shrunk
  <2>2. ASSUME NEW cfg \in {"target", "draft"}, EagerForward(cfg) PROVE GateInv'
    <3>1. UNCHANGED <<managed, phase>>
      BY <2>2 DEF EagerForward
    <3>2. CASE IsManagedConfig(cfg) /\ Dynamic
      <4>1. cfg = "target"
        BY <3>2 DEF IsManagedConfig, GateInv
      <4>2. PICK d \in Dtypes, n \in MinRows .. MaxRows :
                   \E batch \in TupleOf(BatchRows(cfg, d), n) : stash' = Sampled(batch)
        BY <2>2, <3>2 DEF EagerForward
      <4>3. PICK batch \in TupleOf(BatchRows(cfg, d), n) : stash' = Sampled(batch)
        BY <4>2
      <4>4. n \in Nat
        BY DemandAssumption
      <4>5. stash' \in Seq(BatchRows(cfg, d))
        BY <4>3, <4>4, SampledType DEF TupleOf
      <4>6. \A row \in BatchRows(cfg, d) : row.cfg = "target"
        BY <4>1 DEF BatchRows
      <4>7. \A i \in DOMAIN stash' : stash'[i] \in BatchRows(cfg, d)
        BY <4>5
      <4> QED
        BY <3>1, <4>6, <4>7 DEF GateInv, TargetStash, Shrunk
    <3>3. CASE ~(IsManagedConfig(cfg) /\ Dynamic)
      BY <2>2, <3>1, <3>3 DEF EagerForward, GateInv, TargetStash, Shrunk
    <3> QED
      BY <3>2, <3>3
  <2>3. CASE ScanTally
    BY <2>3 DEF ScanTally, GateInv, TargetStash, Shrunk
  <2>4. CASE UNCHANGED <<managed, phase, stash>>
    BY <2>4 DEF GateInv, TargetStash, Shrunk
  <2>5. CASE RefuseShrink
    BY <2>5 DEF RefuseShrink, GateInv, TargetStash, Shrunk
  <2>10. CASE Aborted \/ ReplayForward \/ HookEntry \/ ScanSkip
    BY <2>4, <2>10 DEF Aborted, vars, ReplayForward, HookEntry, ScanSkip
  <2>6. CASE StageSkip \/ StageFree \/ StageEvict \/ StageNoRow
    BY <2>4, <2>6 DEF StageSkip, StageFree, StageEvict, StageNoRow
  <2>7. CASE CopyTensor \/ CopyDone \/ CopyFail \/ StageDone
    BY <2>4, <2>7 DEF CopyTensor, CopyDone, CopyFail, StageDone
  <2>8. CASE DegradeScan \/ Demote \/ Promote
    BY <2>4, <2>8 DEF DegradeScan, Demote, Promote
  <2>9. CASE UNCHANGED vars
    BY <2>4, <2>9 DEF vars
  <2> QED
    BY <2>1, <2>2, <2>3, <2>5, <2>6, <2>7, <2>8, <2>9, <2>10 DEF Next, HookStep
<1> QED
  BY <1>1, <1>2, PTL DEF Spec

\* What the tables do to the two models: the target goes through them once the
\* pool is shrunk, a draft model never does.
LEMMA Gated ==
    ASSUME GateInv
    PROVE  /\ IsManagedConfig("target") <=> Shrunk
           /\ ~IsManagedConfig("draft")
BY DEF GateInv, IsManagedConfig

\* A draft model's demand never reaches the stash, and its ids and scores pass
\* the tables of the target untouched: select_experts acts on a registered
\* TopKConfig only.
THEOREM DraftUntouchedAlways == Spec => []DraftUntouched
<1>1. GateInv => DraftUntouched
  BY Gated DEF GateInv, TargetStash, DraftUntouched, Routable, RowOf
<1> QED
  BY <1>1, GateSafe, PTL

-----------------------------------------------------------------------------
(* What the code promises, from the inductive invariant. *)

\* Whatever dtype the logits have and wherever the hook stands, a routable
\* expert reads its own bytes.
THEOREM RoutableIntactAlways ==
    ASSUME ~Degrade
    PROVE  Spec => []RoutableIntact
<1>1. TypeOK /\ PoolInv /\ GateInv => RoutableIntact
  <2> SUFFICES ASSUME TypeOK, PoolInv, GateInv, phase # "aborted", NEW d \in Dtypes,
                      NEW g \in Routable("target", d), NEW t \in tensors
               PROVE  weights[RowOf("target", g)][t] = g
    BY DEF RoutableIntact
  <2>1. g \in Gids
    BY DEF Routable
  <2>2. CASE ~Shrunk
    BY <2>1, <2>2, Gated DEF PoolInv, Untouched, RowOf
  <2>3. CASE Shrunk /\ g \in Cold
    BY <2>3, Gated DEF PoolInv, ColdBooked, Routable, RowOf
  <2>4. CASE Shrunk /\ g \notin Cold
    <3>1. PICK i \in 1 .. KeepLen : g = Keep[i]
      BY <2>1, <2>4, KeptNotCold
    <3> QED
      BY <2>4, <3>1, Gated DEF PoolInv, KeptInPlace, RowOf
  <2> QED
    BY <2>2, <2>3, <2>4
<1> QED
  BY <1>1, TypeCorrect, PoolSafe, GateSafe, PTL

\* Masked experts point at row 0, which always holds the first kept expert.
THEOREM MaskedParkedAlways ==
    ASSUME ~Degrade
    PROVE  Spec => []MaskedParked
<1>1. TypeOK /\ PoolInv => MaskedParked
  <2> SUFFICES ASSUME TypeOK, PoolInv, Shrunk PROVE MaskedParked
    BY DEF MaskedParked
  <2>1. ASSUME NEW d \in Dtypes, NEW g \in Gids, bias[d][g] PROVE remap[g] = 0
    <3>1. g \in Cold
      <4> SUFFICES ASSUME g \notin Cold PROVE FALSE
        OBVIOUS
      <4>1. PICK i \in 1 .. KeepLen : g = Keep[i]
        BY KeptNotCold
      <4> QED
        BY <2>1, <4>1 DEF PoolInv, KeptInPlace
    <3> QED
      BY <2>1, <3>1 DEF PoolInv, ColdBooked
  <2>2. \A t \in tensors : weights[0][t] = Keep[1]
    <3>1. 1 \in 1 .. KeepLen /\ 1 - 1 = 0
      BY ConstantFacts
    <3> QED
      BY <3>1 DEF PoolInv, KeptInPlace
  <2> QED
    BY <2>1, <2>2 DEF MaskedParked
<1> QED
  BY <1>1, TypeCorrect, PoolSafe, PTL

\* A cold expert is visible exactly while it is booked on a row.
THEOREM StagedVisibleAlways ==
    ASSUME ~Degrade
    PROVE  Spec => []StagedVisible
<1>1. TypeOK /\ PoolInv => StagedVisible
  <2> SUFFICES ASSUME TypeOK, PoolInv, Shrunk, NEW g \in Cold, ~Staged(g),
                      NEW r \in Rows, row_gid[r] = g
               PROVE  FALSE
    BY DEF StagedVisible, PoolInv, ColdBooked
  <2> QED
    BY ConstantFacts DEF PoolInv, RowsBooked, Staged
<1> QED
  BY <1>1, TypeCorrect, PoolSafe, PTL

\* Every slot is free once, or owned, or being filled.
THEOREM SlotsConservedAlways ==
    ASSUME ~Degrade
    PROVE  Spec => []SlotsConserved
<1>1. TypeOK /\ PoolInv => SlotsConserved
  <2> SUFFICES ASSUME TypeOK, PoolInv PROVE SlotsConserved
    OBVIOUS
  <2>1. /\ \A i \in DOMAIN free_rows : row_gid[free_rows[i]] = NoGid
        /\ \A i, j \in DOMAIN free_rows : free_rows[i] = free_rows[j] => i = j
        /\ CopySound /\ SlotsCovered
    <3>1. CASE Shrunk
      BY <3>1 DEF PoolInv, FreeListSound
    <3>2. CASE ~Shrunk
      <4>1. /\ free_rows = [i \in 1 .. Slots |-> KeepLen + i - 1]
            /\ row_gid = [r \in Rows |-> NoGid]
            /\ pc # "copy"
        BY <3>2 DEF PoolInv, Untouched, TypeOK
      <4>2. /\ free_rows \in Seq(SlotRows)
            /\ \A i, j \in DOMAIN free_rows : free_rows[i] = free_rows[j] => i = j
            /\ \A r \in SlotRows : \E i \in DOMAIN free_rows : free_rows[i] = r
        BY <4>1, InitialFreeList
      <4>3. \A i \in DOMAIN free_rows : free_rows[i] \in SlotRows
        BY <4>2
      <4>4. \A i \in DOMAIN free_rows : free_rows[i] \in Rows
        BY <4>3, ConstantFacts
      <4> QED
        BY <4>1, <4>2, <4>4, ConstantFacts DEF CopySound, SlotsCovered
    <3> QED
      BY <3>1, <3>2
  <2> SUFFICES ASSUME NEW r \in SlotRows
               PROVE  SlotsConserved!(r)
    BY DEF SlotsConserved
  <2> DEFINE at == {i \in DOMAIN free_rows : free_rows[i] = r}
  <2>2. CASE \E i \in DOMAIN free_rows : free_rows[i] = r
    <3>1. PICK i \in DOMAIN free_rows : free_rows[i] = r
      BY <2>2
    <3>2. at = {i}
      BY <2>1, <3>1
    <3>3. Cardinality(at) = 1
      BY <3>2, FS_Singleton
    <3>4. row_gid[r] = NoGid /\ ~(pc = "copy" /\ dst = r)
      BY <2>1, <3>1 DEF CopySound
    <3> QED
      BY <3>3, <3>4
  <2>3. CASE ~ \E i \in DOMAIN free_rows : free_rows[i] = r
    <3>1. Cardinality(at) = 0
      BY <2>3, FS_EmptySet
    <3>2. (row_gid[r] # NoGid) # (pc = "copy" /\ dst = r)
      BY <2>1, <2>3 DEF CopySound, SlotsCovered
    <3> QED
      BY <3>1, <3>2
  <2> QED
    BY <2>2, <2>3
<1> QED
  BY <1>1, TypeCorrect, PoolSafe, PTL

-----------------------------------------------------------------------------
(* Weak experts. *)

\* A nonempty set of experts has one with the best score.
LEMMA BestExpert ==
    ASSUME NEW S, S \subseteq Gids, S # {}, NEW f \in [Gids -> Nat]
    PROVE  \E g \in S : \A h \in S : f[g] >= f[h]
<1> DEFINE Bad == {U \in SUBSET Gids : U # {} /\ ~ \E g \in U : \A h \in U : f[g] >= f[h]}
<1>1. IsFiniteSet(Gids)
  BY FS_Interval, ConstantFacts DEF Gids
<1>2. IsWellFoundedOn(StrictSubsetOrdering(Gids), FiniteSubsetsOf(Gids))
  BY FS_StrictSubsetOrderingWellFounded
<1>3. Bad \subseteq FiniteSubsetsOf(Gids)
  BY <1>1, FS_Subset DEF FiniteSubsetsOf
<1>4. ASSUME Bad # {} PROVE FALSE
  <2> HIDE DEF Bad
  <2>1. PICK U \in Bad : \A V \in Bad : ~(<<V, U>> \in StrictSubsetOrdering(Gids))
    BY <1>2, <1>3, <1>4, WFMin
  <2> USE DEF Bad
  <2>2. PICK x \in U : TRUE
    OBVIOUS
  <2>3. x \in Gids /\ U \subseteq Gids
    OBVIOUS
  <2> DEFINE V == U \ {x}
  <2>4. CASE V = {}
    <3>1. U = {x}
      BY <2>2, <2>4
    <3>2. \A h \in U : f[x] >= f[h]
      BY <3>1, <2>3
    <3> QED
      BY <3>2, <2>2
  <2>5. CASE V # {}
    <3>1. <<V, U>> \in StrictSubsetOrdering(Gids)
      BY <2>2, <2>3 DEF StrictSubsetOrdering
    <3>2. V \notin Bad
      BY <2>1, <3>1
    <3>3. PICK g \in V : \A h \in V : f[g] >= f[h]
      BY <2>3, <2>5, <3>2
    <3>4. f[x] \in Nat /\ f[g] \in Nat /\ \A h \in U : f[h] \in Nat
      BY <2>3, <3>3
    <3>5. CASE f[x] >= f[g]
      <4>1. \A h \in U : f[x] >= f[h]
        BY <3>3, <3>4, <3>5
      <4> QED
        BY <4>1, <2>2
    <3>6. CASE ~(f[x] >= f[g])
      <4>1. \A h \in U : f[g] >= f[h]
        BY <3>3, <3>4, <3>6
      <4> QED
        BY <4>1, <3>3
    <3> QED
      BY <3>5, <3>6
  <2> QED
    BY <2>4, <2>5
<1> QED
  BY <1>4

\* No row of the stash votes for a weak expert.
LEMMA WeakHasNoVotes ==
    ASSUME TypeOK, NEW g \in Cold, Weak(g)
    PROVE  StrongHits(g) = 0 /\ ProbeHits(g) = 0
<1>1. \A i \in DOMAIN stash : stash[i] \in StashRow
  BY DEF TypeOK
<1>2. ASSUME NEW row \in StashRow PROVE ~InBand(row, g)
  <2> SUFFICES ASSUME NEW h \in row.sel \cap KeepSet,
                      Score[row.tok][g] * AlphaDen >= AlphaNum * Score[row.tok][h]
               PROVE  FALSE
    BY DEF InBand
  <2>1. row.tok \in Tokens
    BY DEF StashRow
  <2>2. Score[row.tok] \in [Gids -> Nat] /\ g \in Gids /\ h \in Gids
    BY <2>1, DemandAssumption, ConstantFacts
  <2> DEFINE x == Score[row.tok][g] * AlphaDen
             y == AlphaNum * Score[row.tok][h]
  <2>3. x < y
    BY <2>1 DEF Weak
  <2>4. x \in Nat /\ y \in Nat
    BY <2>2, DemandAssumption
  <2>5. x >= y
    OBVIOUS
  <2> HIDE DEF x, y
  <2> QED
    BY <2>3, <2>4, <2>5
<1>3. {i \in DOMAIN stash : g \in stash[i].sel /\ InBand(stash[i], g)} = {}
  BY <1>1, <1>2
<1>4. ASSUME NEW i \in DOMAIN stash PROVE Probed(stash[i]) # g
  <2> DEFINE row == stash[i]
             band == {h \in Cold : ~Staged(h) /\ InBand(row, h)}
  <2>1. row \in StashRow
    BY <1>1
  <2>2. CASE band = {}
    <3>1. Probed(row) = NoGid
      BY <2>2 DEF Probed
    <3> QED
      BY <3>1, ConstantFacts
  <2>3. CASE band # {}
    <3>1. Score[row.tok] \in [Gids -> Nat]
      BY <2>1, DemandAssumption DEF StashRow
    <3>2. band \subseteq Gids
      BY ConstantFacts
    <3>3. \E h \in band : \A k \in band : Score[row.tok][h] >= Score[row.tok][k]
      <4> HIDE DEF band
      <4> QED
        BY <3>1, <3>2, <2>3, BestExpert
    <3>4. Probed(row) = CHOOSE h \in band : \A k \in band : Score[row.tok][h] >= Score[row.tok][k]
      BY <2>3 DEF Probed
    <3>5. Probed(row) \in band
      <4> HIDE DEF band
      <4> QED
        BY <3>3, <3>4
    <3>6. g \notin band
      BY <1>2, <2>1
    <3> QED
      BY <3>5, <3>6
  <2> QED
    BY <2>2, <2>3
<1>5. {i \in DOMAIN stash : Probed(stash[i]) = g} = {}
  BY <1>4
<1> QED
  BY <1>3, <1>5, FS_EmptySet DEF StrongHits, ProbeHits

\* A weak expert is neither staged nor on its way into a row.
WeakInv ==
    \A g \in Cold : Weak(g) =>
        /\ ~Staged(g)
        /\ need[g] = 0
        /\ \A i \in DOMAIN todo : todo[i] # g
        /\ pc = "copy" => cur # g

\* Counters of other experts are reset, the rest of the books stay.
LEMMA WeakKept ==
    ASSUME TypeOK, WeakInv,
           \A g \in Cold : need[g] = 0 => need'[g] = 0,
           \A g \in Cold : ~Staged(g) => ~Staged(g)',
           \A i \in DOMAIN todo' : \/ todo'[i] \notin Cold
                                   \/ \E j \in DOMAIN todo : todo'[i] = todo[j],
           pc' = "copy" => \/ pc = "copy" /\ cur' = cur
                           \/ \E j \in DOMAIN todo : cur' = todo[j]
    PROVE  WeakInv'
<1> SUFFICES ASSUME NEW g \in Cold, Weak(g)
             PROVE  /\ ~Staged(g)' /\ need'[g] = 0
                    /\ \A i \in DOMAIN todo' : todo'[i] # g
                    /\ pc' = "copy" => cur' # g
  BY DEF WeakInv, Weak
<1>1. /\ ~Staged(g) /\ need[g] = 0
      /\ \A i \in DOMAIN todo : todo[i] # g
      /\ pc = "copy" => cur # g
  BY DEF WeakInv
<1> QED
  BY <1>1

\* The treatment of a candidate resets its counter and drops it from the list.
LEMMA CandidateTaken ==
    ASSUME TypeOK, TakeCandidate
    PROVE  /\ \A g \in Cold : need[g] = 0 => need'[g] = 0
           /\ 1 \in DOMAIN todo /\ Head(todo) = todo[1] /\ Head(todo) \in Gids
           /\ \A i \in DOMAIN Tail(todo) :
                 \E j \in DOMAIN todo : Tail(todo)[i] = todo[j]
<1>1. need' = [need EXCEPT ![Head(todo)] = 0] /\ todo # <<>> /\ todo \in Seq(Gids)
  BY DEF TakeCandidate, TypeOK
<1>2. need \in [Gids -> Nat]
  BY DEF TypeOK
<1>3. \A g \in Cold : need[g] = 0 => need'[g] = 0
  BY <1>1, <1>2, ConstantFacts
<1> QED
  BY <1>1, <1>3, TailType

\* An expert below the band of every kept expert is never staged
\* (WeakNeverStaged): neither the hook's votes nor the probe's count for it, so
\* it never reaches a positive threshold SGLANG_COLD_NEED_HITS.  A threshold of 0
\* would make every cold expert a candidate.
THEOREM WeakNeverStagedAlways ==
    ASSUME NeedHits > 0
    PROVE  Spec => []WeakNeverStaged
<1>1. Init => WeakInv
  <2> SUFFICES ASSUME Init, NEW g \in Cold
               PROVE  /\ ~Staged(g) /\ need[g] = 0
                      /\ \A i \in DOMAIN todo : todo[i] # g
                      /\ pc = "copy" => cur # g
    BY DEF WeakInv
  <2> QED
    BY ConstantFacts DEF Init, Staged
<1>2. TypeOK /\ WeakInv /\ [Next]_vars => WeakInv'
  <2> SUFFICES ASSUME TypeOK, WeakInv, [Next]_vars PROVE WeakInv'
    OBVIOUS
  <2> USE DEF modelVars, tableVars, ownerVars, demandVars, copyVars
  <2>1. CASE ScanTally
    <3> SUFFICES ASSUME NEW g \in Cold, Weak(g)
                 PROVE  /\ ~Staged(g)' /\ need'[g] = 0
                        /\ \A i \in DOMAIN todo' : todo'[i] # g
                        /\ pc' = "copy" => cur' # g
      BY DEF WeakInv, Weak
    <3>1. ~Staged(g)' /\ pc' = "stage"
      BY <2>1 DEF ScanTally, Staged, WeakInv
    <3>2. need'[g] = 0
      <4>1. need[g] = 0 /\ StrongHits(g) = 0 /\ ProbeHits(g) = 0
        BY WeakHasNoVotes DEF WeakInv
      <4>2. Tallied(g) = ((0 + Unit * 0) * DecayNum) \div DecayDen + Unit * 0
        BY <4>1 DEF Tallied
      <4>3. Tallied(g) = 0
        BY <4>2, DemandAssumption
      <4> QED
        BY <2>1, <4>3, ConstantFacts DEF ScanTally
    <3> DEFINE wanted == {h \in Cold : need'[h] >= NeedHits * Unit}
    <3>3. PICK q \in Rankings(wanted, need') : todo' = Prefix(q, MaxStage)
      BY <2>1 DEF ScanTally
    <3>4. g \notin wanted
      <4>1. NeedHits \in Nat /\ Unit \in Nat /\ Unit > 0
        BY DemandAssumption
      <4>2. NeedHits * Unit \in Nat /\ NeedHits * Unit > 0
        BY <4>1
      <4> DEFINE least == NeedHits * Unit
      <4>3. ~(need'[g] >= least)
        <5> HIDE DEF least
        <5>1. least \in Nat /\ least > 0
          BY <4>2 DEF least
        <5> QED
          BY <3>2, <5>1
      <4> QED
        BY <4>3
    <3>5. todo' \in Seq(wanted)
      <4>1. wanted \subseteq Gids
        BY ConstantFacts
      <4>2. MaxStage \in Nat
        BY DemandAssumption
      <4> HIDE DEF wanted
      <4>3. q \in Seq(wanted)
        BY <3>3, <4>1, RankingsType
      <4> QED
        BY <3>3, <4>2, <4>3, PrefixType
    <3>6. \A i \in DOMAIN todo' : todo'[i] \in wanted
      <4> HIDE DEF wanted
      <4> QED
        BY <3>5
    <3> QED
      BY <3>1, <3>2, <3>4, <3>6
  <2>2. CASE StageSkip
    <3>1. TakeCandidate /\ todo' = Tail(todo) /\ UNCHANGED <<pc, cur, gid_row>>
      BY <2>2 DEF StageSkip
    <3>2. pc # "copy"
      BY <2>2 DEF StageSkip, TakeCandidate
    <3> QED
      BY <3>1, <3>2, CandidateTaken, WeakKept DEF Staged
  <2>3. CASE StageFree
    <3>1. /\ TakeCandidate /\ todo' = Tail(todo) /\ UNCHANGED gid_row
          /\ cur' = Head(todo)
      BY <2>3 DEF StageFree, BeginCopy
    <3> QED
      BY <3>1, CandidateTaken, WeakKept DEF Staged
  <2>4. CASE StageEvict
    <3>1. PICK victim \in Victims : EvictRow(victim) /\ BeginCopy(Head(todo), victim)
      BY <2>4 DEF StageEvict
    <3>2. TakeCandidate /\ todo' = Tail(todo) /\ cur' = Head(todo)
      BY <2>4, <3>1 DEF StageEvict, BeginCopy
    <3>3. \A g \in Cold : ~Staged(g) => ~Staged(g)'
      <4>1. gid_row \in [Gids -> Rows \cup {NoRow}]
        BY DEF TypeOK
      <4> QED
        BY <3>1, <4>1, ConstantFacts DEF EvictRow, Staged
    <3> QED
      BY <3>2, <3>3, CandidateTaken, WeakKept
  <2>5. CASE StageNoRow
    <3>1. TakeCandidate /\ todo' = <<>> /\ UNCHANGED <<pc, cur, gid_row>>
      BY <2>5 DEF StageNoRow
    <3>2. pc # "copy" /\ DOMAIN todo' = {}
      BY <2>5, <3>1 DEF TakeCandidate, StageNoRow
    <3> QED
      BY <3>1, <3>2, CandidateTaken, WeakKept DEF Staged
  <2>6. CASE CopyDone
    <3>1. /\ pc = "copy" /\ pc' = "stage" /\ UNCHANGED <<need, todo>>
          /\ gid_row' = [gid_row EXCEPT ![cur] = dst]
      BY <2>6 DEF CopyDone
    <3> SUFFICES ASSUME NEW g \in Cold, Weak(g)
                 PROVE  /\ ~Staged(g)' /\ need'[g] = 0
                        /\ \A i \in DOMAIN todo' : todo'[i] # g
                        /\ pc' = "copy" => cur' # g
      BY DEF WeakInv, Weak
    <3>2. g # cur /\ ~Staged(g) /\ need[g] = 0 /\ \A i \in DOMAIN todo : todo[i] # g
      BY <3>1 DEF WeakInv
    <3> QED
      BY <3>1, <3>2 DEF Staged, TypeOK
  <2>7. CASE DegradeScan
    <3>1. PICK q \in Starved(seen_age') : todo' = Prefix(q, 2)
      BY <2>7 DEF DegradeScan
    <3> DEFINE late == {g \in KeepSet : seen_age'[g] > Window}
    <3>2. q \in Seq(late)
      <4>1. late \subseteq Gids
        BY ConstantFacts
      <4> QED
        BY <3>1, <4>1, RankingsType DEF Starved
    <3>3. todo' \in Seq(late)
      <4> HIDE DEF late
      <4> QED
        BY <3>1, <3>2, PrefixType
    <3>4. \A i \in DOMAIN todo' : todo'[i] \in late
      <4> HIDE DEF late
      <4> QED
        BY <3>3
    <3>5. \A i \in DOMAIN todo' : todo'[i] \notin Cold
      BY <3>4 DEF Cold
    <3>6. pc' = "demote" /\ UNCHANGED <<need, gid_row>>
      BY <2>7 DEF DegradeScan
    <3> QED
      BY <3>5, <3>6, WeakKept DEF Staged
  <2>8. CASE Demote
    <3>1. todo # <<>> /\ todo \in Seq(Gids) /\ todo' = Tail(todo) /\ pc = "demote"
          /\ UNCHANGED <<need, gid_row, pc>>
      BY <2>8 DEF Demote, TypeOK
    <3>2. \A i \in DOMAIN Tail(todo) : \E j \in DOMAIN todo : Tail(todo)[i] = todo[j]
      BY <3>1, TailType
    <3> QED
      BY <3>1, <3>2, WeakKept DEF Staged
  <2>9. CASE UNCHANGED <<need, gid_row, todo>> /\ (pc' = "copy" => pc = "copy" /\ cur' = cur)
    BY <2>9, WeakKept DEF Staged
  <2>10. CASE Shrink \/ RefuseShrink \/ Aborted \/ ReplayForward \/ UNCHANGED vars
    BY <2>9, <2>10 DEF Shrink, RefuseShrink, Aborted, ReplayForward, vars
  <2>11. ASSUME NEW cfg \in {"target", "draft"}, EagerForward(cfg) PROVE WeakInv'
    BY <2>9, <2>11 DEF EagerForward
  <2>12. CASE HookEntry \/ ScanSkip
    BY <2>9, <2>12 DEF HookEntry, ScanSkip
  <2>13. CASE CopyTensor \/ CopyFail \/ StageDone \/ Promote
    BY <2>9, <2>13 DEF CopyTensor, CopyFail, StageDone, Promote
  <2> QED
    BY <2>1, <2>2, <2>3, <2>4, <2>5, <2>6, <2>7, <2>8, <2>10, <2>11, <2>12,
       <2>13 DEF Next, HookStep
<1>3. WeakInv => WeakNeverStaged
  BY DEF WeakInv, WeakNeverStaged
<1> QED
  BY <1>1, <1>2, <1>3, TypeCorrect, PTL DEF Spec

-----------------------------------------------------------------------------
(* Protection of rows. *)

\* The books of the slots agree whatever Phase B does to the kept rows: the pool
\* knows the owner of every slot an expert is booked on, the free list and the
\* copy in progress name rows without an owner, and protected slots have one.
PinInv ==
    /\ \A g \in Gids : gid_row[g] \in SlotRows => row_gid[gid_row[g]] = g
    /\ \A i \in DOMAIN free_rows : row_gid[free_rows[i]] = NoGid
    /\ \A i, j \in DOMAIN free_rows : free_rows[i] = free_rows[j] => i = j
    /\ pc = "copy" => /\ row_gid[dst] = NoGid
                      /\ \A i \in DOMAIN free_rows : free_rows[i] # dst
    /\ \A r \in protected \cap SlotRows : row_gid[r] # NoGid


\* A protected slot keeps its expert, Phase B on or off (ProtectedPinned):
\* _pick_row leaves protected rows out, no copy goes into an owned row, and
\* _phase_b itself only takes rows of kept experts.
THEOREM ProtectedPinnedAlways == Spec => ProtectedPinned
<1>1. Init => PinInv
  <2> SUFFICES ASSUME Init PROVE PinInv
    OBVIOUS
  <2>1. /\ free_rows = [i \in 1 .. Slots |-> KeepLen + i - 1]
        /\ \A i, j \in DOMAIN free_rows : free_rows[i] = free_rows[j] => i = j
        /\ \A i \in DOMAIN free_rows : free_rows[i] \in Rows
    <3>1. free_rows = [i \in 1 .. Slots |-> KeepLen + i - 1]
      BY DEF Init
    <3>2. \A i \in DOMAIN free_rows : free_rows[i] \in SlotRows
      BY <3>1, ConstantFacts DEF SlotRows, Phys
    <3> QED
      BY <3>1, <3>2, InitialFreeList, ConstantFacts
  <2>2. gid_row = [g \in Gids |-> NoRow] /\ row_gid = [r \in Rows |-> NoGid]
        /\ protected = {} /\ pc = "ready"
    BY DEF Init
  <2>3. NoRow \notin SlotRows
    BY ConstantFacts
  <2> QED
    BY <2>1, <2>2, <2>3 DEF PinInv
<1>2. TypeOK /\ PinInv /\ [Next]_vars => PinInv' /\ \A r \in protected \cap SlotRows : row_gid'[r] = row_gid[r]
  <2> SUFFICES ASSUME TypeOK, PinInv, [Next]_vars
               PROVE  PinInv' /\ \A r \in protected \cap SlotRows : row_gid'[r] = row_gid[r]
    OBVIOUS
  <2> USE DEF modelVars, tableVars, ownerVars, demandVars, copyVars
  <2>0. /\ gid_row \in [Gids -> Rows \cup {NoRow}]
        /\ row_gid \in [Rows -> Gids \cup {NoGid}]
        /\ free_rows \in Seq(Rows) /\ todo \in Seq(Gids)
        /\ NoRow \notin Rows /\ SlotRows \subseteq Rows
        /\ NoGid \notin Gids
    BY ConstantFacts DEF TypeOK
  <2>1. CASE StageFree
    <3>1. /\ free_rows # <<>> /\ free_rows' = Tail(free_rows)
          /\ dst' = Head(free_rows) /\ pc' = "copy"
          /\ UNCHANGED <<gid_row, row_gid, protected>>
      BY <2>1 DEF StageFree, BeginCopy
    <3>2. /\ Head(free_rows) = free_rows[1] /\ 1 \in DOMAIN free_rows
          /\ \A i \in DOMAIN Tail(free_rows) :
                /\ Tail(free_rows)[i] = free_rows[i + 1]
                /\ i + 1 \in DOMAIN free_rows /\ i + 1 # 1 /\ i \in Nat
      BY <2>0, <3>1, TailType
    <3>3. \A i, j \in DOMAIN free_rows' : free_rows'[i] = free_rows'[j] => i = j
      <4> SUFFICES ASSUME NEW i \in DOMAIN free_rows', NEW j \in DOMAIN free_rows',
                          free_rows'[i] = free_rows'[j]
                   PROVE  i = j
        OBVIOUS
      <4>1. i + 1 = j + 1 /\ i \in Nat /\ j \in Nat
        BY <3>1, <3>2 DEF PinInv
      <4> QED
        BY <4>1
    <3> QED
      BY <3>1, <3>2, <3>3 DEF PinInv
  <2>2. CASE StageEvict
    <3>1. PICK victim \in Victims : EvictRow(victim) /\ BeginCopy(Head(todo), victim)
      BY <2>2 DEF StageEvict
    <3>2. /\ free_rows = <<>> /\ UNCHANGED <<free_rows, protected>>
          /\ dst' = victim /\ pc' = "copy" /\ pc = "stage"
          /\ victim \in Rows /\ victim \notin protected
      BY <2>2, <3>1 DEF StageEvict, BeginCopy, Victims, Evictable, TakeCandidate
    <3>3. DOMAIN free_rows' = {}
      BY <3>2
    <3>4. CASE row_gid[victim] = NoGid
      <4>1. UNCHANGED <<gid_row, row_gid>>
        BY <3>1, <3>4 DEF EvictRow
      <4> QED
        BY <3>2, <3>3, <3>4, <4>1 DEF PinInv
    <3>5. CASE row_gid[victim] # NoGid
      <4> DEFINE old == row_gid[victim]
      <4>1. /\ gid_row' = [gid_row EXCEPT ![old] = NoRow]
            /\ row_gid' = [row_gid EXCEPT ![victim] = NoGid]
            /\ old \in Gids
        BY <2>0, <3>1, <3>2, <3>5 DEF EvictRow
      <4>2. ASSUME NEW g \in Gids, gid_row'[g] \in SlotRows
            PROVE  row_gid'[gid_row'[g]] = g
        <5>1. g # old /\ gid_row'[g] = gid_row[g]
          BY <2>0, <4>1, <4>2
        <5>2. row_gid[gid_row[g]] = g /\ gid_row[g] \in Rows
          BY <2>0, <4>2, <5>1 DEF PinInv
        <5> QED
          BY <2>0, <4>1, <5>1, <5>2
      <4>3. \A r \in protected \cap SlotRows : row_gid'[r] = row_gid[r]
        BY <2>0, <3>2, <4>1
      <4>4. row_gid'[victim] = NoGid
        BY <2>0, <3>2, <4>1
      <4> HIDE DEF old
      <4> QED
        BY <3>2, <3>3, <4>2, <4>3, <4>4 DEF PinInv
    <3> QED
      BY <3>4, <3>5
  <2>3. CASE CopyDone
    <3>1. /\ pc = "copy" /\ pc' = "stage" /\ UNCHANGED <<free_rows, protected>>
          /\ gid_row' = [gid_row EXCEPT ![cur] = dst]
          /\ row_gid' = [row_gid EXCEPT ![dst] = cur]
          /\ cur \in Gids /\ dst \in Rows
      BY <2>3 DEF CopyDone, TypeOK
    <3>2. /\ row_gid[dst] = NoGid
          /\ \A i \in DOMAIN free_rows : free_rows[i] # dst
          /\ dst \notin protected \cap SlotRows
      BY <3>1 DEF PinInv
    <3>3. \A r \in protected \cap SlotRows : row_gid'[r] = row_gid[r]
      BY <2>0, <3>1, <3>2
    <3>4. ASSUME NEW g \in Gids, gid_row'[g] \in SlotRows
          PROVE  row_gid'[gid_row'[g]] = g
      <4>1. CASE g = cur
        BY <2>0, <3>1, <4>1
      <4>2. CASE g # cur
        <5>1. gid_row'[g] = gid_row[g] /\ row_gid[gid_row[g]] = g /\ gid_row[g] \in Rows
          BY <2>0, <3>1, <3>4, <4>2 DEF PinInv
        <5>2. gid_row[g] # dst
          BY <2>0, <3>2, <5>1
        <5> QED
          BY <2>0, <3>1, <5>1, <5>2
      <4> QED
        BY <4>1, <4>2
    <3>5. \A i \in DOMAIN free_rows' : row_gid'[free_rows'[i]] = NoGid
      BY <2>0, <3>1, <3>2 DEF PinInv
    <3>6. \A r \in protected' \cap SlotRows : row_gid'[r] # NoGid
      BY <3>1, <3>3 DEF PinInv
    <3> QED
      BY <3>1, <3>3, <3>4, <3>5, <3>6 DEF PinInv
  <2>4. CASE CopyFail
    <3>1. /\ pc = "copy" /\ pc' = "stage" /\ ReturnRow(dst)
          /\ UNCHANGED <<gid_row, row_gid, protected>>
          /\ dst \in Rows
      BY <2>4 DEF CopyFail, TypeOK
    <3>2. /\ row_gid[dst] = NoGid
          /\ \A i \in DOMAIN free_rows : free_rows[i] # dst
      BY <3>1 DEF PinInv
    <3>3. CASE free_rows' = free_rows
      BY <3>1, <3>3 DEF PinInv
    <3>4. CASE free_rows' = Append(free_rows, dst)
      <4>1. /\ DOMAIN free_rows = 1 .. Len(free_rows) /\ Len(free_rows) \in Nat
            /\ DOMAIN free_rows' = 1 .. Len(free_rows) + 1
            /\ \A i \in 1 .. Len(free_rows) : free_rows'[i] = free_rows[i]
            /\ free_rows'[Len(free_rows) + 1] = dst
        BY <2>0, <3>1, <3>4
      <4>2. \A i \in DOMAIN free_rows' : row_gid'[free_rows'[i]] = NoGid
        BY <3>1, <3>2, <4>1 DEF PinInv
      <4>3. \A i, j \in DOMAIN free_rows' : free_rows'[i] = free_rows'[j] => i = j
        BY <3>2, <4>1 DEF PinInv
      <4> QED
        BY <3>1, <4>2, <4>3 DEF PinInv
    <3> QED
      BY <3>1, <3>3, <3>4 DEF ReturnRow
  <2>5. CASE Demote
    <3>1. /\ pc = "demote" /\ UNCHANGED <<pc, gid_row, free_rows, protected>>
          /\ todo # <<>>
      BY <2>5 DEF Demote
    <3>2. CASE UNCHANGED row_gid
      BY <3>1, <3>2 DEF PinInv
    <3>3. CASE ~ UNCHANGED row_gid
      <4> DEFINE row == remap[Head(todo)]
      <4>1. /\ ~(row >= KeepLen)
            /\ row_gid' = [row_gid EXCEPT ![row] = NoGid]
            /\ row \in Rows
        BY <2>0, <2>5, <3>1, <3>3, TailType DEF Demote, TypeOK
      <4>2. row \notin SlotRows
        BY <4>1, ConstantFacts DEF SlotRows
      <4> HIDE DEF row
      <4>3. \A r \in Rows : r # row => row_gid'[r] = row_gid[r]
        BY <2>0, <4>1
      <4>4. row_gid'[row] = NoGid
        BY <2>0, <4>1
      <4>5. \A r \in Rows : row_gid[r] = NoGid => row_gid'[r] = NoGid
        BY <4>3, <4>4
      <4>6. \A r \in SlotRows : row_gid'[r] = row_gid[r]
        BY <2>0, <4>2, <4>3
      <4>7. \A i \in DOMAIN free_rows : free_rows[i] \in Rows
        BY <2>0
      <4> QED
        BY <2>0, <3>1, <4>5, <4>6, <4>7 DEF PinInv
    <3> QED
      BY <3>2, <3>3
  <2>6. CASE Promote
    <3>1. /\ UNCHANGED <<gid_row, row_gid, free_rows>> /\ pc' = "ready"
          /\ protected' = protected \cup
                {gid_row[g] : g \in {h \in Gids : Staged(h) /\ need[h] >= 2 * Unit}}
      BY <2>6 DEF Promote
    <3>2. \A r \in protected' \cap SlotRows : row_gid'[r] # NoGid
      BY <2>0, <3>1 DEF PinInv
    <3> QED
      BY <3>1, <3>2 DEF PinInv
  <2>7. CASE UNCHANGED <<gid_row, row_gid, free_rows, protected>>
             /\ (pc' = "copy" => pc = "copy" /\ dst' = dst)
    BY <2>7 DEF PinInv
  <2>8. CASE Shrink \/ RefuseShrink \/ Aborted \/ ReplayForward \/ UNCHANGED vars
    BY <2>7, <2>8 DEF Shrink, RefuseShrink, Aborted, ReplayForward, vars
  <2>9. CASE \E cfg \in {"target", "draft"} : EagerForward(cfg)
    BY <2>7, <2>9 DEF EagerForward
  <2>10. CASE HookEntry \/ ScanSkip \/ ScanTally
    BY <2>7, <2>10 DEF HookEntry, ScanSkip, ScanTally
  <2>11. CASE StageSkip \/ StageNoRow
    BY <2>7, <2>11 DEF StageSkip, StageNoRow, TakeCandidate
  <2>12. CASE CopyTensor \/ StageDone \/ DegradeScan
    BY <2>7, <2>12 DEF CopyTensor, StageDone, DegradeScan
  <2> QED
    BY <2>1, <2>2, <2>3, <2>4, <2>5, <2>6, <2>8, <2>9, <2>10, <2>11, <2>12
    DEF Next, HookStep
<1>3. TypeOK /\ PinInv /\ [Next]_vars
        => [\A r \in protected \cap SlotRows : row_gid'[r] = row_gid[r]]_vars
  BY <1>2
<1> QED
  BY <1>1, <1>2, <1>3, TypeCorrect, PTL DEF Spec, ProtectedPinned
=============================================================================
