--------------------------- MODULE PleTableProofs ---------------------------
(***************************************************************************)
(* Proofs about PleTable: for a rank that holds the whole vocabulary, any  *)
(* number of rows, shards and checkpoints, complete or not, the sidecar    *)
(* never vouches for rows it should not, through kills and power losses.   *)
(***************************************************************************)
EXTENDS PleTable, FiniteSetTheorems, TLAPS

-----------------------------------------------------------------------------
(* Types. *)

\* The constants, in the form the other proofs use.
LEMMA TableFacts ==
    /\ Vocab \in Nat /\ Vocab > 0 /\ NumShards \in Nat /\ NumShards > 0
    /\ WinStart \in Nat /\ WinEnd \in Nat /\ Window \subseteq 0 .. (Vocab - 1)
    /\ Checkpoints \subseteq Nat /\ None \notin Checkpoints
    /\ Holds \in [Checkpoints -> SUBSET Shards]
  BY TableAssumption DEF Window, None, Shards

LEMMA ShardSizePositive == ShardSize \in Nat /\ ShardSize > 0
  BY TableFacts DEF ShardSize

LEMMA ShardRowsFinite ==
    ASSUME NEW s
    PROVE  /\ IsFiniteSet(ShardRows(s)) /\ Cardinality(ShardRows(s)) \in Nat
           /\ ShardRows(s) \subseteq 0 .. (Vocab - 1)
<1>1. IsFiniteSet(0 .. (Vocab - 1))
  BY FS_Interval, TableFacts
<1>2. ShardRows(s) \subseteq 0 .. (Vocab - 1)
  BY DEF ShardRows
<1> QED
  BY <1>1, <1>2, FS_Subset, FS_CardinalityType

\* Every variable keeps its type, whatever the switches are.
THEOREM TableTypeCorrect == Spec => []TypeOK
<1>1. Init => TypeOK
  <2> SUFFICES ASSUME Init PROVE TypeOK
    OBVIOUS
  <2>1. rows \in [Window -> Content]
    BY DEF Init, Content
  <2>2. loaded \in SUBSET Shards /\ written \in Nat /\ pending \in Checkpoints \cup {None}
    BY DEF Init
  <2>3. disk \in [file : {"absent", "short", "full"}, rows : [Window -> Content],
                  sidecar : Checkpoints \cup {None}]
    BY <2>1 DEF Init
  <2> QED
    BY <2>1, <2>2, <2>3 DEF Init, TypeOK
<1>2. TypeOK /\ [Next]_vars => TypeOK'
  <2> SUFFICES ASSUME TypeOK, [Next]_vars PROVE TypeOK'
    OBVIOUS
  <2> USE DEF TypeOK, Content, Zero, None, bootVars
  <2>1. CASE Boot
    BY <2>1 DEF Boot
  <2>2. CASE TruncateTable
    BY <2>2 DEF TruncateTable
  <2>3. CASE CheckSidecar
    BY <2>3 DEF CheckSidecar, SidecarValid
  <2>4. CASE CheckFails
    BY <2>4 DEF CheckFails
  <2>5. ASSUME NEW s \in Shards, LoadShard(s) PROVE TypeOK'
    <3>1. CASE skip
      BY <2>5, <3>1 DEF LoadShard
    <3>2. CASE ~skip
      <4>1. written' \in Nat
        BY <2>5, <3>2, ShardRowsFinite DEF LoadShard
      <4>2. rows' \in [Window -> Content]
        BY <2>5, <3>2 DEF LoadShard
      <4> QED
        BY <2>5, <4>1, <4>2 DEF LoadShard
    <3> QED
      BY <3>1, <3>2
  <2>6. CASE LoadDone
    BY <2>6 DEF LoadDone
  <2>7. CASE Msync
    BY <2>7 DEF Msync
  <2>8. CASE ReplaceSidecar
    BY <2>8 DEF ReplaceSidecar
  <2>9. CASE SyncDir
    BY <2>9 DEF SyncDir
  <2>10. CASE SealFails
    BY <2>10 DEF SealFails
  <2>11. CASE Stop
    BY <2>11 DEF Stop
  <2>12. CASE PowerLoss
    <3>1. PICK f \in {file, disk.file}, s \in {sidecar, disk.sidecar}, back \in SUBSET Window :
             LET survived == [r \in Window |-> IF f = "absent" THEN Zero
                                               ELSE IF r \in back THEN rows[r]
                                               ELSE disk.rows[r]]
             IN  /\ file' = f /\ rows' = survived /\ sidecar' = s
                 /\ disk' = [file |-> f, rows |-> survived, sidecar |-> s]
                 /\ pc' = "down"
                 /\ skip' = FALSE /\ pending' = None /\ loaded' = {} /\ written' = 0
                 /\ UNCHANGED ckpt
      BY <2>12 DEF PowerLoss
    <3>2. rows' \in [Window -> Content]
      BY <3>1
    <3> QED
      BY <3>1, <3>2
  <2>13. CASE SwitchCheckpoint
    BY <2>13 DEF SwitchCheckpoint
  <2>14. CASE RemoveTable
    BY <2>14 DEF RemoveTable
  <2>15. CASE UNCHANGED vars
    BY <2>15 DEF vars
  <2> QED
    BY <2>1, <2>2, <2>3, <2>4, <2>5, <2>6, <2>7, <2>8, <2>9, <2>10, <2>11,
       <2>12, <2>13, <2>14, <2>15 DEF Next, BootStep
<1> QED
  BY <1>1, <1>2, PTL DEF Spec

-----------------------------------------------------------------------------
(* Shards. *)

LEMMA TimesMonotone ==
    ASSUME NEW a \in Nat, NEW b \in Nat, NEW c \in Nat, a <= b
    PROVE  a * c <= b * c
<1>1. PICK d \in Nat : b = a + d
  BY b - a \in Nat
<1>2. b * c = a * c + d * c
  BY <1>1
<1> QED
  BY <1>2, d * c \in Nat, a * c \in Nat

\* No row is in two shards.
LEMMA ShardsDisjoint ==
    ASSUME NEW s \in Nat, NEW t \in Nat, s # t
    PROVE  ShardRows(s) \cap ShardRows(t) = {}
<1>1. ASSUME NEW a \in Nat, NEW b \in Nat, a < b, NEW r \in ShardRows(a), r \in ShardRows(b)
      PROVE  FALSE
  <2>1. (a + 1) * ShardSize <= b * ShardSize
    BY <1>1, TimesMonotone, ShardSizePositive
  <2>2. r \in Int /\ r < (a + 1) * ShardSize /\ b * ShardSize <= r
    BY <1>1 DEF ShardRows
  <2> QED
    BY <2>1, <2>2, ShardSizePositive, (a + 1) * ShardSize \in Int, b * ShardSize \in Int
<1>2. s < t \/ t < s
  OBVIOUS
<1> QED
  BY <1>1, <1>2

\* ShardSize is rounded up: the shards reach the last row.
LEMMA ShardsReachEnd == NumShards * ShardSize >= Vocab
<1> DEFINE n == Vocab + NumShards - 1
<1>1. n \in Nat /\ n % NumShards \in 0 .. (NumShards - 1)
      /\ n = NumShards * (n \div NumShards) + (n % NumShards)
  BY TableFacts
<1>2. NumShards * ShardSize = n - (n % NumShards)
  BY <1>1, ShardSizePositive, TableFacts DEF ShardSize
<1> QED
  BY <1>1, <1>2, TableFacts

\* Every row is in a shard.
LEMMA ShardsCover ==
    ASSUME NEW r \in 0 .. (Vocab - 1)
    PROVE  \E s \in Shards : r \in ShardRows(s)
<1> DEFINE q == r \div ShardSize
<1>1. r \in Nat /\ q \in Nat /\ r % ShardSize \in 0 .. (ShardSize - 1)
      /\ r = ShardSize * q + (r % ShardSize)
  BY TableFacts, ShardSizePositive
<1>2. q * ShardSize <= r /\ r < (q + 1) * ShardSize
  BY <1>1, ShardSizePositive
<1>3. q < NumShards
  <2> SUFFICES ASSUME NumShards <= q PROVE FALSE
    BY <1>1, TableFacts
  <2>1. NumShards * ShardSize <= q * ShardSize
    BY <1>1, TimesMonotone, TableFacts, ShardSizePositive
  <2> HIDE DEF q
  <2>2. NumShards * ShardSize \in Int /\ q * ShardSize \in Int
    BY <1>1, TableFacts, ShardSizePositive
  <2> QED
    BY <1>2, <2>1, <2>2, ShardsReachEnd, TableFacts
<1> QED
  BY <1>1, <1>2, <1>3, TableFacts DEF Shards, ShardRows

-----------------------------------------------------------------------------
(* The seal. *)

\* Checkpoints only move on, nobody touches the table file, and the rank
\* holds every row.
Undisturbed == ~Restore /\ ~Remove /\ WinStart = 0 /\ WinEnd = Vocab

\* The counter reaches the window only when every row landed.
LEMMA FullCount ==
    ASSUME WinStart = 0, WinEnd = Vocab, loaded \in SUBSET Shards,
           Cardinality(Landed) >= Expected
    PROVE  Landed = Window
<1>1. Window = 0 .. (Vocab - 1) /\ IsFiniteSet(Window)
  BY FS_Interval, TableFacts DEF Window
<1>2. Landed \subseteq Window
  BY <1>1, ShardRowsFinite DEF Landed
<1>3. Cardinality(Landed) <= Cardinality(Window) /\ IsFiniteSet(Landed)
      /\ Cardinality(Landed) \in Nat /\ Cardinality(Window) \in Nat
  BY <1>1, <1>2, FS_Subset, FS_CardinalityType
<1>4. Cardinality(Landed) = Cardinality(Window)
  BY <1>3 DEF Expected
<1> QED
  BY <1>1, <1>2, <1>4, FS_Subset

\* A delivered shard adds its rows to the count.
LEMMA CountStep ==
    ASSUME loaded \in SUBSET Shards, NEW s \in Shards \ loaded, loaded' = loaded \cup {s}
    PROVE  /\ Landed' = Landed \cup ShardRows(s)
           /\ Cardinality(Landed') = Cardinality(Landed) + Cardinality(ShardRows(s))
<1>1. Landed' = Landed \cup ShardRows(s)
  BY DEF Landed
<1>2. Landed \cap ShardRows(s) = {}
  <2> SUFFICES ASSUME NEW t \in loaded PROVE ShardRows(t) \cap ShardRows(s) = {}
    BY DEF Landed
  <2>1. t \in Nat /\ s \in Nat /\ t # s
    BY DEF Shards
  <2> QED
    BY <2>1, ShardsDisjoint
<1>3. IsFiniteSet(Landed) /\ IsFiniteSet(ShardRows(s))
  <2>1. Landed \subseteq 0 .. (Vocab - 1) /\ IsFiniteSet(0 .. (Vocab - 1))
    BY ShardRowsFinite, FS_Interval, TableFacts DEF Landed
  <2> QED
    BY <2>1, FS_Subset, ShardRowsFinite
<1>4. Cardinality(Landed \cup ShardRows(s))
        = Cardinality(Landed) + Cardinality(ShardRows(s))
            - Cardinality(Landed \cap ShardRows(s))
  BY <1>3, FS_Union
<1>5. Cardinality(Landed \cap ShardRows(s)) = 0
  BY <1>2, FS_EmptySet
<1> QED
  BY <1>1, <1>3, <1>4, <1>5, FS_CardinalityType

LEMMA EmptyCount == ASSUME loaded = {} PROVE Landed = {} /\ Cardinality(Landed) = 0
  BY FS_EmptySet DEF Landed

\* SealInv is inductive.
THEOREM SealSafe ==
    ASSUME Undisturbed
    PROVE  Spec => []SealInv
<1>1. Init => SealInv
  <2> SUFFICES ASSUME Init PROVE SealInv
    OBVIOUS
  <2>1. ckpt \in Nat /\ ckpt # None /\ sidecar = 0 /\ disk.sidecar = 0
    BY TableFacts DEF Init, None
  <2> QED
    BY <2>1 DEF Init, SealInv, Sealed, None
<1>2. TypeOK /\ SealInv /\ [Next]_vars => SealInv'
  <2> SUFFICES ASSUME TypeOK, SealInv, [Next]_vars PROVE SealInv'
    OBVIOUS
  <2> USE DEF bootVars, Fresh, Sealed
  <2>0. ckpt \in Nat /\ ckpt # None /\ Window = 0 .. (Vocab - 1)
        /\ sidecar \in Nat /\ disk.sidecar \in Nat
    BY TableFacts DEF TypeOK, None, Undisturbed, Window
  <2>1. CASE Boot
    BY <2>0, <2>1 DEF Boot, SealInv, TypeOK
  <2>2. CASE TruncateTable
    BY <2>0, <2>2 DEF TruncateTable, SealInv, TypeOK
  <2>3. CASE CheckSidecar
    <3>1. loaded = {} /\ written = 0 /\ Landed' = {} /\ Cardinality(Landed') = 0
      BY <2>3, FS_EmptySet DEF CheckSidecar, SealInv, Landed
    <3> QED
      BY <2>0, <2>3, <3>1 DEF CheckSidecar, SidecarValid, SealInv, TypeOK
  <2>4. CASE CheckFails
    <3>1. loaded = {} /\ written = 0 /\ Landed' = {} /\ Cardinality(Landed') = 0
      BY <2>4, FS_EmptySet DEF CheckFails, SealInv, Landed
    <3> QED
      BY <2>0, <2>4, <3>1 DEF CheckFails, SealInv, TypeOK
  <2>5. ASSUME NEW s \in Shards, LoadShard(s) PROVE SealInv'
    <3>1. /\ pc = "load" /\ pc' = pc /\ s \notin loaded /\ loaded' = loaded \cup {s}
          /\ UNCHANGED <<ckpt, file, sidecar, disk, skip, pending>>
      BY <2>5 DEF LoadShard
    <3>2. /\ Landed' = Landed \cup ShardRows(s)
          /\ Cardinality(Landed') = Cardinality(Landed) + Cardinality(ShardRows(s))
      BY <3>1, CountStep DEF TypeOK
    <3>3. CASE skip
      BY <2>0, <2>5, <3>1, <3>3 DEF LoadShard, SealInv
    <3>4. CASE ~skip
      <4>1. /\ rows' = [r \in Window |-> IF r \in ShardRows(s) THEN ckpt ELSE rows[r]]
            /\ written' = written + Cardinality(ShardRows(s))
        BY <2>5, <3>4 DEF LoadShard
      <4>2. Fresh(rows) => Fresh(rows')
        BY <4>1
      <4>3. \A r \in Landed' \cap Window : rows'[r] = ckpt
        BY <3>1, <3>2, <3>4, <4>1 DEF SealInv
      <4>4. written' = Cardinality(Landed')
        BY <3>1, <3>2, <3>4, <4>1 DEF SealInv
      <4> QED
        BY <2>0, <3>1, <3>4, <4>2, <4>3, <4>4 DEF SealInv
    <3> QED
      BY <3>3, <3>4
  <2>6. CASE LoadDone
    <3>1. /\ pc = "load" /\ loaded = Holds[ckpt]
          /\ UNCHANGED <<ckpt, file, rows, sidecar, disk, skip, pending, loaded, written>>
          /\ Landed' = Landed
      BY <2>6 DEF LoadDone, Landed
    <3>2. CASE MayServeUnsealed
      BY <2>0, <2>6, <3>1, <3>2 DEF LoadDone, SealInv
    <3>3. CASE ~MayServeUnsealed
      <4>1. pending # None /\ ~skip /\ Landed = Window
        <5>1. pending # None /\ ~skip /\ written = Cardinality(Landed)
          BY <3>1, <3>3 DEF MayServeUnsealed, SealInv
        <5>2. Expected \in Nat
          BY <2>0, FS_Interval, FS_CardinalityType, TableFacts DEF Expected
        <5> QED
          BY <3>3, <5>1, <5>2, FullCount DEF MayServeUnsealed, TypeOK, Undisturbed
      <4>2. Fresh(rows)
        BY <3>1, <4>1 DEF SealInv, TypeOK
      <4>3. pc' = "msync"
        BY <2>6, <3>3 DEF LoadDone
      <4> QED
        BY <2>0, <3>1, <4>1, <4>2, <4>3 DEF SealInv
    <3> QED
      BY <3>2, <3>3
  <2>7. CASE Msync
    BY <2>0, <2>7 DEF Msync, SealInv, TypeOK
  <2>8. CASE ReplaceSidecar
    BY <2>0, <2>8 DEF ReplaceSidecar, SealInv, TypeOK
  <2>9. CASE SyncDir
    BY <2>0, <2>9 DEF SyncDir, SealInv, TypeOK
  <2>10. CASE SealFails
    BY <2>0, <2>10 DEF SealFails, SealInv, TypeOK, Landed
  <2>11. CASE Stop
    BY <2>0, <2>11 DEF Stop, SealInv, TypeOK
  <2>12. CASE PowerLoss
    <3>1. PICK f \in {file, disk.file}, s \in {sidecar, disk.sidecar}, back \in SUBSET Window :
             LET survived == [r \in Window |-> IF f = "absent" THEN Zero
                                               ELSE IF r \in back THEN rows[r]
                                               ELSE disk.rows[r]]
             IN  /\ file' = f /\ rows' = survived /\ sidecar' = s
                 /\ disk' = [file |-> f, rows |-> survived, sidecar |-> s]
                 /\ pc' = "down"
                 /\ skip' = FALSE /\ pending' = None /\ loaded' = {} /\ written' = 0
                 /\ UNCHANGED ckpt
      BY <2>12 DEF PowerLoss
    <3>2. Sealed' => Sealed
      BY <3>1
    <3>3. Sealed => Fresh(rows)' /\ file' = "full"
      BY <3>1 DEF SealInv
    <3> QED
      BY <2>0, <3>1, <3>2, <3>3 DEF SealInv
  <2>13. CASE SwitchCheckpoint
    <3>1. ckpt' \in Nat /\ ckpt' > ckpt
      BY <2>13, TableFacts DEF SwitchCheckpoint, Undisturbed
    <3> QED
      BY <2>0, <2>13, <3>1 DEF SwitchCheckpoint, SealInv
  <2>14. CASE RemoveTable
    BY <2>14 DEF RemoveTable, Undisturbed
  <2>15. CASE UNCHANGED vars
    BY <2>15 DEF vars, SealInv, Landed
  <2> QED
    BY <2>1, <2>2, <2>3, <2>4, <2>5, <2>6, <2>7, <2>8, <2>9, <2>10, <2>11,
       <2>12, <2>13, <2>14, <2>15 DEF Next, BootStep
<1> QED
  BY <1>1, <1>2, TableTypeCorrect, PTL DEF Spec

\* The sidecar never validates a table of other rows, now or after a power
\* loss.
THEOREM SidecarTruthfulAlways ==
    ASSUME Undisturbed
    PROVE  Spec => []SidecarTruthful
<1>1. SealInv => SidecarTruthful
  BY DEF SealInv, Sealed, SidecarTruthful
<1> QED
  BY <1>1, SealSafe, PTL

\* With a complete checkpoint the server answers from that checkpoint's rows.
THEOREM ServedTableFreshAlways ==
    ASSUME Undisturbed
    PROVE  Spec => []ServedTableFresh
<1>1. TypeOK /\ SealInv => ServedTableFresh
  <2> SUFFICES ASSUME TypeOK, SealInv, pc = "serving", Holds[ckpt] = Shards
               PROVE  Fresh(rows)
    BY DEF ServedTableFresh
  <2>1. CASE skip \/ Fresh(rows)
    BY <2>1 DEF SealInv
  <2>2. CASE ~skip /\ loaded = Shards
    <3>1. \A r \in Window : r \in Landed
      BY <2>2, ShardsCover, TableFacts DEF Landed
    <3> QED
      BY <2>2, <3>1 DEF SealInv, Fresh, TypeOK
  <2> QED
    BY <2>1, <2>2 DEF SealInv
<1> QED
  BY <1>1, TableTypeCorrect, SealSafe, PTL

-----------------------------------------------------------------------------
(* A boot that rewrites. *)

\* What a boot that does not skip the load keeps, whatever checkpoints came and
\* went before it and whatever was done to the files.
RewriteInv ==
    /\ pc \in {"down", "create", "check"} => ~skip /\ pending = None
    /\ pc \in {"check", "create"} => loaded = {} /\ written = 0
    /\ pending # None => ~skip
    /\ pc \notin {"down", "create", "check"} /\ ~skip =>
          \A r \in Landed \cap Window : rows[r] = ckpt
    /\ pc = "load" /\ ~skip => written = Cardinality(Landed)
    /\ pc \in {"msync", "replace", "syncdir"} => ~skip
    /\ pc \in {"msync", "replace", "syncdir", "serving"} => loaded = Holds[ckpt]

LEMMA RewriteSafe == Spec => []RewriteInv
<1>1. Init => RewriteInv
  BY DEF Init, RewriteInv, None
<1>2. TypeOK /\ RewriteInv /\ [Next]_vars => RewriteInv'
  <2> SUFFICES ASSUME TypeOK, RewriteInv, [Next]_vars PROVE RewriteInv'
    OBVIOUS
  <2> USE DEF bootVars
  <2>0. ckpt # None
    BY TableFacts DEF TypeOK
  <2>1. CASE Boot
    BY <2>0, <2>1 DEF Boot, RewriteInv, TypeOK
  <2>2. CASE TruncateTable
    BY <2>0, <2>2 DEF TruncateTable, RewriteInv, TypeOK
  <2>3. CASE CheckSidecar
    <3>1. loaded = {} /\ written = 0 /\ Landed' = {} /\ Cardinality(Landed') = 0
      BY <2>3, FS_EmptySet DEF CheckSidecar, RewriteInv, Landed
    <3> QED
      BY <2>0, <2>3, <3>1 DEF CheckSidecar, RewriteInv, TypeOK
  <2>4. CASE CheckFails
    <3>1. loaded = {} /\ written = 0 /\ Landed' = {} /\ Cardinality(Landed') = 0
      BY <2>4, FS_EmptySet DEF CheckFails, RewriteInv, Landed
    <3> QED
      BY <2>0, <2>4, <3>1 DEF CheckFails, RewriteInv, TypeOK
  <2>5. ASSUME NEW s \in Shards, LoadShard(s) PROVE RewriteInv'
    <3>1. /\ pc = "load" /\ pc' = pc /\ s \notin loaded /\ loaded' = loaded \cup {s}
          /\ UNCHANGED <<ckpt, file, sidecar, disk, skip, pending>>
      BY <2>5 DEF LoadShard
    <3>2. /\ Landed' = Landed \cup ShardRows(s)
          /\ Cardinality(Landed') = Cardinality(Landed) + Cardinality(ShardRows(s))
      BY <3>1, CountStep DEF TypeOK
    <3>3. CASE skip
      BY <3>1, <3>3 DEF RewriteInv
    <3>4. CASE ~skip
      <4>1. /\ rows' = [r \in Window |-> IF r \in ShardRows(s) THEN ckpt ELSE rows[r]]
            /\ written' = written + Cardinality(ShardRows(s))
        BY <2>5, <3>4 DEF LoadShard
      <4>2. \A r \in Landed' \cap Window : rows'[r] = ckpt
        BY <3>1, <3>2, <3>4, <4>1 DEF RewriteInv
      <4>3. written' = Cardinality(Landed')
        BY <3>1, <3>2, <3>4, <4>1 DEF RewriteInv
      <4> QED
        BY <3>1, <3>4, <4>2, <4>3 DEF RewriteInv
    <3> QED
      BY <3>3, <3>4
  <2>6. CASE LoadDone
    <3>1. Landed' = Landed
      BY <2>6 DEF LoadDone, Landed
    <3>2. pc' = "msync" => ~skip
      BY <2>6 DEF LoadDone, MayServeUnsealed, RewriteInv
    <3> QED
      BY <2>6, <3>1, <3>2 DEF LoadDone, RewriteInv
  <2>7. CASE Msync
    BY <2>7 DEF Msync, RewriteInv, Landed
  <2>8. CASE ReplaceSidecar
    BY <2>8 DEF ReplaceSidecar, RewriteInv, Landed
  <2>9. CASE SyncDir
    BY <2>9 DEF SyncDir, RewriteInv, Landed
  <2>10. CASE SealFails
    BY <2>10 DEF SealFails, RewriteInv, Landed
  <2>11. CASE Stop
    BY <2>11 DEF Stop, RewriteInv
  <2>12. CASE PowerLoss
    BY <2>12 DEF PowerLoss, RewriteInv
  <2>13. CASE SwitchCheckpoint
    BY <2>13 DEF SwitchCheckpoint, RewriteInv
  <2>14. CASE RemoveTable
    BY <2>14 DEF RemoveTable, RewriteInv
  <2>15. CASE UNCHANGED vars
    BY <2>15 DEF vars, RewriteInv, Landed
  <2> QED
    BY <2>1, <2>2, <2>3, <2>4, <2>5, <2>6, <2>7, <2>8, <2>9, <2>10, <2>11,
       <2>12, <2>13, <2>14, <2>15 DEF Next, BootStep
<1> QED
  BY <1>1, <1>2, TableTypeCorrect, PTL DEF Spec

\* When every shard landed, every row of the window is of this checkpoint.
LEMMA AllLanded ==
    ASSUME TypeOK, RewriteInv, ~skip, pc \notin {"down", "create", "check"}, loaded = Shards
    PROVE  Fresh(rows)
<1>1. \A r \in Window : r \in Landed
  BY ShardsCover, TableFacts DEF Landed
<1> QED
  BY <1>1 DEF RewriteInv, Fresh, TypeOK

\* A complete rewrite serves rows of this checkpoint only, on any rank, also when
\* checkpoints come back and table files are deleted or cut short between boots
\* (load_qwen4_exp_ple_shard).
THEOREM RewriteHealsAlways == Spec => []RewriteHeals
<1>1. TypeOK /\ RewriteInv => RewriteHeals
  BY AllLanded DEF RewriteInv, RewriteHeals
<1> QED
  BY <1>1, TableTypeCorrect, RewriteSafe, PTL

\* A count of whole shards tells a complete table when the rank holds every row,
\* or when no checkpoint lacks a shard.
Countable == (WinStart = 0 /\ WinEnd = Vocab) \/ \A c \in Checkpoints : Holds[c] = Shards

\* The sealing loop puts a sidecar in place only over rows that are of this
\* checkpoint and already on disk (ple_msync before ple_sidecar_write).
THEOREM DataBeforeSealAlways ==
    ASSUME Countable
    PROVE  Spec => DataBeforeSeal
<1> DEFINE Durable == /\ pc \in {"msync", "replace", "syncdir"} => Fresh(rows)
                      /\ pc = "replace" => Fresh(disk.rows)
<1>1. Init => Durable
  BY DEF Init
<1>2. TypeOK /\ RewriteInv /\ Durable /\ [Next]_vars => Durable'
  <2> SUFFICES ASSUME TypeOK, RewriteInv, Durable, [Next]_vars PROVE Durable'
    OBVIOUS
  <2> USE DEF bootVars, Fresh
  <2>1. CASE LoadDone
    <3>1. ASSUME ~MayServeUnsealed
          PROVE  Fresh(rows)
      <4>1. ~skip /\ pc = "load" /\ loaded = Holds[ckpt] /\ Cardinality(Landed) >= Expected
        <5>1. ~skip /\ pc = "load" /\ loaded = Holds[ckpt] /\ written = Cardinality(Landed)
          BY <2>1, <3>1 DEF LoadDone, MayServeUnsealed, RewriteInv
        <5>2. Expected \in Nat
          BY FS_Interval, FS_CardinalityType, TableFacts, SMTT(60) DEF Expected, Window
        <5> QED
          BY <3>1, <5>1, <5>2, <2>1 DEF MayServeUnsealed, TypeOK, LoadDone
      <4>2. CASE Holds[ckpt] = Shards
        BY <4>1, <4>2, AllLanded
      <4>3. CASE WinStart = 0 /\ WinEnd = Vocab
        <5>1. Landed = Window
          BY <4>1, <4>3, FullCount DEF TypeOK
        <5> QED
          BY <4>1, <5>1 DEF RewriteInv, TypeOK
      <4> QED
        BY <4>2, <4>3 DEF Countable, TypeOK
    <3> QED
      BY <2>1, <3>1 DEF LoadDone
  <2>2. CASE Msync
    BY <2>2 DEF Msync, TypeOK
  <2>3. CASE ReplaceSidecar \/ SyncDir \/ SealFails
    BY <2>3 DEF ReplaceSidecar, SyncDir, SealFails
  <2>4. CASE Boot \/ TruncateTable \/ CheckSidecar \/ CheckFails
    BY <2>4 DEF Boot, TruncateTable, CheckSidecar, CheckFails
  <2>5. ASSUME NEW s \in Shards, LoadShard(s) PROVE Durable'
    BY <2>5 DEF LoadShard
  <2>6. CASE Stop \/ PowerLoss \/ SwitchCheckpoint \/ RemoveTable
    BY <2>6 DEF Stop, PowerLoss, SwitchCheckpoint, RemoveTable
  <2>7. CASE UNCHANGED vars
    BY <2>7 DEF vars
  <2> QED
    BY <2>1, <2>2, <2>3, <2>4, <2>5, <2>6, <2>7 DEF Next, BootStep
<1>3. Durable => [pc = "replace" /\ pc' = "syncdir" => Fresh(disk.rows)]_vars
  OBVIOUS
<1> HIDE DEF Durable
<1> QED
  BY <1>1, <1>2, <1>3, TableTypeCorrect, RewriteSafe, PTL DEF Spec, DataBeforeSeal
=============================================================================
