------------------------------ MODULE PleTable ------------------------------
(***************************************************************************)
(* The file-backed PLE n-gram table of one tensor-parallel rank and the    *)
(* sidecar that lets a boot skip rewriting it:                             *)
(* runtime-src/qwen4_exp_ple_table.py (allocate_ple_host_table,            *)
(* ple_sidecar_is_valid, ple_msync, ple_sidecar_write) and                 *)
(* runtime-src/qwen4_exp.py (Qwen4ExpPinnedHostEmbedding.__init__, the     *)
(* shard loader and the sealing loop of load_weights).                     *)
(*                                                                         *)
(* Files have two copies: what a running system sees (the page cache) and  *)
(* what is certain to survive a power loss.                                *)
(***************************************************************************)
EXTENDS Integers, FiniteSets

CONSTANTS
    Vocab,          \* org_vocab_size
    WinStart, WinEnd,   \* vocabulary rows of this rank, end exclusive
    NumShards,      \* split_ngram_parts
    Checkpoints,    \* identities a checkpoint directory can have, ordered
    Holds,          \* Holds[c]: shards the files of checkpoint c contain
    Restore,        \* may an earlier checkpoint come back, same stat identity?
    Remove          \* may the table file be deleted or cut short?

ASSUME TableAssumption ==
    /\ {Vocab, NumShards} \subseteq Nat \ {0}
    /\ {WinStart, WinEnd} \subseteq 0 .. Vocab
    /\ WinStart <= WinEnd
    /\ Checkpoints \subseteq Nat \ {0}
    /\ Holds \in [Checkpoints -> SUBSET (0 .. (NumShards - 1))]
    /\ {Restore, Remove} \subseteq BOOLEAN

Shards == 0 .. (NumShards - 1)
Window == WinStart .. (WinEnd - 1)
Zero == 0           \* content of a row of a fresh sparse file
None == 0           \* no sidecar, no pending seal

VARIABLES
    ckpt,       \* checkpoint at model_path
    file,       \* the table file: "absent", "short" (wrong size) or "full"
    rows,       \* rows[r]: whose bytes row r of the mapping holds
    sidecar,    \* checkpoint the sidecar was sealed for, or None
    disk,       \* durable copies: [file, rows, sidecar]
    pc,         \* stage of the boot, "down" between boots
    skip,       \* _ple_skip_load
    pending,    \* fingerprints held for sealing (_ple_sidecar), or None
    loaded,     \* shards the weight iterator has delivered in this boot
    written     \* _ple_rows_written

bootVars == <<pc, skip, pending, loaded, written>>
vars == <<ckpt, file, rows, sidecar, disk, bootVars>>

-----------------------------------------------------------------------------
(* Shard arithmetic of load_qwen4_exp_ple_shard. *)

ShardSize == (Vocab + NumShards - 1) \div NumShards

\* The rows a shard tensor holds; the last shards may be short or empty.
ShardRows(s) == {r \in 0 .. (Vocab - 1) : s * ShardSize <= r /\ r < (s + 1) * ShardSize}

\* num_embeddings_per_partition, for a vocabulary that needs no padding.
Expected == Cardinality(Window)

-----------------------------------------------------------------------------

Init ==
    /\ ckpt \in Checkpoints
    /\ file = "absent"
    /\ rows = [r \in Window |-> Zero]
    /\ sidecar = None
    /\ disk = [file |-> "absent", rows |-> rows, sidecar |-> None]
    /\ pc = "down"
    /\ skip = FALSE
    /\ pending = None
    /\ loaded = {}
    /\ written = 0

\* allocate_ple_host_table: a file of the right size is taken as it is.
Boot ==
    /\ pc = "down"
    /\ skip' = FALSE /\ pending' = None /\ loaded' = {} /\ written' = 0
    /\ IF file = "full"
       THEN pc' = "check" /\ UNCHANGED <<file, rows>>
       ELSE /\ pc' = "create"
            /\ file' = "short"
            /\ rows' = [r \in Window |-> Zero]
    /\ UNCHANGED <<ckpt, sidecar, disk>>

TruncateTable ==
    /\ pc = "create"
    /\ file' = "full"
    /\ pc' = "check"
    /\ UNCHANGED <<ckpt, rows, sidecar, disk, skip, pending, loaded, written>>

\* ple_sidecar_is_valid, asked once the table file is in place.
SidecarValid == sidecar = ckpt /\ file = "full"

CheckSidecar ==
    /\ pc = "check"
    /\ skip' = SidecarValid
    /\ pending' = IF SidecarValid THEN None ELSE ckpt
    /\ pc' = "load"
    /\ UNCHANGED <<ckpt, file, rows, sidecar, disk, loaded, written>>

\* Any exception while checking: the table is rewritten and not sealed.
CheckFails ==
    /\ pc = "check"
    /\ pc' = "load"
    /\ UNCHANGED <<ckpt, file, rows, sidecar, disk, skip, pending, loaded,
                   written>>

\* Mutants of LoadShard: the source is one shard off; the copy is not clipped
\* to the window.
LoadShardShifted(s) ==
    /\ pc = "load"
    /\ s \in Holds[ckpt] \ loaded
    /\ loaded' = loaded \cup {s}
    /\ IF skip
       THEN UNCHANGED <<rows, written>>
       ELSE /\ rows' = [r \in Window |-> IF r \in ShardRows(s + 1) THEN ckpt ELSE rows[r]]
            /\ written' = written + Cardinality(ShardRows(s))
    /\ UNCHANGED <<ckpt, file, sidecar, disk, pc, skip, pending>>

LoadShardUnclipped(s) ==
    /\ pc = "load"
    /\ s \in Holds[ckpt] \ loaded
    /\ loaded' = loaded \cup {s}
    /\ IF skip
       THEN UNCHANGED <<rows, written>>
       ELSE /\ rows' = [r \in Window \cup ShardRows(s) |->
                           IF r \in ShardRows(s) THEN ckpt ELSE rows[r]]
            /\ written' = written + Cardinality(ShardRows(s))
    /\ UNCHANGED <<ckpt, file, sidecar, disk, pc, skip, pending>>

\* load_qwen4_exp_ple_shard: the part inside the window is copied, the whole
\* shard is counted.
LoadShard(s) ==
    /\ pc = "load"
    /\ s \in Holds[ckpt] \ loaded
    /\ loaded' = loaded \cup {s}
    /\ IF skip
       THEN UNCHANGED <<rows, written>>
       ELSE /\ rows' = [r \in Window |-> IF r \in ShardRows(s) THEN ckpt ELSE rows[r]]
            /\ written' = written + Cardinality(ShardRows(s))
    /\ UNCHANGED <<ckpt, file, sidecar, disk, pc, skip, pending>>

\* Mutant of MayServeUnsealed: the row count is not tested.
SealAlways == pending = None

\* The sealing loop leaves a table alone that was skipped or is incomplete.
MayServeUnsealed == pending = None \/ written < Expected

LoadDone ==
    /\ pc = "load"
    /\ loaded = Holds[ckpt]
    /\ pc' = IF MayServeUnsealed THEN "serving" ELSE "msync"
    /\ UNCHANGED <<ckpt, file, rows, sidecar, disk, skip, pending, loaded,
                   written>>

\* Mutant of Msync: the seal does not wait for the data.
MsyncSkipped ==
    /\ pc = "msync"
    /\ pc' = "replace"
    /\ UNCHANGED <<ckpt, file, rows, sidecar, disk, skip, pending, loaded,
                   written>>

\* ple_msync: the mapping is on disk when it returns.
Msync ==
    /\ pc = "msync"
    /\ disk' = [disk EXCEPT !.file = file, !.rows = rows]
    /\ pc' = "replace"
    /\ UNCHANGED <<ckpt, file, rows, sidecar, skip, pending, loaded, written>>

\* ple_sidecar_write: the temporary file is synced, renamed over the sidecar,
\* and the directory is synced.
ReplaceSidecar ==
    /\ pc = "replace"
    /\ sidecar' = pending
    /\ pc' = "syncdir"
    /\ UNCHANGED <<ckpt, file, rows, disk, skip, pending, loaded, written>>

SyncDir ==
    /\ pc = "syncdir"
    /\ disk' = [disk EXCEPT !.sidecar = sidecar]
    /\ pc' = "serving"
    /\ UNCHANGED <<ckpt, file, rows, sidecar, skip, pending, loaded, written>>

\* msync, the temporary file or the directory sync fails: logged, and served.
SealFails ==
    /\ pc \in {"msync", "replace", "syncdir"}
    /\ pc' = "serving"
    /\ UNCHANGED <<ckpt, file, rows, sidecar, disk, skip, pending, loaded,
                   written>>

\* The server ends, orderly or killed; the page cache stays.
Stop ==
    /\ pc # "down"
    /\ pc' = "down"
    /\ skip' = FALSE /\ pending' = None /\ loaded' = {} /\ written' = 0
    /\ UNCHANGED <<ckpt, file, rows, sidecar, disk>>

\* Power loss: of each file either copy survives, row by row; a file that
\* was never synced may be gone.
PowerLoss ==
    \E f \in {file, disk.file}, s \in {sidecar, disk.sidecar}, back \in SUBSET Window :
        LET survived == [r \in Window |-> IF f = "absent" THEN Zero
                                          ELSE IF r \in back THEN rows[r]
                                          ELSE disk.rows[r]]
        IN  /\ file' = f /\ rows' = survived /\ sidecar' = s
            /\ disk' = [file |-> f, rows |-> survived, sidecar |-> s]
            /\ pc' = "down"
            /\ skip' = FALSE /\ pending' = None /\ loaded' = {} /\ written' = 0
            /\ UNCHANGED ckpt

-----------------------------------------------------------------------------
(* The operator, between boots. *)

\* Another checkpoint is put at model_path.
SwitchCheckpoint ==
    /\ pc = "down"
    /\ \E c \in Checkpoints :
          /\ c > ckpt \/ (Restore /\ c # ckpt)
          /\ ckpt' = c
    /\ UNCHANGED <<file, rows, sidecar, disk, bootVars>>

\* The table file is deleted, or cut short.
RemoveTable ==
    /\ pc = "down"
    /\ Remove
    /\ file' \in {"absent", "short"}
    /\ rows' = [r \in Window |-> Zero]
    /\ disk' = [disk EXCEPT !.file = file', !.rows = rows']
    /\ UNCHANGED <<ckpt, sidecar, bootVars>>

-----------------------------------------------------------------------------

BootStep ==
    \/ Boot \/ TruncateTable \/ CheckSidecar \/ CheckFails
    \/ \E s \in Shards : LoadShard(s)
    \/ LoadDone \/ Msync \/ ReplaceSidecar \/ SyncDir \/ SealFails

Next == BootStep \/ Stop \/ PowerLoss \/ SwitchCheckpoint \/ RemoveTable

Spec == Init /\ [][Next]_vars

-----------------------------------------------------------------------------
(* Properties. *)

Content == {Zero} \cup Checkpoints

\* Every variable keeps its type.
TypeOK ==
    /\ ckpt \in Checkpoints
    /\ file \in {"absent", "short", "full"}
    /\ rows \in [Window -> Content]
    /\ sidecar \in Checkpoints \cup {None}
    /\ disk \in [file : {"absent", "short", "full"}, rows : [Window -> Content],
                 sidecar : Checkpoints \cup {None}]
    /\ pc \in {"down", "create", "check", "load", "msync", "replace", "syncdir",
               "serving"}
    /\ skip \in BOOLEAN
    /\ pending \in Checkpoints \cup {None}
    /\ loaded \in SUBSET Shards
    /\ written \in Nat

Fresh(r) == r = [i \in Window |-> ckpt]

\* What ple_sidecar_is_valid promises: whenever the next check would accept
\* the sidecar -- as things stand, or as a power loss would leave them -- the
\* table holds the rows of the checkpoint now at model_path.  In particular a
\* partial load never leaves a valid-looking sidecar.  It is not so of a rank
\* with a part of the vocabulary and a checkpoint without some of its rows: the
\* counter of load_qwen4_exp_ple_shard takes rows outside the window for them.
SidecarTruthful ==
    /\ sidecar = ckpt => Fresh(rows)
    /\ disk.sidecar = ckpt => Fresh(disk.rows)

\* The inductive invariant behind it, for a rank that holds the whole
\* vocabulary, checkpoints that do not come back and a table file nobody
\* touches.  A sealed table is complete and fresh in both copies; no seal is
\* of a later checkpoint; the rows of the delivered shards are in the table,
\* and the counter is their number.
Landed == UNION {ShardRows(s) : s \in loaded}
Sealed == sidecar = ckpt \/ disk.sidecar = ckpt

SealInv ==
    /\ sidecar <= ckpt /\ disk.sidecar <= ckpt
    /\ Sealed => /\ Fresh(rows) /\ file = "full"
                 /\ Fresh(disk.rows) /\ disk.file = "full"
    /\ pc \notin {"down", "create"} => file = "full"
    /\ pc \in {"down", "create", "check"} => ~skip /\ pending = None
    /\ pc \in {"check", "create"} => loaded = {} /\ written = 0
    /\ pending # None => pending = ckpt /\ ~skip
    /\ skip => Fresh(rows)
    /\ pc \in {"load", "serving"} /\ ~skip => \A r \in Landed \cap Window : rows[r] = ckpt
    /\ pc = "load" /\ ~skip => written = Cardinality(Landed)
    /\ pc \in {"msync", "replace", "syncdir"} => Fresh(rows) /\ pending # None
    /\ pc \in {"replace", "syncdir"} => Fresh(disk.rows) /\ disk.file = "full"
    /\ pc = "serving" => Fresh(rows) \/ loaded = Holds[ckpt]

\* A server never answers from rows of another checkpoint or of a torn
\* rewrite: with a complete checkpoint the table it serves is that
\* checkpoint's, whether the load was skipped or not.
ServedTableFresh == pc = "serving" /\ Holds[ckpt] = Shards => Fresh(rows)

\* A boot that rewrites heals the table, whatever checkpoints and files it
\* found: after a complete rewrite only rows of this checkpoint are served.
RewriteHeals ==
    pc = "serving" /\ ~skip /\ Holds[ckpt] = Shards => Fresh(rows)

\* The order of the sealing loop: a sidecar is put in place only over rows of
\* this checkpoint that already survive a power loss, where the row counter
\* tells a complete rewrite (the whole vocabulary, or complete checkpoints).
DataBeforeSeal == [][pc = "replace" /\ pc' = "syncdir" => Fresh(disk.rows)]_vars
=============================================================================
