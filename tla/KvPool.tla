------------------------------- MODULE KvPool -------------------------------
(***************************************************************************)
(* The key-value pools of runtime-src/memory_pool.py.  A slot is spread    *)
(* over several tensors per layer (keys, values, their block scales, index *)
(* keys); each pool class has its own layout and its own store, move and   *)
(* host copy.  The state of a tensor row is the token it was computed from *)
(* and the global scale it was quantized with, so a slot whose tensors     *)
(* disagree is visible as Torn.                                            *)
(*                                                                         *)
(* The attention layers, the allocator, the request scheduler and the      *)
(* layer-wise loader of the cache controller are outside this repository:  *)
(* they are modelled by the calls the pools are written for.               *)
(***************************************************************************)
EXTENDS Integers, Sequences, FiniteSets, Functions

CONSTANTS
    NumSlots,       \* slots handed out to requests
    MaxLayers,      \* bound: layers a pool stores
    Tokens,
    Zero, Torn,     \* model values: an unwritten slot, tensors that disagree
    OffloadChunk,   \* cpu_offloading_chunk_size
    MaxPlaces,      \* bound: locations of one call
    DqSize,         \* rows of the dequantization workspace
    BlockSize,      \* MXFP8_SCALE_BLOCK_SIZE
    Configs         \* the pools a server can be built with, see PoolConfig

ASSUME PoolAssumption ==
    /\ {NumSlots, MaxLayers, OffloadChunk, MaxPlaces, DqSize, BlockSize} \subseteq Nat \ {0}
    /\ Zero # Torn /\ {Zero, Torn} \cap Tokens = {}

\* kind: pool class.  page: page_size.  hnd: SGLANG_USE_HND_KVCACHE.
\* native: SGLANG_NATIVE_MOVE_KV_CACHE.  cap: num_locs_upper of the tiled copy,
\* 0 without enable_kv_cache_copy.  full: global ids of the stored layers.
\* start: first layer of the pipeline stage.  index: what a layer's sparse
\* index stores.  offload, layerwise, prefix, post:
\* host copies, layer-wise loading, speculative commits, post-capture backing.
\* moves: accepted drafts are compacted.  swap: slot ids are virtual.
\* dequant: attention reads through the workspace.  slots: the bound for TLC.
PoolConfig ==
    [kind : {"mha", "quant", "fp4", "page_major", "mxfp8", "mla", "mla_fp4", "dsa",
             "minimax"},
     page : Nat \ {0}, hnd : BOOLEAN, native : BOOLEAN, cap : Nat, full : Seq(Nat),
     start : Nat, index : {"none", "k", "kv"}, offload : BOOLEAN,
     layerwise : BOOLEAN, prefix : BOOLEAN, moves : BOOLEAN, post : BOOLEAN, swap : BOOLEAN,
     dequant : BOOLEAN, slots : 1 .. NumSlots]

\* The stored layers of a stage ascend; two slots that exchange their ids exist;
\* the commit kernel of accepted prefixes knows flat rows only.
ASSUME ConfigAssumption ==
    \A d \in Configs :
        /\ d \in PoolConfig
        /\ Len(d.full) \in 1 .. MaxLayers /\ d.start <= d.full[1]
        /\ \A i, j \in DOMAIN d.full : i < j => d.full[i] < d.full[j]
        /\ d.hnd => d.kind = "mha" /\ ~d.prefix
        /\ d.swap => d.slots > 1

VARIABLES
    c,              \* the pool of this server
    mem,            \* mem[l][p][a]: row at address a of tensor p of stored layer l
    host,           \* copy of a request's slots on the host, in chunks
    transfer,       \* layer-wise load under way: its slots and the layers done
    dq, job,        \* workspace rows and the attention call they are for
    size, backed,   \* serving capacity, rows with physical backing
    kv, copy        \* history: what the calls so far promise, see KvStore

pool == <<c, mem, host, transfer, dq, job, size, backed>>
vars == <<pool, kv, copy>>

\* The promise, over slots counted from the first one of the requests.
Store == INSTANCE KvStore WITH Layers <- 0 .. MaxLayers - 1, Slots <- 1 .. NumSlots
None == <<>>
Unit == -1                                  \* scale of a tensor that has none

\* Slots follow the reserved page, which absorbs the writes of padded tokens.
Slots == c.page .. c.page + c.slots - 1
Local == 0 .. Len(c.full) - 1
Global(l) == c.full[l + 1]
Nth(s) == s - c.page + 1

----------------------------------------------------------------------------
(* Tensors and addresses                                                   *)

MhaTensors == {"k", "v"}
QuantTensors == {"k", "v", "ks", "vs"}
Fp4Tensors == {"k", "v", "ks", "vs"}
Mxfp8Tensors == {"k", "v", "ks", "vs"}
MlaTensors == {"kv"}
MlaFp4Tensors == {"kv", "kvs"}
DsaTensors == {"kv", "ik"}
IndexTensors == CASE c.index = "none" -> {} [] c.index = "k" -> {"ik"} [] c.index = "kv" -> {"ik", "iv"}
MiniMaxTensors == MhaTensors \cup IndexTensors

Tensors == CASE c.kind \in {"mha", "page_major"} -> MhaTensors
             [] c.kind = "quant" -> QuantTensors
             [] c.kind = "fp4" -> Fp4Tensors
             [] c.kind = "mxfp8" -> Mxfp8Tensors
             [] c.kind = "mla" -> MlaTensors
             [] c.kind = "mla_fp4" -> MlaFp4Tensors
             [] c.kind = "dsa" -> DsaTensors
             [] c.kind = "minimax" -> MiniMaxTensors

Scales == {"ks", "vs", "kvs"}
Flat(s) == <<s>>
Paged(s) == <<s \div c.page, s % c.page>>
\* Scales of a page in the chunk layout of the attention kernel.
SfInterleaved == c.kind = "mxfp8" /\ c.page = BlockSize * BlockSize
SfChunk == c.page \div BlockSize
SfStored(s) == <<s \div c.page, (s % BlockSize) * SfChunk + (s % c.page) \div BlockSize>>
SfRead(s) ==
    LET off == s % c.page
    IN  <<s \div c.page, (off % BlockSize) * SfChunk + off \div BlockSize>>

\* Where the attention kernels look for slot s of tensor p.
Address(p, s) == CASE c.kind = "page_major" \/ c.hnd -> Paged(s)
                   [] SfInterleaved /\ p \in Scales -> SfStored(s)
                   [] OTHER -> Flat(s)
HndStored(s) == <<s \div c.page, s % c.page>>
StoreAddress(p, s) == IF c.hnd THEN HndStored(s) ELSE Address(p, s)
MoveAddress(p, s) == IF SfInterleaved /\ p \in Scales THEN SfRead(s) ELSE Address(p, s)

Scatter(f, p, rows) ==
    [a \in DOMAIN f |-> IF \E s \in DOMAIN rows : StoreAddress(p, s) = a
                        THEN rows[CHOOSE s \in DOMAIN rows : StoreAddress(p, s) = a]
                        ELSE f[a]]

\* The on-device scale of a layer; host scalars count as unset for nvfp4.
QuantizedScale(g, given) == IF given \in {"none", "host"} THEN g ELSE Unit
ScaleOf(g) == IF c.kind = "quant" THEN g ELSE Unit

\* What attention reads in slot s of stored layer l.
Holds(l, s) ==
    LET rows == {mem[l][p][Address(p, s)] : p \in Tensors}
    IN  IF Cardinality(rows) # 1 THEN Torn
        ELSE LET r == CHOOSE r \in rows : TRUE
             IN  IF r[1] = Zero \/ r[2] = ScaleOf(Global(l)) THEN r[1] ELSE Torn

----------------------------------------------------------------------------
(* Stores                                                                  *)

\* HybridLinearKVPool: a global layer id to the dense index of the full pool.
TransferId(g) == CHOOSE l \in Local : Global(l) = g

\* Virtual slot ids of a unified pool; the identity for a static one.
Translate(s) == IF c.swap /\ s \in {c.page, c.page + 1} THEN 2 * c.page + 1 - s ELSE s

\* The location attention metadata resolved for the padded batch, cut to loc.
WriteLoc(loc, full) == IF full = None THEN loc ELSE SubSeq(full, 1, Len(loc))

\* Fault: the mask of the decode context parallel rank is ignored.
MaskedRowsAll(loc, toks, mask, scale) ==
    [s \in Range(loc) |-> <<toks[CHOOSE i \in DOMAIN loc : loc[i] = s], scale>>]

\* Rows of loc whose dcp mask is set.
MaskedRows(loc, toks, mask, scale) ==
    [s \in {loc[i] : i \in mask} |-> <<toks[CHOOSE i \in mask : loc[i] = s], scale>>]

\* The tensors a store of each class writes; the sparse classes also the index
\* keys, which the layer stores in the same forward.
MhaStored == {"k", "v"}
QuantStored == {"k", "v", "ks", "vs"}
Fp4Stored == {"k", "v", "ks", "vs"}
Mxfp8Stored == {"k", "v"} \cup {"ks", "vs"}
MlaStored == {"kv"}
MlaFp4Stored == {"kv", "kvs"}
DsaStored == MlaStored \cup {"ik"}
IndexStored == IF c.index = "k" THEN {"ik"} ELSE {"ik", "iv"}
MiniMaxStored == MhaStored \cup (IF c.index = "none" THEN {} ELSE IndexStored)

Stored == CASE c.kind \in {"mha", "page_major"} -> MhaStored
            [] c.kind = "quant" -> QuantStored
            [] c.kind = "fp4" -> Fp4Stored
            [] c.kind = "mxfp8" -> Mxfp8Stored
            [] c.kind = "mla" -> MlaStored
            [] c.kind = "mla_fp4" -> MlaFp4Stored
            [] c.kind = "dsa" -> DsaStored
            [] c.kind = "minimax" -> MiniMaxStored

StoredLayer(l, rows) ==
    [p \in Tensors |-> IF p \in Stored THEN Scatter(mem[l][p], p, rows) ELSE mem[l][p]]

InBounds(s) == s \in 0 .. size + c.page - 1

\* Places an MLA rank of a decode context parallel group keeps: every n-th
\* position; NumSlots bounds the group.
RankShares(at) == {{i \in DOMAIN at : at[i] % n = r} : n \in 2 .. NumSlots, r \in 0 .. NumSlots - 1}

\* The caller masks flat rows only; an MLA pool filters by itself.
SetKvBuffer(g, loc, toks, mask, given) ==
    LET full == IF c.swap THEN [i \in 1 .. Len(loc) + 1 |->
                                    IF i <= Len(loc) THEN Translate(loc[i]) ELSE 0]
                ELSE None
        at == WriteLoc(loc, full)
        scale == IF c.kind = "quant" THEN QuantizedScale(g, given) ELSE Unit
    IN  /\ \/ mask = DOMAIN loc
           \/ c.kind = "mha" /\ ~c.hnd
           \/ c.kind = "mla" /\ mask \in RankShares(at)
        /\ given # "none" => c.kind = "quant"
        /\ \A i \in DOMAIN at : InBounds(at[i])
        /\ mem' = [mem EXCEPT ![TransferId(g)] =
                       StoredLayer(TransferId(g), MaskedRows(at, toks, mask, scale))]
        /\ Store!Write(TransferId(g), [n \in {Nth(Translate(loc[i])) : i \in mask} |->
                            toks[CHOOSE i \in mask : Nth(Translate(loc[i])) = n]])
        /\ UNCHANGED <<c, host, transfer, dq, job, size, backed>>

\* A commit writes keys and values, whatever else the class keeps of a slot.
CommittedLayer(l, rows) ==
    [p \in Tensors |-> IF p \in MhaTensors THEN Scatter(mem[l][p], p, rows) ELSE mem[l][p]]

\* Rows of loc2d before the commit length of their request.
Committed(loc2d, lens) ==
    {x \in (1 .. Len(loc2d)) \X (1 .. Len(loc2d[1])) : x[2] <= lens[x[1]]}

SetKvBufferPrefixValid(g, loc2d, tok, lens) ==
    LET valid == Committed(loc2d, lens)
        rows == [s \in {loc2d[x[1]][x[2]] : x \in valid} |->
                    <<tok, Unit>>]
    IN  /\ c.prefix /\ c.kind \in {"mha", "quant", "fp4"}
        /\ mem' = [mem EXCEPT ![TransferId(g)] = CommittedLayer(TransferId(g), rows)]
        /\ Store!Write(TransferId(g), [n \in UNION {{Nth(loc2d[b][i]) : i \in 1 .. lens[b]} :
                                                       b \in DOMAIN lens} |-> tok])
        /\ UNCHANGED <<c, host, transfer, dq, job, size, backed>>

----------------------------------------------------------------------------
(* Moves: pairs[i] = <<target, source>>                                    *)

\* One advanced-index assignment: every source is read before a row is written.
MoveRows(f, p, pairs) ==
    [a \in DOMAIN f |->
       IF \E i \in DOMAIN pairs : MoveAddress(p, pairs[i][1]) = a
       THEN f[MoveAddress(p, pairs[CHOOSE i \in DOMAIN pairs :
                                       MoveAddress(p, pairs[i][1]) = a][2])]
       ELSE f[a]]

\* The tiled copy takes cap locations at a time, one launch after the other.
TiledChunks(pairs) ==
    [i \in 1 .. (Len(pairs) + c.cap - 1) \div c.cap |->
        SubSeq(pairs, (i - 1) * c.cap + 1,
               IF i * c.cap < Len(pairs) THEN i * c.cap ELSE Len(pairs))]
\* The rows after the first i launches.
Launched(f, p, chunks) ==
    LET after[i \in 0 .. Len(chunks)] ==
            IF i = 0 THEN f ELSE MoveRows(after[i - 1], p, chunks[i])
    IN  after
TiledMoved(f, p, pairs) ==
    Launched(f, p, TiledChunks(pairs))[Len(TiledChunks(pairs))]

\* Fault: the tiled copy moves the payload without its scales.
SlotMovePointersPlain == MhaTensors

\* The buffers whose pointers the tiled copy gets.
SlotMovePointers == IF c.kind = "quant" THEN QuantTensors ELSE MhaTensors

MhaMoved(f, p, pairs) ==
    IF c.hnd \/ c.native THEN MoveRows(f, p, pairs)
    ELSE IF p \in SlotMovePointers THEN TiledMoved(f, p, pairs) ELSE f

\* Without the interleaved layout the parent moves first, natively also the
\* scales, and the scales of every layer are moved here.
Mxfp8Moved(f, p, pairs) ==
    IF SfInterleaved THEN MoveRows(f, p, pairs)
    ELSE LET parent == MhaMoved(f, p, pairs)
         IN  IF p \in Scales THEN MoveRows(parent, p, pairs) ELSE parent

MlaMoved(f, p, pairs) == IF p = "kv" THEN MoveRows(f, p, pairs) ELSE f
DsaMoved(f, p, pairs) == IF p = "ik" THEN MoveRows(f, p, pairs) ELSE MlaMoved(f, p, pairs)

Moved(f, p, pairs) ==
    CASE c.kind \in {"mha", "quant", "fp4"} -> MhaMoved(f, p, pairs)
      [] c.kind = "page_major" -> MoveRows(f, p, pairs)
      [] c.kind = "mxfp8" -> Mxfp8Moved(f, p, pairs)
      [] c.kind \in {"mla", "mla_fp4"} -> MlaMoved(f, p, pairs)
      [] c.kind = "dsa" -> DsaMoved(f, p, pairs)

\* Raised, or asserted, before a row is written.
CanMove == CASE c.kind \in {"mha", "quant"} -> c.hnd \/ c.native \/ c.cap > 0
             [] c.kind = "fp4" -> c.native
             [] c.kind = "mxfp8" -> SfInterleaved \/ c.native \/ c.cap > 0
             [] OTHER -> c.kind # "minimax"

MoveKvCache(pairs) ==
    /\ CanMove
    /\ \A i \in DOMAIN pairs : InBounds(pairs[i][1]) /\ InBounds(pairs[i][2])
    /\ mem' = [l \in Local |-> [p \in Tensors |-> Moved(mem[l][p], p, pairs)]]
    /\ Store!Move([n \in {Nth(pairs[i][1]) : i \in DOMAIN pairs} |->
                      Nth(pairs[CHOOSE i \in DOMAIN pairs : Nth(pairs[i][1]) = n][2])])
    /\ UNCHANGED <<c, host, transfer, dq, job, size, backed>>

----------------------------------------------------------------------------
(* Host copies and layer-wise loading                                      *)

\* The tensors a class copies; the others raise before anything is read.
MhaCopied == {"k", "v"}
MlaCopied == {"kv"}
DsaCopied == MlaCopied \cup {"ik"}
CopiedTensors == CASE c.kind \in {"mha", "quant", "fp4"} -> MhaCopied
                   [] c.kind \in {"mla", "mla_fp4"} -> MlaCopied
                   [] c.kind = "dsa" -> DsaCopied
                   [] OTHER -> {}
CanOffload == c.offload /\ ~c.hnd /\ CopiedTensors # {}

Chunks(at) == [i \in 1 .. (Len(at) + OffloadChunk - 1) \div OffloadChunk |->
                 SubSeq(at, (i - 1) * OffloadChunk + 1,
                        IF i * OffloadChunk < Len(at) THEN i * OffloadChunk ELSE Len(at))]
HostRow(l, p, i) ==
    host[l][p][((i - 1) \div OffloadChunk) + 1][((i - 1) % OffloadChunk) + 1]
HostLen == LET chunks == host[0][CHOOSE p \in DOMAIN host[0] : TRUE]
           IN  (Len(chunks) - 1) * OffloadChunk + Len(chunks[Len(chunks)])

GetCpuCopy(at) ==
    /\ CanOffload
    /\ host' = [l \in Local |-> [p \in CopiedTensors |->
                  [i \in DOMAIN Chunks(at) |-> [j \in DOMAIN Chunks(at)[i] |->
                      mem[l][p][Flat(Chunks(at)[i][j])]]]]]
    /\ Store!Offload([i \in DOMAIN at |-> Nth(at[i])])
    /\ UNCHANGED <<c, mem, transfer, dq, job, size, backed>>

Loaded(l, at) ==
    [p \in Tensors |->
       IF p \in CopiedTensors
       THEN [a \in DOMAIN mem[l][p] |->
               IF \E i \in DOMAIN at : Flat(at[i]) = a
               THEN HostRow(l, p, CHOOSE i \in DOMAIN at : Flat(at[i]) = a)
               ELSE mem[l][p][a]]
       ELSE mem[l][p]]

\* The shapes are asserted equal; the request drops its copy.
LoadCpuCopy(at) ==
    /\ host # None /\ ~c.layerwise /\ Len(at) = HostLen
    /\ mem' = [l \in Local |-> Loaded(l, at)]
    /\ host' = None
    /\ Store!Load(0 .. MaxLayers - 1, [i \in DOMAIN at |-> Nth(at[i])], TRUE)
    /\ UNCHANGED <<c, transfer, dq, job, size, backed>>

\* The loader of the cache controller walks all layers of the stage, also
\* those that keep no keys and values, and counts them.
BeginTransfer(at) ==
    /\ host # None /\ c.layerwise /\ transfer = None /\ Len(at) = HostLen
    /\ transfer' = [at |-> at, done |-> 0]
    /\ UNCHANGED <<c, mem, host, dq, job, size, backed, kv, copy>>

TransferLayer ==
    LET g == c.start + transfer.done
        last == g = c.full[Len(c.full)]
    IN  /\ transfer # None
        /\ mem' = IF \E l \in Local : Global(l) = g
                  THEN [mem EXCEPT ![TransferId(g)] = Loaded(TransferId(g), transfer.at)]
                  ELSE mem
        /\ transfer' = IF last THEN None ELSE [transfer EXCEPT !.done = @ + 1]
        /\ host' = IF last THEN None ELSE host
        /\ Store!Load({l \in Local : Global(l) = g},
                      [i \in DOMAIN transfer.at |-> Nth(transfer.at[i])], last)
        /\ UNCHANGED <<c, dq, job, size, backed>>

\* Fault: the reader of a layer goes on when the layer before it is there.
MayReadGlobal(g) == transfer = None \/ transfer.done >= g - c.start

\* wait_until: a reader of global layer g goes on when its layer is counted.
MayRead(g) == transfer = None \/ transfer.done > g - c.start

----------------------------------------------------------------------------
(* Dequantization workspace of a quantized pool                            *)

AlignUp(n) == ((n + c.page - 1) \div c.page) * c.page

\* Fault: the offset into the current keys does not advance over the requests.
ExtendRequestFirst(l, cur, ragged, acc, r) ==
    LET n == Len(r.prefix)
        m == IF ragged THEN 0 ELSE r.extend
        Row(i) == IF i < acc.next + n THEN Holds(l, r.prefix[i - acc.next + 1])
                  ELSE cur[i - acc.next - n + 1]
    IN  [rows |-> [i \in DOMAIN acc.rows |->
                     IF i \in acc.next .. acc.next + n + m - 1 THEN Row(i) ELSE acc.rows[i]],
         starts |-> Append(acc.starts, acc.next), taken |-> acc.taken + m,
         next |-> AlignUp(acc.next + n + m)]

\* One request of the batch: its cached prefix, then its current tokens, which
\* follow those of the requests before it in k_cur.
ExtendRequest(l, cur, ragged, acc, r) ==
    LET n == Len(r.prefix)
        m == IF ragged THEN 0 ELSE r.extend
        Row(i) == IF i < acc.next + n THEN Holds(l, r.prefix[i - acc.next + 1])
                  ELSE cur[acc.taken + i - acc.next - n + 1]
    IN  [rows |-> [i \in DOMAIN acc.rows |->
                     IF i \in acc.next .. acc.next + n + m - 1 THEN Row(i) ELSE acc.rows[i]],
         starts |-> Append(acc.starts, acc.next),
         taken |-> acc.taken + m,
         next |-> AlignUp(acc.next + n + m)]

EmptyWorkspace == [i \in 0 .. DqSize - 1 |-> Zero]

\* The workspace after the first i requests of the batch.
Extended(l, batch, cur, ragged) ==
    LET after[i \in 0 .. Len(batch)] ==
            IF i = 0
            THEN [rows |-> EmptyWorkspace, starts |-> <<>>, taken |-> 0, next |-> c.page]
            ELSE ExtendRequest(l, cur, ragged, after[i - 1], batch[i])
    IN  after

\* batch[i]: cached slots and number of current tokens of a request; cur: the
\* current tokens of the batch.  The contents left by earlier calls are never
\* read, so the workspace starts empty.
PrepareDequantExtend(l, batch, cur, ragged) ==
    LET done == Extended(l, batch, cur, ragged)[Len(batch)]
    IN  /\ c.dequant /\ done.next <= DqSize
        /\ dq' = done.rows
        /\ job' = [op |-> "extend", layer |-> l, batch |-> batch, cur |-> cur,
                   ragged |-> ragged, starts |-> done.starts]
        /\ UNCHANGED <<c, mem, host, transfer, size, backed, kv, copy>>

\* Decoding attention reads the workspace by slot.
PrepareDequantDecode(l, seqs) ==
    /\ c.dequant
    /\ dq' = [i \in 0 .. DqSize - 1 |->
                IF \E q \in DOMAIN seqs : \E k \in DOMAIN seqs[q] : seqs[q][k] = i
                THEN Holds(l, i) ELSE Zero]
    /\ job' = [op |-> "decode", layer |-> l, seqs |-> seqs]
    /\ UNCHANGED <<c, mem, host, transfer, size, backed, kv, copy>>

\* The attention call the workspace was prepared for has read it.
Attend ==
    /\ job # None
    /\ dq' = None /\ job' = None
    /\ UNCHANGED <<c, mem, host, transfer, size, backed, kv, copy>>

----------------------------------------------------------------------------
(* Post-capture backing                                                    *)

TokensPerRow == IF c.hnd THEN c.page ELSE 1
\* Fault: a partial page gets no row.
DescRowsFloor(n) == n \div TokensPerRow
DescRows(n) == (n + TokensPerRow - 1) \div TokensPerRow
FinalSpan(n) == DescRows(n + c.page)
ReservedSize == IF c.post THEN AlignUp(c.slots) ELSE c.slots

\* Fault: the capacity counts the reserved page.
FinalizeBackingReserved(n) ==
    /\ c.post /\ backed = 0 /\ n <= ReservedSize
    /\ backed' = FinalSpan(n) /\ size' = n + c.page
    /\ UNCHANGED <<c, mem, host, transfer, dq, job, kv, copy>>

FinalizeBacking(n) ==
    /\ c.post /\ backed = 0 /\ n <= ReservedSize
    /\ backed' = FinalSpan(n)
    /\ size' = n
    /\ UNCHANGED <<c, mem, host, transfer, dq, job, kv, copy>>

----------------------------------------------------------------------------

Init ==
    /\ c \in Configs
    /\ mem = [l \in Local |-> [p \in Tensors |->
                [a \in {Address(p, s) : s \in Slots} |-> <<Zero, Unit>>]]]
    /\ host = None /\ transfer = None
    /\ dq = None /\ job = None
    /\ size = ReservedSize
    /\ Store!Init
    /\ backed = 0

\* Locations of one call: a few slots, none of a transfer under way by either
\* id, all within the capacity the allocator was given.
Owned == {s \in Slots : /\ s < size + c.page
                        /\ transfer # None => {s, Translate(s)} \cap Range(transfer.at) = {}}
Places(S) == {at \in UNION {[1 .. n -> S] : n \in 1 .. MaxPlaces} : \A i, j \in DOMAIN at :
                 at[i] = at[j] => i = j}

\* Compaction of accepted draft tokens: targets and sources ascend, each source at
\* or after its target.
Compactions ==
    {m \in UNION {[1 .. n -> {x \in Owned \X Owned : x[1] <= x[2]}] : n \in 1 .. MaxPlaces} :
        \A i, j \in DOMAIN m : i < j => m[i][1] < m[j][1] /\ m[i][2] < m[j][2]}

Set == \E g \in {Global(l) : l \in Local}, loc \in Places(Owned), given \in {"none", "host"} :
         \E toks \in [DOMAIN loc -> Tokens], mask \in SUBSET DOMAIN loc :
            SetKvBuffer(g, loc, toks, mask, given)
SetPrefix == \E l \in Local, loc \in Places(Owned), split \in BOOLEAN, tok \in Tokens :
               LET loc2d == IF split THEN [i \in DOMAIN loc |-> <<loc[i]>>] ELSE <<loc>>
               IN  \E lens \in [DOMAIN loc2d -> 0 .. Len(loc2d[1])] :
                     SetKvBufferPrefixValid(Global(l), loc2d, tok, lens)
Move == c.moves /\ transfer = None /\ \E pairs \in Compactions : MoveKvCache(pairs)
Offload == host = None /\ \E at \in Places(Owned) : GetCpuCopy(at)
Load == \E at \in Places(Owned) : LoadCpuCopy(at)
Transfer == (\E at \in Places(Owned) : BeginTransfer(at)) \/ TransferLayer
Extend == \E l \in Local, a, b \in 0 .. 2, n, m \in 0 .. 1, ragged \in BOOLEAN,
             at \in {at \in Places(Owned) : Len(at) = 2} :
          \E cur \in [1 .. n + m -> Tokens] :
            PrepareDequantExtend(l, <<[prefix |-> SubSeq(at, 1, a), extend |-> n],
                                      [prefix |-> SubSeq(at, 1, b), extend |-> m]>>,
                                 cur, ragged)
Decode == \E l \in Local, at \in Places(Owned) : PrepareDequantDecode(l, <<at, <<>>>>)
Finalize == \E n \in 1 .. c.slots : FinalizeBacking(n)

Next ==
    \/ Attend
    \/ /\ job = None
       /\ \/ Set \/ SetPrefix \/ Move \/ Offload \/ Load \/ Transfer
          \/ Extend \/ Decode \/ Finalize
Spec == Init /\ [][Next]_vars

----------------------------------------------------------------------------
(* Properties                                                              *)

\* Every tensor row holds a token and a scale; the workspace is prepared for
\* an attention call or not at all.
TypeOK ==
    /\ c \in Configs
    /\ \A l \in Local, p \in Tensors : \A a \in DOMAIN mem[l][p] :
         mem[l][p][a] \in (Tokens \cup {Zero}) \X ({Unit} \cup {Global(i) : i \in Local})
    /\ (dq = None) = (job = None)
    /\ size \in 1 .. ReservedSize

\* Every call does to the slots exactly what KvStore promises for its
\* arguments: a store writes its unmasked rows in the layer it names, a commit
\* the accepted prefix, a move relocates all layers at once, a load puts the
\* copied slots back in order.
Copied(l, i) == LET rows == {HostRow(l, p, i) : p \in CopiedTensors}
                IN  IF Cardinality(rows) = 1 THEN (CHOOSE r \in rows : TRUE)[1] ELSE Torn
KeepsPromise ==
    /\ \A l \in Local, s \in Slots : Holds(l, s) = kv[l][Nth(s)]
    /\ host # None => \A l \in Local, i \in 1 .. HostLen : Copied(l, i) = copy[l][i]

\* The pool as its callers see it implements KvStore: no call leaves a slot torn
\* between tensors or between layers, and none does two operations at once.
View == [l \in 0 .. MaxLayers - 1 |-> [n \in 1 .. NumSlots |->
            IF l \in Local /\ n <= c.slots THEN Holds(l, c.page + n - 1) ELSE Zero]]
HostView == IF host = None THEN None
            ELSE [l \in 0 .. MaxLayers - 1 |-> [i \in 1 .. HostLen |->
                    IF l \in Local THEN Copied(l, i) ELSE Zero]]
Seen == INSTANCE KvStore WITH Layers <- 0 .. MaxLayers - 1, Slots <- 1 .. NumSlots,
                              kv <- View, copy <- HostView
ImplementsStore == Seen!Spec

\* With layer-wise loading, whoever passes the wait for a layer of a hybrid
\* model reads the copied slots of that layer and not what was there before.
TransferVisible ==
    transfer # None =>
        \A l \in Local : MayRead(Global(l)) =>
            \A i \in DOMAIN transfer.at : Holds(l, transfer.at[i]) = Copied(l, i)

\* The workspace gives every request of the batch a page-aligned region of its
\* own after the reserved page, with its cached tokens in order followed by its
\* own current tokens.
RegionLen(i) == Len(job.batch[i].prefix) + (IF job.ragged THEN 0 ELSE job.batch[i].extend)
TakenBefore(i) ==
    LET taken[k \in 1 .. i] == IF k = 1 THEN 0 ELSE taken[k - 1] + job.batch[k - 1].extend
    IN  taken[i]
WorkspaceHolds ==
    job # None =>
      IF job.op = "decode"
      THEN \A q \in DOMAIN job.seqs : \A k \in DOMAIN job.seqs[q] :
             dq[job.seqs[q][k]] = Holds(job.layer, job.seqs[q][k])
      ELSE \A i \in DOMAIN job.batch :
             LET r == job.batch[i]
                 at == job.starts[i]
             IN  /\ at % c.page = 0 /\ at >= c.page
                 /\ i > 1 => at >= job.starts[i - 1] + RegionLen(i - 1)
                 /\ \A k \in 1 .. Len(r.prefix) : dq[at + k - 1] = Holds(job.layer, r.prefix[k])
                 /\ ~job.ragged => \A k \in 1 .. r.extend :
                        dq[at + Len(r.prefix) + k - 1] = job.cur[TakenBefore(i) + k]

\* Whatever size the finalizer settles on, every slot a store accepts lies in a
\* row with physical memory behind it, the partial last page included.
SlotsBacked == backed # 0 => \A s \in 0 .. size + c.page - 1 : s \div TokensPerRow < backed
=============================================================================
