# Verification of the sglang flash-next runtime

TLA+ models of the stateful parts of this repository: the runtime overlay for
serving Qwen4-Exp on one GPU (`runtime-src/`, `patches/`), with model-checking
runs (TLC) and machine-checked proofs (TLAPS).  Paths below are relative to the
repository root; `PROJECT.json` maps every definition to the lines it models.

## 1. The system

The repository holds modified copies of sglang files plus new modules.  One
scheduler thread per GPU process drives `model_runner.forward`; the Python code
around it keeps the state that the GPU kernels read.

| Component | Source | State | Operations | Modelled by |
|---|---|---|---|---|
| Expert cold pool | `patches/expert_cold_pool.py`, hooks in `topk.py`, `model_runner.py` | rows of the expert tensors, host copies, bias columns, remap table, slot books, demand counters, stash, dirty flag | shrink at load, stash at routing, hook after a forward (scan, stage, evict, demote, promote) | `ExpertColdPool` |
| PLE file table | `qwen4_exp_ple_table.py`, `qwen4_exp.py` | mmapped table file, sidecar, skip flag, row counter | allocate, check sidecar, load shards, msync, seal | `PleTable` |
| PLE prefetcher, RSS trimmer | `qwen4_exp_ple_table.py` 70-226 | queue, thread | madvise | not modelled (hints only) |
| PLE batches | `qwen4_exp.py` 103-396 | n-gram context and conv state per request slot | prepare, commit, verify, track | `PleBatch`; the slots they live in, `MambaSlots` |
| n-gram lookup, PLE layers | `qwen4_exp.py` 454-1316 | prefetch buffers and state of a layer | windows of the hash and the convolution; gather on a second stream | windows in `PleBatch`; the prefetch not modelled |
| Request and mamba slots | `memory_pool.py` 258-1654, `model_runner.py` 1637-1683 | free slots, request to slot maps, ping-pong track buffers, deferred clears, recurrent state | alloc, free, donate, copy-on-write, clear | `MambaSlots` |
| Mamba checkpoint pool | `mamba_checkpoint_pool.py` | int8 checkpoint slots with PLE side states | store, load | `MambaSlots` |
| KV pools | `memory_pool.py` 1656-5162 | several tensors per layer, scales, host copies, workspace, backing | set, masked and prefix set, move, offload, load, layer-wise load, dequantize, finalize | `KvPool`, which implements `KvStore` |
| QSA top-k | `kernel.py`, `fast_topk.py`, `mqa.py`, `patches/mqa_splitk.py` | scores, block list, token list of a launch | split-K scoring, mask, top-k, expansion | `QsaTopK` |
| Expert selection | `topk.py` | columns of a row | gates, shared expert, padding, replicas, per-rank slots, cold-pool rows | `ExpertSelect` |
| Model runner | `model_runner.py` | backends, elastic expert parallelism | forward dispatch, rejoin of ranks | the cold pool's hook in `ExpertColdPool`, the deferred clears in `MambaSlots`; else not modelled |
| Expert tier v1 | `patches/expert_tier.py` | ring slots, lookup | remap | not modelled |
| Patchers, switch scripts | `patches/*.py`, `scripts/*` | files, units | apply, verify, roll back | not modelled |

How they meet: `load_weights` fills and seals the PLE table, `load_model` then
shrinks the experts (draft workers never do).  During serving `select_experts`
reads the bias and remap tables the cold pool keeps and writes its stash, and
`forward` calls the pool's hook last.  Captured decode graphs replay the kernels,
and with them the *addresses* of the tables, but none of the Python.  The
request pool assigns mamba slots; `forward` clears and copies them before the
mamba layers run and commits PLE side states after; the attention layers read keys and
values through the index that the QSA indexer selected.

What is hard here: tables read by kernels while the hook rewrites the rows
behind them; copies that fail half way; experts of a draft model with the same
layer ids; demand that is throttled, sampled, decayed and consumed once; crash
safety of a 48 GiB file against a small sidecar; tensor-parallel windows against
checkpoint shards; slots that change owner while their clear is deferred; key-value slots whose payload,
scales and index keys are written, moved and copied by different paths; thread blocks
that share tiles by rounded fractions; padding rows of captured graphs that name slots
in use; ids that pass through four layouts before they address an expert.
`PROJECT.json` lists each hazard at its line.

## 2. The modules

### ExpertColdPool

One MoE layer; layers share only the dirty flag and the call counter.  `weights[row][t]`
says whose bytes a row of tensor `t` holds, `host` what the pinned pool holds,
`bias` and `remap` are the two tables, `gid_row`, `row_gid`, `row_tick`,
`free_rows`, `protected` the fields of `LayerPool`.  `row_order` is the insertion
order of the `row_tick` dictionary, which breaks ties of `min`.  Ticks are kept as
ranks, since only their order is used.  The demand counters are fixed-point
integers in units of `1/Unit`; scores are small integers (the sigmoid is monotone,
and the alpha band is tested on exact fractions).

`after_forward_hook` is cut into steps (`HookEntry`, `ScanTally`, `StageFree`,
`StageEvict`, `CopyTensor`, `CopyDone`, `CopyFail`, ...) so that an invariant holds
between any two assignments a kernel could observe.  Between hooks `EagerForward`
runs the router of the target or of a draft model on a nondeterministic batch, and
`ReplayForward` is a captured graph.  `IsManagedConfig` is the identity gate of the
hooks in `topk.py`: without it neither the bias, nor the remap (`RowOf`), nor the stash is
applied.  `Mask` is one step: it runs on the thread that would run the router.

What it abstracts: tensor values to their owner; tokens to score tables; the
padding rows of a batch to a smaller batch (`MinRows = 0` is a batch of padding
only).  All selected ids of a stashed row are valid: rows where only some columns
are padding do not occur for this router.

### PleTable

The table file of one rank and its sidecar.  Every file has two copies: what
running processes see (the page cache) and `disk`, what surely survives a power
loss.  `PowerLoss` may happen anywhere and keeps, row by row, either copy.  A
checkpoint is identified by its fingerprints; its number is the content its rows
have.  `SwitchCheckpoint` moves forward only, unless `Restore`, which lets an earlier
checkpoint come back (another model path, or a directory that was renamed, over the same
table directory); `RemoveTable` needs `Remove`.  Both happen between boots.  The vocabulary needs no padding, and
the checkpoint does not change during a boot.

### MambaSlots

The pools of a hybrid model.  What a slot holds is the token history folded into it,
once for the recurrent state and once for the side states registered as siblings;
`Garbage` is a history no text has.  `free_slots`, `req_generation`, `mamba_map` and
`track_map` are the fields of `ReqToTokenPool` and `HybridReqToTokenPool`, `req` the
fields they keep on a request, `ckpt` the int8 pool.  A forward is launched
(`LaunchFirst`, `LaunchChunk`, `LaunchDecode`: the slots it clears, copies and tracks
into are captured), executed in launch order (`Execute`: deferred clear,
copy-on-write, layers on the slot the device table names *then*, track snapshot), and
its result processed (`CacheUnfinished`, `ContinueDecode`, `Finish`, or `DropStale` for
a request that is gone).  With overlap two forwards are outstanding, so a request can
finish, or be retracted, with a forward in flight, and its slots change hands at once.

Outside the repository, and modelled by the calls the pools are written for: the
scheduler, the radix cache and `MambaSlotAllocator`.  Assumed of them: results are
processed in order; a checkpoint is stored after the forward that wrote its slot has
executed; an extend advances the track index when it is launched and a decode when its
result is processed; a request protects the checkpoint it was admitted with; capacity
is checked before `alloc`; a checkpoint that finds the int8 pool full is not cached.
The allocator is a function of the free set; the state of a free slot is abstracted to
garbage, so nothing can rely on what a previous owner left.  Left out: ReplaySSM (off
in every configuration here), speculative verification, host copies, int8 rounding.

### PleBatch

The side states of the per-layer embedding: for each state slot the last n-gram tokens
and the inputs of the short convolution.  A forward (`Extend`, `Decode`, `TargetVerify`)
is one action: `Prepare` lays the tokens out in rows (`PaddedRow`, `InputRow`) and puts the
slot's state in front of each (`_prepare_ple_batch`, `_short_conv`), `LookUp` takes the
windows of every token (`compute_ngram_ids`, `_short_conv`), `Commit` writes the state after
the chunk to the slot and the state at the aligned length to the track slot
(`_commit_ple_batch`, `_ple_track_targets`).  `looked` is what the last forward read; it
exists for the property.
`Configs` has the branches of the code: fused decode or not, lengths known on the host or
not, padded tokens counted or not, verification rewritten as extend by data-parallel
attention or not.  Three of the code's edges are in every run: padding tokens behind a
prefill, padding rows of a captured graph that name request slot 0 while it is in use, and
requests without a token in a chunk.

The hash is abstracted to the tokens it mixes and a convolution input to the history it
is computed from.  `Accept` (which drafts the target keeps), `Admit`, `Donate` and `Finish`
are the callers' part; the state pools and their clears are in `MambaSlots`.

### KvStore and KvPool

`KvStore` is what a pool promises: a slot of a layer holds one token, a write sets some
slots of one layer, a move relocates whole slots of all layers at once, a host copy brings
back what was copied out, layer by layer or at once.

`KvPool` is the code.  A row of a tensor holds the token it was computed from and the
scale it was quantized with; `Holds(l, s)` is the token slot `s` has when all tensors of
the layer agree, and `Torn` otherwise.  Each of the nine pool classes has its tensors, its
address function (flat, page and offset, kernel layout of the MXFP8 scales), the tensors
its store writes, its move (tiled copy in launches of `num_locs_upper`, native copy,
MXFP8's second move of the scales, the indexer keys of DSA) and the tensors its host copy
takes.  `mem`, `host`, `transfer`, `dq`, `size` and `backed` are state of the code; `kv` and
`copy` are a history: what the calls so far promise.  Two properties connect the levels.
`KeepsPromise` compares with the history, so that a call which moves the *wrong* slot, not
only a torn one, is found; `ImplementsStore` is the refinement itself, with the mapping
`View`, `HostView`, and rules out a call that takes two steps of the promise at once.

The arguments are those the callers may pass: slots of requests never alias, compactions
of accepted drafts ascend (`Compactions`), nobody touches slots under a transfer, writes
stay within the capacity the allocator was given.  The padded rows of a batch write the
reserved page, which is outside the promise.  Pool classes that raise on an operation are
modelled by the guard `CanMove` or `CanOffload`.  The prefix commit writes keys and values
only, whatever other tensors the class has; the class that inherits it with scales is a known
limit below.

### QsaTopK

One launch of the sparse indexer.  `RunBlock` is one thread block, in any order: of the
split-K prefill kernel (`TileRange`, rounded fractions of the tiles of a block of rows) or
of the paged decode kernel (`TileKey`, pages past the context are not loaded).  `MaskRow`
is a row of the mask kernel, `SelectBlocks` any result `torch.topk` or the CUDA selection
may give (ties are free), `ExpandBlocks` the expansion to token positions, in torch and in
Triton.  Scores are arbitrary small numbers.  The packing of requests into rows and windows is
the attention backend's and is not in the repository: rows, first columns and the number of
columns are inputs of a launch (`JobShape`), as `row_starts` and `row_ends` are in the code.
The reference expansion moves the holes to the end by sorting positions (`SortKey`, `Place`),
the kernel by counting the valid tokens (`ValidTokens`).

### ExpertSelect

One row of `select_experts`, with its scores and its padding chosen in `Init`.  `Gate` is the
set of selections a gate may yield: softmax, sigmoid, biased, grouped, biased grouped, and the
DeepSeek kernel where its limits allow; `Columns` their weights as exact fractions, renormalized
or not (`renorm`), with the shared expert's column; `PostProcess` the steps after it in the order
of each platform.  On CUDA these are replicas and padding mask (`CudaIds`), of the whole row where
the EPLB solver dispatches (`lp`) and of the routed columns only with per-rank shared slots, then
the remap to those slots (`RemapPerRank`), which changes the row in place.  On HIP the mask comes
first (`HipIds`), then aiter's append of the shared expert with its weight (`AppendShared`, `scale`),
then the zeroed weights, unless `SGLANG_MORI_NO_PAD_MASK` is set (`unmasked`).  `seen` is what the
distribution recorder gets.  On the solver's path the dispatch table is read at the shared expert's
id, behind its end, so the model takes any value.  `ColdRows` is the table of the cold pool.
Columns are told apart by position, as the slices of the code do (`RoutedPart`, `SharedPart`).

`Configs` are the layers a server can be built with.  `ConfigAssumption` states what may not be
combined and why; per-rank shared slots *with* a folded factor and *with* the solver are in.
`SoftmaxAssumption` is the plain softmax gate, which takes neither a bias nor a shared expert;
`GroupAssumption` that the scores can be viewed as equal
groups and that the groups kept have enough experts, without which `torch.topk` fails;
`ColdAssumption` that a shrunk layer is one the pool accepts (no groups, bias, replicas, shared
slots or fused router) with a row of its own for each selectable expert, which follows from
`RoutableIntact` of the pool's own module and so is a condition on Phase B; `BenchmarkAssumption` that a benchmark routing, which
overwrites all columns, runs without a fused shared expert.

Left out: custom routing functions; the torch-native, CPU, NPU, XPU and MUSA gates and HIP
without aiter; the packed output; a fused shared expert without a routed scaling factor, whose
column keeps the score of the expert it displaced; the capture hook.
Gate kernels outside the repository are modelled by the torch code they replace.

## 3. The runs

| Run | Instance | Shows |
|---|---|---|
| `cold_pool_safety` | 7 experts, 3 kept, 2 slots, 2 tensors, 2 dtypes, 3 tokens, failing copies, Phase B off | `RoutableIntact`, `MaskedParked`, `SlotsConserved`, `StagedVisible`, `WeakNeverStaged`, `DraftUntouched`, and the inductive `PoolInv` |
| `cold_pool_degrade` | 5 experts, 2 slots, Phase B on, window 2 | slot books and `ProtectedPinned` survive demotion and promotion |
| `cold_pool_live` | 4 experts, 1 slot that changes hands | `DemandServed` under fairness |
| `cold_pool_degrade_intact` | Phase B on | violated: row 0 is overwritten under a routable expert |
| `ple_table` | 5 rows, 3 shards, 3 checkpoints, one incomplete | `SidecarTruthful`, `ServedTableFresh`, `DataBeforeSeal`, inductive `SealInv` |
| `ple_table_heal` | a rank whose window starts inside a shard, complete checkpoints come back, table removed | `RewriteHeals`, `DataBeforeSeal` |
| `ple_table_remove` | table removed | violated: a recreated table passes the sidecar check |
| `mamba_slots` | 2 requests, 7 slots, 2 int8 slots, interval 2, three configurations: overlap with full buffers; overlap, lazy, int8 (deployed); no overlap | `SlotLedger`, `MapCoherent`, `CachedTrue`, `RunningTrue`, `PingPong` |
| `ple_batch` | 2 texts with a common prefix, 4 configurations (fused, unfused, verification, verification under data parallelism) | `LookupTrue`, `StateTrue`, `CacheTrue` |
| `kv_pools` | 14 pools of 9 classes, 2 or 3 slots, 2 tokens | `KeepsPromise`, `ImplementsStore`, `TransferVisible`, `WorkspaceHolds`, `SlotsBacked` |
| `qsa_topk` | 6 launches, all scores from 1 to 2 | `MatchesReference`, `TokensSound` |
| `expert_select` | 23 layers of 4 experts, all scores from 1 to 3 | `TypeOK` (which here says that no place is addressed twice), `SelectsBest`, `PaddedSilent`, `SharedOnce`, `Addressed` |

Bounds.  Three cold experts in the band compete for two slots, so that free rows,
eviction, reuse of a returned row and a masked old owner all occur; two tensors
make torn rows visible; two dtypes make one-column updates visible; a batch of two
rows against a stash of one exercises the sampling.  Counters are bounded because
the decay outweighs the votes of a batch.  The table has a short last shard and a
checkpoint without its first shard, and the crash can fall between any two steps.
In `mamba_slots` the two requests share their first two tokens, one track interval, so one hits
the checkpoint of the other and both try to cache the same prefix; each is admitted
up to twice between two flushes (`MaxAdmits`), which includes re-admission after a
retraction or an answer and a hit of its own checkpoint.  With full buffers the extend
tracks inside its chunk and the decode after it reaches the next boundary while the
extend's result is unprocessed.  Seven slots are two full requests and one for a
donation, so checkpoints must be evicted for progress; two int8 slots are fewer than
the prefixes to cache.  `GenMod` generations suffice because at most two forwards are
outstanding.

In `ple_batch` the texts have an end of text inside a window, the common prefix is longer
than a track interval, chunks are shorter and longer than the n-gram window, and the
drafts of a verification are all words of its length, right and wrong.  In `kv_pools` two
slots suffice to swap or chain a move and a third one to be left alone; the tiled copy
takes one or two locations per launch, the offload one per chunk, so that both are split;
a call takes up to `MaxPlaces` (two) locations, enough to swap and to split;
one hybrid stage starts at layer 4 and stores layers 5 and 7, so that layer counts and
stored layers differ; blocks of two make a four-token page the interleaved layout.  In
`qsa_topk` windows start inside a tile, there are fewer tiles than thread blocks and more,
a query sees no key yet, a width cuts the last block, a decode row ends inside a page and
another one before the tile does.  In `expert_select` four experts are two groups of two
or two ranks of two, with six physical ones where replicas exist; biases are negative
enough for zero to win against a masked group; rank 1 of two is the one whose slots come after a
neighbour's.

Fairness (`LiveSpec`).  Weak fairness of the hook's steps: the serving thread runs
on.  Strong fairness of the shrink: `load_model` calls it before serving.  Strong
fairness of an eager forward of the target: prefills keep coming; without one there
is no demand and the property is vacuous.  Copies do not fail in this run: an expert
whose copy always fails is never staged.

Deadlock is checked except in `qsa_topk` and `expert_select`, where a launch or a row is
done at the end; a refused shrink is a stuttering end state.

## 4. Findings

* **Row 0 under Phase B** (`cold_pool_degrade_intact`).  `_phase_b` recognises
  demoted experts by `row >= keep_len`, but `_mask` leaves row 0 in the table.  The
  second demotion marks row 0 as the oldest victim while its expert is routable.
  Phase B is off by default (`SGLANG_COLD_DEGRADE`).
* **Recreated table** (`ple_table_remove`).  Allocation precedes the sidecar check, whose
  only look at the table is its size.

Known limits.  The runs exclude the first two by their constants, and the next two are stated by
the properties as the code has them:

* Rows of a shard outside the rank's window count as landed (`qwen4_exp.py` 2034), so a checkpoint
  without some of the window's rows may be sealed, against the comment at 2230.  With WinStart = 1
  and WinEnd = 4 in `PleTable.cfg` TLC finds `SidecarTruthful` and `DataBeforeSeal` violated.  A rank
  with the whole vocabulary, as in every unit of this repository, is not affected.
* The sidecar of the previous checkpoint is not removed before the table is rewritten: if that
  rewrite is killed and the first checkpoint returns unchanged, torn rows validate and are served.
  With Restore = TRUE in `PleTable.cfg` TLC finds `ServedTableFresh` violated.
* The remap to per-rank shared slots gives the shared expert the weight 1/rsf whether or not the
  output is multiplied by rsf afterwards.  Where the factor went into the routed weights, the shared
  expert counts 1/rsf instead of once, as the note at `topk.py` 1883 says of ModelOpt NVFP4 and
  cutlass/trtllm-routed fp8.  `IsShare` has that weight, and `MCConfigs` such a layer.
* On the solver's path no copy is made for the distribution recorder (`topk.py` 1939-1955, 1996), and
  the remap to shared slots shifts the row in place (1858): the recorder counts ids of the layout with
  slots, against the comment at 1966.  `RecorderRow` says so, and `MCConfigs` has such a layer.

Others:

* A batch that holds only padding overwrites the stash of the batch before it (`expert_cold_pool.py`
  377), so that demand is lost; it is a statistic, and the runs include such batches.
* With Phase B on, protected rows are never released (`expert_cold_pool.py` 732): once every slot is
  protected no cold expert is staged again.  No document promises otherwise.
* `seen_tick` starts at -1e9, so Phase B demotes on its first tick; the design document
  asks for W steps without demand.
* A quantized pool inherits host copies without scales, and with
  `SGLANG_NATIVE_MOVE_KV_CACHE` the flat MXFP8 scales are moved twice.  No unit of this
  repository takes these paths; `kv_pools` has the complete ones.
* The masked store of `set_kv_buffer` (`memory_pool.py` 2483-2501) addresses flat rows and returns
  before the HND and page-major stores are reached; `SetKvBuffer` has the caller's mask for the flat
  MHA layout only, and the MLA pool's own filter (`RankShares`).
* In `QsaTopK` a key's score does not depend on the row that asks for it, so a kernel that wrote one
  row's scores to another row of the same request and window would not be noticed.
* A row that selects staged experts only casts no vote for demand (`expert_cold_pool.py` 774);
  `DemandServed` says nothing of such rows.
* `precomputed_topk_postprocess_is_noop` does not ask for the cold pool; no model here
  brings its own router to a shrunk layer.
* `arm_plefile` of `switch_fp8kv_coldpool.sh` edits the first `--ple-offload-embedding` of
  the unit, which is a comment in the unit of this repository; its assertion then stops
  `on` half way, and a second attempt succeeds.

The passing runs and the proofs state exactly the conditions under which the same
properties hold: Phase B off; no removed table, no returning checkpoint, and a rank
with the whole vocabulary (the deployment of this repository, one GPU) or, for
`DataBeforeSeal`, complete checkpoints.

## 5. The proofs

The theorems hold for every value of the constants that satisfies the ASSUMEs; a hypothesis
beyond them is named in the theorem.  `ProtectedPinned`, `DataBeforeSeal`
and `ImplementsStore` are properties of steps or of whole behaviours, the other ones
invariants.  Every inductive invariant below was checked by TLC on the
run of its module before it was proved.

| Module | Theorems | Inductive invariant | Hypotheses |
|---|---|---|---|
| `ExpertColdPoolProofs` | `TypeCorrect`, `PoolSafe`, `RoutableIntactAlways`, `MaskedParkedAlways`, `StagedVisibleAlways`, `SlotsConservedAlways`, `DraftUntouchedAlways`, `WeakNeverStagedAlways`, `ProtectedPinnedAlways` | `TypeOK`, `PoolInv`; `GateInv`, `WeakInv`, `PinInv` for the last three | `~Degrade` for `PoolInv` and what follows from it, `NeedHits > 0` for `WeakNeverStaged` |
| `PleTableProofs` | `TableTypeCorrect`, `SealSafe`, `SidecarTruthfulAlways`, `ServedTableFreshAlways`, `RewriteHealsAlways`, `DataBeforeSealAlways` | `SealInv`, `RewriteInv` | `Undisturbed` for the sidecar, `Countable` for the seal |
| `MambaSlotsProofs` | `MambaTypeCorrect`, `MapCoherentAlways`, `SlotLedgerAlways` | `SlotInv` | none |
| `MambaContentsProofs` | `CachedTrueAlways`, `RunningTrueAlways`, `PingPongAlways` | `ContentInv`, over `SlotInv` | none |
| `KvPoolProofs` | `KvTypeCorrect`, `KeepsPromiseAlways`, `TransferVisibleAlways`, `ImplementsStoreAlways`, `SlotsBackedAlways`, `WorkspaceHoldsAlways`, `TiledIsMove` | `BaseInv`, `TrueInv`, `BackedInv` | `Complete`; `Roomy` for the workspace |
| `PleBatchProofs` | `StateTrueAlways`, `CacheTrueAlways`, `LookupTrueAlways`, `PendingStatesTrue` | `PleInv` | none |
| `QsaTopKProofs` | `MatchesReferenceAlways`, `ExpansionsAgree`, `TokensSoundAlways` | `LaunchInv`, `SelectInv` | none |
| `ExpertSelectProofs` | `RowInvariant`, `TypeCorrect`, `PaddedSilentAlways`, `AddressedAlways`, `SelectsBestAlways` | `RowInv` | none |

### The arguments

*Expert cold pool.*  `RoutableIntact` is not inductive: that a stage does not overwrite the
row of a visible expert needs the two books to be inverse to each other (`RowsBooked`,
`ColdBooked`), the free list to hold unowned slots without repetition (`FreeListSound`), and
the row of a running copy to be off the list and unowned (`CopySound`); that no slot is lost
needs `SlotsCovered`.  `QuietStep` disposes of the actions that leave all of this alone; each
of the others has a lemma of its own.  All of it is for Phase B off; with Phase B on
`RoutableIntact` is false (section 4).  What survives Phase B is proved separately: types, and
with `PinInv`, the part of the books that demotion does not break, that a protected row keeps
its expert.  `GateInv` says that a shrunk layer manages the target and nobody else; with
the types of the stash, `DraftUntouched` follows: what reaches the tables comes from the gate, not from the layer id.  `WeakInv` follows an expert below the alpha band
through the vote of the probe, the counter, the candidate list and the copy in progress; it
stays at zero hits, so a threshold of at least one (`NeedHits > 0`) excludes it.  With
`SGLANG_COLD_NEED_HITS=0` every cold expert is a candidate, and the claim is false.

*PLE table.*  The core of `SealSafe` is a counting argument: shards are disjoint and cover the
vocabulary (`ShardsDisjoint`, `ShardsCover`), so the counter equals the number of landed rows,
and a full counter means that every row landed (`FullCount`).  It needs `Undisturbed`: no table
removed, no checkpoint coming back, a rank with the whole vocabulary.  On a rank with a part
of the vocabulary `SidecarTruthful` is false, with returning checkpoints
`ServedTableFresh` is (section 4).  `RewriteInv` needs none
of these: whatever was on the disk, a boot that does not skip writes each row it lands before
it counts it.  `DataBeforeSealAlways` needs `Countable`, the whole vocabulary *or* complete
checkpoints, since otherwise the counter of a partial window may be full before its rows are.

*Mamba slots.*  `SlotLedger` and `MapCoherent` need each other.  What `free_mamba_cache` gives
back is read from the device tables, so the ledger needs the tables to agree with the books; and
that a table entry is not changed under its request needs the ledger.  `SlotInv` adds what the
fields of one request say about each other (`Fields`), and the order of the forwards in flight:
`FlightOrder` says that the newest one carries the current generation, so that with at most two
outstanding and two generations a stale result is never taken for a live one, and
`FlightTracks` that a decode tracks only at boundaries and only into a slot its request has.

`ContentInv` is about what slots hold.  A running request has its tokens in its slot only when
all its forwards have executed (`Settled`); before that a queued forward either sets the slot
itself, or finds its prefix there or right behind its predecessor (`Ready`).  The difficult part
is `Interference`: forwards of requests that are gone still write the slots their row of the
device table names now.  `Spares` says why this is harmless: no such slot is cached, and where
it belongs to a running request, a later forward of that request clears or copies it first.

*KV pools.*  `CellsTrue` says that all tensors of a layer agree on the token of a slot, and that
it is the promised one; `HostTrue` and `LoadedTrue` say the same of host copies and of the layers
a transfer has passed.  The proof goes from the shape of an address function (each tensor of each
class has one row for a slot, flat, paged or interleaved) to a store of some rows
(`Written`) and a move of all of them.  `TiledIsMove` is the reduction for the tiled copy: the launches,
each reading all its rows before it writes, add up to the whole move, because both sides
ascend.  `Complete` excludes exactly the combinations whose calls forget or repeat a tensor: a
prefix commit or a host copy of a quantized pool, a move of the MLA FP4 pool, and the native copy
of an MXFP8 pool whose scales lie flat.  `ImplementsStoreAlways` is the refinement: initial
states map to initial states, and each step maps to one operation of `KvStore` or to none.
`BackedInv` and the division lemmas give `SlotsBacked` for every page size and capacity.
`WorkspaceHoldsAlways` assumes `Roomy`, a workspace with a row for every slot that decoding
may read: nothing in `memory_pool.py` compares the two sizes.

*PLE batches.*  The heart is a fact about rows: a row that begins with the state after a history
`h` and goes on with tokens `w` (`NgramRow`, `ConvRow`) is a window on `h \o w`, so what is cut
from it after `n` tokens is the state after `h` and those (`Gathered`), and what a token reads is
what it would read in the whole text (`RowLooksTrue`, with the end-of-text rule in `ShiftTrue`).
The rest is layout.  `Feeds` says that a row holds its tokens and no others: for a prefill because
the running sums separate the rows (`ExtendLanding`), for decode and verification because all
rows have one width (`UniformLanding`).  `Serves` then says of a forward that each row either
moves its own request or writes only slot 0; empty chunks and padding rows are of the second
kind, and `Committed` follows.  `PleInv` adds the two places where a state waits: the track slot
until it is donated (`TrackTrue`), and the states of a verification until some of its drafts are
accepted (`VerifyTrue`, which covers the rejected ones too, since it is not known yet which they
are).  A request that is verified cannot finish before, because `VerifyTrue` keeps it short of its
text's end.

*QSA top-k.*  Rounded shares of the tiles are consecutive, so every tile has exactly one thread
block (`SharesCover`), and every key of a row's window lies in a tile of its block of rows;
for decode, `DecodeKey` shows that the page a tile loads at an offset is the page of the key.
`LaunchInv` then says, cell by cell, what the thread blocks that have run have left there and
what the mask has removed.  The score of a column is the score of the query's own request, because
windows do not overlap.  For the expansion, `Laid` describes the result once: tokens of the
blocks, then the unfinished block, then holes.  The kernel is `Laid` by its definition and the
reference by counting smaller sort keys; `ExpansionsAgree` follows, and `TokensSoundAlways` is
read off `Laid` and `Selection`, what any top-k may return.

*Expert selection.*  `RowInv` says of a delivered row all that the four properties say; a row is
delivered in one step, so the work is in the stages, not in the induction.  What a gate hands on is
a `GateRow`: each expert of the selection in one routed column, the shared expert behind them.
What is delivered is a `Result`: the same experts, each at a place of its own.  Each stage between them
has a lemma that says what it does to each column (`ReplicatedRow`, `MaskedRow`, `ZeroedRow`, `RemappedRow`, `AppendedRow`, `ColdRow`), and
`CudaPost` and `HipPost` compose them in the order of the platform.  That the order matters shows
in two places: a mask of -1 must stay negative when the ids are shifted by shared slots
(`MaskShift`, division rounds down), and weights are zeroed after the shared expert is appended.
`Addressed` is arithmetic of the layout by rank (`BlockAddress`: the quotient and remainder by the
number of local experts), and that no place is addressed twice is its uniqueness
(`ShiftedApart`, from `Digits`) together with disjoint replicas.  `GateBest` treats the gates one
by one: masked experts score below all others and the groups kept hold enough experts
(`GroupsHold`), so that no fill value ever takes the place of an expert that may be selected.

### Only model-checked

* `DemandServed`: liveness under fairness, out of the prover's reach.
* Phase B on: the pool's invariants other than types, demand and protected rows.
* `SharedOnce`: the weights of a row are quotients by a sum over the selection
  (`MapThenSumSet`), and the property adds up the columns with a fold; that the two agree is an
  induction over the selection, which the provers cannot do.

## 6. Plan

1. Done: all modules with their runs; proofs of every safety property of `ExpertColdPool`,
   `PleTable`, `MambaSlots`, `KvPool`, `QsaTopK` and `PleBatch`, and of `ExpertSelect` but for
   `SharedOnce`, under the hypotheses above.
2. Open: forward dispatch and elastic rejoin of the model runner, the scheme switch with its
   roll-back, and the predecessor of the cold pool.

## 7. Not modelled

* The prefetch of embeddings on a second CUDA stream (`start_prefetch`,
  `_consume_prefetched_embeddings`): its order rests on two stream waits and on the
  caching allocator, neither of which is in the repository.
* The deploy and switch scripts and the patchers: text edits of files on a host.  The
  model runner's start-up, memory sizing and rejoin of ranks: configuration and calls into
  libraries.  Expert tier v1: replaced by the cold pool and not loaded by any unit.
* ReplaySSM cursors, speculative state of the mamba pool, `clone_with_new_mamba`: off in
  every configuration here.
* Numerical kernels, quantisation arithmetic, benchmarks and probes, madvise hints.
