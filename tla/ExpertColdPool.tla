--------------------------- MODULE ExpertColdPool ---------------------------
(***************************************************************************)
(* Dynamic load and eviction of mixture-of-experts weights, as done by     *)
(* patches/expert_cold_pool.py and its hooks in runtime-src/topk.py        *)
(* (select_experts) and runtime-src/model_runner.py (load_model, forward). *)
(*                                                                         *)
(* One layer is modelled: layers share no state but the dirty flag and the *)
(* call counter.  Every expert g in 0..E-1 has weights in several tensors. *)
(* At load time the tensors are cut down to the rows of the kept experts   *)
(* plus Slots spare rows; the other, cold, experts live in host memory.    *)
(* Two tables steer the router: `bias` hides an expert, `remap` gives the  *)
(* row of a visible one.  After a forward step a hook counts the demand    *)
(* for cold experts and copies wanted ones into spare rows.                *)
(*                                                                         *)
(* The hook is split into its steps, so that an invariant speaks about the *)
(* tables and the rows between any two of them.                            *)
(***************************************************************************)
EXTENDS Integers, Sequences, FiniteSets, SequencesExt

CONSTANTS
    E,              \* number of experts of the layer
    Keep,           \* kept experts, the sorted list of the keep mask
    Slots,          \* SGLANG_EXPERT_COLD_POOL_SLOTS
    TopK,           \* experts selected per token
    Tensors,        \* whitelisted per-expert tensors, ALL_PARAMS
    Unlisted,       \* a per-expert tensor outside the whitelist
    Dtypes,         \* dtypes with a bias column
    Tokens,         \* kinds of tokens
    Score,          \* Score[token][g]: raw router score, before the bias
    MinRows,        \* 0 when batches of padding only occur (idle DP ranks)
    MaxRows,        \* bound: valid rows of a batch
    StashRows,      \* _STASH_ROWS, rows kept of a batch
    HookPeriod,     \* the hook scans every HookPeriod-th call
    NeedHits,       \* SGLANG_COLD_NEED_HITS
    MaxStage,       \* SGLANG_COLD_MAX_STAGE
    AlphaNum, AlphaDen,   \* SGLANG_COLD_STRONG_ALPHA as a fraction
    DecayNum, DecayDen,   \* SGLANG_COLD_EMA_DECAY as a fraction
    Unit,           \* fixed-point unit of the demand counters
    StageFaults,    \* may a copy into a row fail?
    Degrade,        \* SGLANG_COLD_DEGRADE
    Window          \* SGLANG_COLD_DEGRADE_WINDOW

NoRow == -1
NoGid == -1
NoTick == -1
Junk == -1          \* bytes of a row nobody wrote (torch.empty)

Gids == 0 .. (E - 1)
KeepLen == Len(Keep)
KeepSet == {Keep[i] : i \in 1 .. KeepLen}
Cold == Gids \ KeepSet
Phys == KeepLen + Slots
Rows == 0 .. (Phys - 1)
SlotRows == KeepLen .. (Phys - 1)
Dynamic == Slots > 0

\* Ranks of row_tick: staged rows carry a rank in 1..Phys, a row staged in
\* the current tick the rank Now, a demoted row the tick -1e9.
Now == Phys + 1
Oldest == 0

ASSUME SizeAssumption ==
    /\ E \in Nat \ {0}
    /\ Slots \in Nat
    /\ TopK \in Nat \ {0}

\* The keep list is sorted without repetitions and holds at least as many
\* experts as the router selects, else masked ones would have to be selected.
ASSUME KeepAssumption ==
    /\ Keep \in Seq(Gids)
    /\ Len(Keep) >= TopK
    /\ \A i, j \in 1 .. Len(Keep) : i < j => Keep[i] < Keep[j]

ASSUME TensorAssumption ==
    /\ Unlisted \notin Tensors
    /\ IsFiniteSet(Tensors)
    /\ Dtypes # {}

ASSUME DemandAssumption ==
    /\ Score \in [Tokens -> [Gids -> Nat]]
    /\ MinRows \in Nat
    /\ MaxRows \in Nat \ {0}
    /\ StashRows \in Nat \ {0}
    /\ HookPeriod \in Nat \ {0}
    /\ NeedHits \in Nat
    /\ MaxStage \in Nat
    /\ {AlphaNum, AlphaDen, DecayNum, DecayDen, Unit} \subseteq Nat \ {0}
    /\ {StageFaults, Degrade} \subseteq BOOLEAN
    /\ Window \in Nat

VARIABLES
    phase,      \* "loaded", "serving" (_STATE["shrunk"]) or "aborted"
    tensors,    \* per-expert tensors of the loaded module
    hasTopk,    \* does the module's block carry a topk_config?
    managed,    \* _CFG_LIDS: configs the identity gate knows
    weights,    \* weights[row][tensor]: whose bytes the row holds
    host,       \* pool.host[gid][tensor], {} when the expert has no host copy
    bias,       \* bias[dtype][gid]: TRUE when masked (finfo.min)
    remap,      \* _REMAP_CACHE
    gid_row, row_gid, row_tick, free_rows, protected,   \* LayerPool
    row_order,  \* position of a row among the keys of row_tick, 0 if absent
    need,       \* pool.need_counts, in units of 1/Unit
    tick,       \* pool.tick, saturating at Window + 1
    seen_age,   \* tick - seen_tick of the kept experts, saturating
    stash,      \* _STASH: the rows of the last eager forward, <<>> when read
    dirty,      \* _DIRTY
    calls,      \* stats["calls"] modulo HookPeriod
    pc,         \* where the serving thread is
    todo,       \* experts the running scan still has to treat
    cur, dst,   \* expert and row of the copy in progress
    copied,     \* tensors of that copy already written
    flat        \* experts selected in the stash the scan read

modelVars == <<phase, tensors, hasTopk, managed>>
tableVars == <<bias, remap>>
ownerVars == <<gid_row, row_gid, row_tick, row_order>>
demandVars == <<need, tick, seen_age, stash, dirty, calls>>
copyVars == <<cur, dst, copied>>
vars == <<modelVars, weights, host, tableVars, ownerVars, free_rows,
          protected, demandVars, pc, todo, copyVars, flat>>

-----------------------------------------------------------------------------
(* Tables. *)

Shrunk == phase = "serving"

\* Mutant of IsManagedConfig: a gate that goes by the layer id.
ManagedLayer(cfg) == Shrunk

\* The identity gate: draft models reuse the layer ids of the target in the
\* same process, so the gate goes by the config object.
IsManagedConfig(cfg) == Shrunk /\ cfg \in managed

\* The row the expert kernel of a model reads for a selected expert.
RowOf(cfg, g) == IF IsManagedConfig(cfg) THEN remap[g] ELSE g

\* Experts the router of a model can select when its logits have dtype d.
Routable(cfg, d) == IF IsManagedConfig(cfg) THEN {g \in Gids : ~bias[d][g]} ELSE Gids

\* build_tables: one bias column per dtype, and the keep index of each
\* kept expert; everything else is masked and points at row 0.
KeepBias == [d \in Dtypes |-> [g \in Gids |-> g \notin KeepSet]]
KeepRemap == [g \in Gids |-> IF g \in KeepSet
                             THEN (CHOOSE i \in 1 .. KeepLen : Keep[i] = g) - 1
                             ELSE 0]

\* Mutant of Unmask: only one dtype column is opened.
UnmaskOneColumn(g, row) ==
    /\ remap' = [remap EXCEPT ![g] = row]
    /\ \E d \in Dtypes : bias' = [bias EXCEPT ![d][g] = FALSE]

\* _unmask: the staged row goes into the table, every column is opened.
Unmask(g, row) ==
    /\ remap' = [remap EXCEPT ![g] = row]
    /\ bias' = [d \in Dtypes |-> [bias[d] EXCEPT ![g] = FALSE]]

\* Mutants of Mask: a sentinel in the table; the table entry left in place.
MaskSentinel(g) ==
    /\ remap' = [remap EXCEPT ![g] = NoRow]
    /\ bias' = [d \in Dtypes |-> [bias[d] EXCEPT ![g] = TRUE]]

MaskBiasOnly(g) ==
    /\ bias' = [d \in Dtypes |-> [bias[d] EXCEPT ![g] = TRUE]]
    /\ UNCHANGED remap

\* _mask: back to row 0, every column is closed.  One step, since no router runs
\* inside the hook on its thread, and a stage touches the bytes only after it.
Mask(g) ==
    /\ remap' = [remap EXCEPT ![g] = 0]
    /\ bias' = [d \in Dtypes |-> [bias[d] EXCEPT ![g] = TRUE]]

-----------------------------------------------------------------------------
(* Loading: maybe_shrink_after_process. *)

Init ==
    /\ phase = "loaded"
    /\ tensors \in {Tensors, Tensors \cup {Unlisted}}
    /\ hasTopk \in BOOLEAN
    /\ managed = {}
    /\ weights = [r \in Gids |-> [t \in tensors |-> r]]
    /\ host = [g \in Gids |-> [t \in {} |-> Junk]]
    /\ bias = KeepBias
    /\ remap = KeepRemap
    /\ gid_row = [g \in Gids |-> NoRow]
    /\ row_gid = [r \in Rows |-> NoGid]
    /\ row_tick = [r \in Rows |-> NoTick]
    /\ row_order = [r \in Rows |-> 0]
    /\ free_rows = [i \in 1 .. Slots |-> KeepLen + i - 1]
    /\ protected = {}
    /\ need = [g \in Gids |-> 0]
    /\ tick = 0
    /\ seen_age = [g \in KeepSet |-> Window + 1]
    /\ stash = <<>>
    /\ dirty = FALSE
    /\ calls = 0
    /\ pc = "ready"
    /\ todo = <<>>
    /\ cur = NoGid
    /\ dst = NoRow
    /\ copied = {}
    /\ flat = {}

\* Mutant of InventoryClean: no gate.
InventoryUnchecked == TRUE

\* _inventory_gate: a per-expert tensor the shrink would not move.
InventoryClean == tensors \subseteq Tensors

\* Row r of tensor t after the cut.  A tensor the shrink does not know keeps
\* its E rows in the original order.
ShrunkRow(r, t) ==
    IF t \in Tensors
    THEN IF r < KeepLen THEN Keep[r + 1] ELSE Junk
    ELSE IF r < E THEN r ELSE Junk

Shrink ==
    /\ phase = "loaded" /\ pc = "ready"
    /\ Cold # {}
    /\ InventoryClean
    /\ hasTopk
    /\ phase' = "serving"
    /\ managed' = managed \cup {"target"}
    /\ weights' = [r \in Rows |-> [t \in tensors |-> ShrunkRow(r, t)]]
    /\ host' = [g \in Gids |-> IF g \in Cold
                               THEN [t \in tensors \cap Tensors |-> g]
                               ELSE [t \in {} |-> Junk]]
    /\ bias' = KeepBias
    /\ remap' = KeepRemap
    /\ UNCHANGED <<tensors, hasTopk, ownerVars, free_rows, protected,
                   demandVars, pc, todo, copyVars, flat>>

\* A refused shrink raises and the server does not start.
RefuseShrink ==
    /\ phase = "loaded" /\ pc = "ready"
    /\ Cold # {}
    /\ ~InventoryClean \/ ~hasTopk
    /\ phase' = "aborted"
    /\ UNCHANGED <<tensors, hasTopk, managed, weights, host, tableVars,
                   ownerVars, free_rows, protected, demandVars, pc, todo,
                   copyVars, flat>>

Aborted == phase = "aborted" /\ UNCHANGED vars

-----------------------------------------------------------------------------
(* Routing: select_experts. *)

\* Selections the router can make for a token among the routable experts;
\* ties may fall either way.
TopKSets(tok, avail) ==
    {s \in SUBSET avail :
        /\ Cardinality(s) = TopK
        /\ \A g \in s, h \in avail \ s : Score[tok][g] >= Score[tok][h]}

StashRow == [cfg : {"target", "draft"}, tok : Tokens, sel : SUBSET Gids]

BatchRows(cfg, d) ==
    UNION {{[cfg |-> cfg, tok |-> t, sel |-> s] : s \in TopKSets(t, Routable(cfg, d))}
           : t \in Tokens}

\* A batch larger than the stash is sampled with a stride.
Sampled(batch) ==
    LET stride == (Len(batch) + StashRows - 1) \div StashRows
    IN  IF Len(batch) <= StashRows
        THEN batch
        ELSE [i \in 1 .. ((Len(batch) + stride - 1) \div stride) |->
                 batch[(i - 1) * stride + 1]]

\* An eager forward: the demand of the target's own routers replaces the
\* stash.  A batch of padding only leaves it empty.
EagerForward(cfg) ==
    /\ phase # "aborted" /\ pc = "ready"
    /\ IF IsManagedConfig(cfg) /\ Dynamic
       THEN /\ \E d \in Dtypes, n \in MinRows .. MaxRows :
                  \E batch \in TupleOf(BatchRows(cfg, d), n) :
                     stash' = Sampled(batch)
            /\ dirty' = TRUE
       ELSE UNCHANGED <<stash, dirty>>
    /\ pc' = "tail"
    /\ UNCHANGED <<modelVars, weights, host, tableVars, ownerVars, free_rows,
                   protected, need, tick, seen_age, calls, todo, copyVars,
                   flat>>

\* A captured decode graph replays without the Python of select_experts.
ReplayForward ==
    /\ phase # "aborted" /\ pc = "ready"
    /\ pc' = "tail"
    /\ UNCHANGED <<modelVars, weights, host, tableVars, ownerVars, free_rows,
                   protected, demandVars, todo, copyVars, flat>>

-----------------------------------------------------------------------------
(* The hook at the tail of model_runner.forward: after_forward_hook. *)

\* The throttle is tested before the dirty flag is consumed.
ScanDue == calls' = 0 /\ dirty

\* Mutant of HookEntry: the dirty flag is consumed before the throttle.
HookEntryConsumesFirst ==
    /\ pc = "tail"
    /\ IF Shrunk /\ Dynamic
       THEN /\ calls' = (calls + 1) % HookPeriod
            /\ dirty' = FALSE
            /\ pc' = IF ScanDue THEN "scan" ELSE "ready"
       ELSE pc' = "ready" /\ UNCHANGED <<calls, dirty>>
    /\ UNCHANGED <<modelVars, weights, host, tableVars, ownerVars, free_rows,
                   protected, need, tick, seen_age, stash, todo, copyVars,
                   flat>>

HookEntry ==
    /\ pc = "tail"
    /\ IF Shrunk /\ Dynamic
       THEN /\ calls' = (calls + 1) % HookPeriod
            /\ dirty' = (dirty /\ calls' # 0)
            /\ pc' = IF ScanDue THEN "scan" ELSE "ready"
       ELSE pc' = "ready" /\ UNCHANGED <<calls, dirty>>
    /\ UNCHANGED <<modelVars, weights, host, tableVars, ownerVars, free_rows,
                   protected, need, tick, seen_age, stash, todo, copyVars,
                   flat>>

\* Mutant of InBand: any demand counts as strong.
InBandAny(row, g) == row.sel \cap KeepSet # {}

\* alpha-band test of a cold expert against the weakest kept expert the row
\* selected; a row without a kept expert has an infinite threshold.
InBand(row, g) ==
    \E h \in row.sel \cap KeepSet :
        Score[row.tok][g] * AlphaDen >= AlphaNum * Score[row.tok][h]

Staged(g) == gid_row[g] # NoRow

StrongHits(g) ==
    Cardinality({i \in DOMAIN stash : g \in stash[i].sel /\ InBand(stash[i], g)})

\* The probe of the raw logits: per row the best cold expert of the band
\* that is not staged.
Probed(row) ==
    LET band == {g \in Cold : ~Staged(g) /\ InBand(row, g)}
    IN  IF band = {} THEN NoGid
        ELSE CHOOSE g \in band : \A h \in band : Score[row.tok][g] >= Score[row.tok][h]

ProbeHits(g) == Cardinality({i \in DOMAIN stash : Probed(stash[i]) = g})

\* Probe votes are cast before the decay, votes of selected experts after.
Tallied(g) ==
    ((need[g] + Unit * ProbeHits(g)) * DecayNum) \div DecayDen
        + Unit * StrongHits(g)

\* Orders in which argsort may put the candidates.
Rankings(S, val) ==
    {q \in SetToSeqs(S) : \A i, j \in DOMAIN q : i < j => val[q[i]] >= val[q[j]]}

Prefix(q, n) == SubSeq(q, 1, IF n < Len(q) THEN n ELSE Len(q))

\* pool.tick += 1.  The code only compares row ticks, so the ranks are
\* renumbered and the current tick keeps the rank Now.
AgedTicks ==
    [r \in Rows |->
        IF row_tick[r] <= Oldest THEN row_tick[r]
        ELSE 1 + Cardinality({q \in Rows : /\ row_tick[q] > Oldest
                                           /\ row_tick[q] < row_tick[r]
                                           /\ \A p \in Rows : row_tick[p] = row_tick[q] => q <= p})]

AgeUpTo(n) == IF n > Window THEN Window + 1 ELSE n + 1

AdvanceTick ==
    /\ row_tick' = AgedTicks
    /\ tick' = AgeUpTo(tick)
    /\ seen_age' = [g \in KeepSet |-> AgeUpTo(seen_age[g])]

\* Fewer than TopK stashed ids: the layer is skipped.
ScanSkip ==
    /\ pc = "scan"
    /\ stash = <<>>
    /\ AdvanceTick
    /\ pc' = "ready"
    /\ UNCHANGED <<modelVars, weights, host, tableVars, gid_row, row_gid,
                   row_order, free_rows, protected, need, stash, dirty, calls, todo,
                   copyVars, flat>>

ScanTally ==
    /\ pc = "scan"
    /\ stash # <<>>
    /\ AdvanceTick
    /\ need' = [g \in Gids |-> IF g \in Cold THEN Tallied(g) ELSE need[g]]
    /\ \E q \in Rankings({g \in Cold : need'[g] >= NeedHits * Unit}, need') :
          todo' = Prefix(q, MaxStage)
    /\ flat' = UNION {stash[i].sel : i \in DOMAIN stash}
    /\ stash' = <<>>
    /\ pc' = "stage"
    /\ UNCHANGED <<modelVars, weights, host, tableVars, gid_row, row_gid,
                   row_order, free_rows, protected, dirty, calls, copyVars>>

\* Each candidate's counter is reset before anything else.
TakeCandidate ==
    /\ pc = "stage"
    /\ todo # <<>>
    /\ need' = [need EXCEPT ![Head(todo)] = 0]

StageSkip ==
    /\ TakeCandidate
    /\ Staged(Head(todo))
    /\ todo' = Tail(todo)
    /\ UNCHANGED <<modelVars, weights, host, tableVars, ownerVars, free_rows,
                   protected, tick, seen_age, stash, dirty, calls, pc,
                   copyVars, flat>>

BeginCopy(g, row) ==
    /\ cur' = g
    /\ dst' = row
    /\ copied' = {}
    /\ todo' = Tail(todo)
    /\ pc' = "copy"

\* _pick_row: the head of the free list.
StageFree ==
    /\ TakeCandidate
    /\ ~Staged(Head(todo))
    /\ free_rows # <<>>
    /\ free_rows' = Tail(free_rows)
    /\ BeginCopy(Head(todo), Head(free_rows))
    /\ UNCHANGED <<modelVars, weights, host, tableVars, ownerVars, protected,
                   tick, seen_age, stash, dirty, calls, flat>>

\* Mutant of Evictable: protection is forgotten.
EvictableAll == {r \in Rows : row_tick[r] # NoTick}

\* Rows _pick_row may take back: the oldest tick among the unprotected.
\* Among equal ticks the first key of row_tick wins.
Evictable == {r \in Rows : row_tick[r] # NoTick /\ r \notin protected}
Victims ==
    {r \in Evictable : \A q \in Evictable :
        \/ row_tick[r] < row_tick[q]
        \/ row_tick[r] = row_tick[q] /\ row_order[r] <= row_order[q]}

\* row_tick[row] = t; a new key goes behind the others and keys never leave.
SetTick(row, t) ==
    /\ row_tick' = [row_tick EXCEPT ![row] = t]
    /\ row_order' =
          IF row_tick[row] # NoTick THEN row_order
          ELSE [row_order EXCEPT ![row] =
                   1 + Cardinality({r \in Rows : row_tick[r] # NoTick})]

\* Mutant of EvictRow: the row keeps its owner on the books.
EvictRowKeepsOwner(row) ==
    IF row_gid[row] = NoGid
    THEN UNCHANGED <<tableVars, gid_row, row_gid>>
    ELSE /\ Mask(row_gid[row])
         /\ gid_row' = [gid_row EXCEPT ![row_gid[row]] = NoRow]
         /\ UNCHANGED row_gid

\* _evict_row: the old owner is masked before the row may be overwritten.
EvictRow(row) ==
    IF row_gid[row] = NoGid
    THEN UNCHANGED <<tableVars, gid_row, row_gid>>
    ELSE /\ Mask(row_gid[row])
         /\ gid_row' = [gid_row EXCEPT ![row_gid[row]] = NoRow]
         /\ row_gid' = [row_gid EXCEPT ![row] = NoGid]

StageEvict ==
    /\ TakeCandidate
    /\ ~Staged(Head(todo))
    /\ free_rows = <<>>
    /\ \E victim \in Victims : EvictRow(victim) /\ BeginCopy(Head(todo), victim)
    /\ UNCHANGED <<modelVars, weights, host, row_tick, row_order, free_rows,
                   protected, tick, seen_age, stash, dirty, calls, flat>>

\* No row to give: the loop over the candidates breaks.
StageNoRow ==
    /\ TakeCandidate
    /\ ~Staged(Head(todo))
    /\ free_rows = <<>>
    /\ Evictable = {}
    /\ todo' = <<>>
    /\ UNCHANGED <<modelVars, weights, host, tableVars, ownerVars, free_rows,
                   protected, tick, seen_age, stash, dirty, calls, pc,
                   copyVars, flat>>

\* _row_from_host, one tensor after the other.
CopyTensor ==
    /\ pc = "copy"
    /\ \E t \in DOMAIN host[cur] \ copied :
          /\ weights' = [weights EXCEPT ![dst][t] = host[cur][t]]
          /\ copied' = copied \cup {t}
    /\ UNCHANGED <<modelVars, host, tableVars, ownerVars, free_rows, protected,
                   demandVars, pc, todo, cur, dst, flat>>

CopyDone ==
    /\ pc = "copy"
    /\ copied = DOMAIN host[cur]
    /\ gid_row' = [gid_row EXCEPT ![cur] = dst]
    /\ row_gid' = [row_gid EXCEPT ![dst] = cur]
    /\ SetTick(dst, Now)
    /\ Unmask(cur, dst)
    /\ pc' = "stage"
    /\ cur' = NoGid /\ dst' = NoRow /\ copied' = {}
    /\ UNCHANGED <<modelVars, weights, host, free_rows, protected, demandVars,
                   todo, flat>>

\* Mutant of ReturnRow: the row of a failed copy is dropped.
ReturnRowNever(row) == free_rows' = free_rows

\* _return_row: a row nobody owns goes back to the free list.
ReturnRow(row) ==
    free_rows' = IF row_gid[row] = NoGid /\ ~Contains(free_rows, row)
                 THEN Append(free_rows, row)
                 ELSE free_rows

\* A tensor that cannot take the row ends the copy; what was written stays.
CopyFail ==
    /\ pc = "copy"
    /\ StageFaults
    /\ copied # DOMAIN host[cur]
    /\ ReturnRow(dst)
    /\ pc' = "stage"
    /\ cur' = NoGid /\ dst' = NoRow /\ copied' = {}
    /\ UNCHANGED <<modelVars, weights, host, tableVars, ownerVars, protected,
                   demandVars, todo, flat>>

StageDone ==
    /\ pc = "stage"
    /\ todo = <<>>
    /\ pc' = IF Degrade THEN "degrade" ELSE "ready"
    /\ flat' = IF Degrade THEN flat ELSE {}
    /\ UNCHANGED <<modelVars, weights, host, tableVars, ownerVars, free_rows,
                   protected, demandVars, todo, copyVars>>

-----------------------------------------------------------------------------
(* Phase B, off by default: _phase_b. *)

\* Kept experts not seen for more than Window ticks, in keep order.
Starved(age) ==
    Rankings({g \in KeepSet : age[g] > Window}, [g \in Gids |-> -g])

DegradeScan ==
    /\ pc = "degrade"
    /\ seen_age' = [g \in KeepSet |-> IF g \in flat THEN 0 ELSE seen_age[g]]
    /\ \E q \in Starved(seen_age') : todo' = Prefix(q, 2)
    /\ flat' = {}
    /\ pc' = "demote"
    /\ UNCHANGED <<modelVars, weights, host, tableVars, ownerVars, free_rows,
                   protected, need, tick, stash, dirty, calls, copyVars>>

\* The row is saved to the host pool, the expert masked, and the row becomes
\* the first to be taken.  An expert whose table row is a slot is skipped.
Demote ==
    /\ pc = "demote"
    /\ todo # <<>>
    /\ LET g == Head(todo)
           row == remap[g]
       IN  IF row >= KeepLen
           THEN UNCHANGED <<host, tableVars, row_gid, row_tick, row_order>>
           ELSE /\ host' = [host EXCEPT ![g] = weights[row]]
                /\ Mask(g)
                /\ row_gid' = [row_gid EXCEPT ![row] = NoGid]
                /\ SetTick(row, Oldest)
    /\ todo' = Tail(todo)
    /\ UNCHANGED <<modelVars, weights, gid_row, free_rows, protected,
                   demandVars, pc, copyVars, flat>>

\* Rows of staged experts with enough demand left are never evicted again.
Promote ==
    /\ pc = "demote"
    /\ todo = <<>>
    /\ protected' = protected \cup
          {gid_row[g] : g \in {h \in Gids : Staged(h) /\ need[h] >= 2 * Unit}}
    /\ pc' = "ready"
    /\ UNCHANGED <<modelVars, weights, host, tableVars, ownerVars, free_rows,
                   demandVars, todo, copyVars, flat>>

-----------------------------------------------------------------------------

HookStep ==
    \/ HookEntry \/ ScanSkip \/ ScanTally
    \/ StageSkip \/ StageFree \/ StageEvict \/ StageNoRow
    \/ CopyTensor \/ CopyDone \/ CopyFail \/ StageDone
    \/ DegradeScan \/ Demote \/ Promote

Next ==
    \/ Shrink \/ RefuseShrink \/ Aborted
    \/ \E cfg \in {"target", "draft"} : EagerForward(cfg)
    \/ ReplayForward
    \/ HookStep

Spec == Init /\ [][Next]_vars

\* The serving thread finishes what it started, the shrink of a loaded model
\* is not put off forever, and requests that need an eager (prefill) forward
\* keep coming.
LiveSpec ==
    /\ Spec
    /\ WF_vars(HookStep)
    /\ SF_vars(Shrink \/ RefuseShrink)
    /\ SF_vars(EagerForward("target"))

-----------------------------------------------------------------------------
(* Properties. *)

\* Every variable keeps its type; after the shrink the weights have Phys
\* rows for good.
TypeOK ==
    /\ phase \in {"loaded", "serving", "aborted"}
    /\ tensors \in {Tensors, Tensors \cup {Unlisted}}
    /\ hasTopk \in BOOLEAN
    /\ managed \in SUBSET {"target", "draft"}
    /\ weights \in [(IF Shrunk THEN Rows ELSE Gids) ->
                        [tensors -> Gids \cup {Junk}]]
    /\ host \in [Gids -> UNION {[T -> Gids \cup {Junk}] : T \in SUBSET tensors}]
    /\ bias \in [Dtypes -> [Gids -> BOOLEAN]]
    /\ remap \in [Gids -> Rows]
    /\ gid_row \in [Gids -> Rows \cup {NoRow}]
    /\ row_gid \in [Rows -> Gids \cup {NoGid}]
    /\ row_tick \in [Rows -> NoTick .. Now]
    /\ row_order \in [Rows -> Nat]
    /\ free_rows \in Seq(Rows)
    /\ protected \in SUBSET Rows
    /\ need \in [Gids -> Nat]
    /\ tick \in 0 .. (Window + 1)
    /\ seen_age \in [KeepSet -> 0 .. (Window + 1)]
    /\ stash \in Seq(StashRow)
    /\ dirty \in BOOLEAN
    /\ calls \in 0 .. (HookPeriod - 1)
    /\ pc \in {"ready", "tail", "scan", "stage", "copy", "degrade", "demote"}
    /\ todo \in Seq(Gids)
    /\ cur \in Gids \cup {NoGid}
    /\ dst \in Rows \cup {NoRow}
    /\ copied \in SUBSET tensors
    /\ flat \in SUBSET Gids
    /\ pc \notin {"ready", "tail"} => Shrunk
    /\ pc = "copy" => cur # NoGid /\ dst # NoRow

\* An expert the router can select, whatever the dtype of its logits, reads
\* rows that hold its own bytes in every per-expert tensor -- at every point
\* of the hook, so also while a row is being overwritten (_evict_row masks
\* first, _row_from_host unmasks last) and with tensors the whitelist does
\* not know (_inventory_gate).
RoutableIntact ==
    phase # "aborted" =>
        \A d \in Dtypes : \A g \in Routable("target", d) : \A t \in tensors :
            weights[RowOf("target", g)][t] = g

\* What build_tables promises of a masked expert: it points at row 0, and
\* row 0 holds a complete, valid expert.
MaskedParked ==
    Shrunk => /\ \A d \in Dtypes, g \in Gids : bias[d][g] => remap[g] = 0
              /\ \A t \in tensors : weights[0][t] = Keep[1]

\* No slot is lost or handed out twice, through stages, evictions and failed
\* copies alike (_pick_row, _return_row): each spare row is free exactly
\* once, or owned, or the target of the copy in progress.
SlotsConserved ==
    \A r \in SlotRows :
        LET free == Cardinality({i \in DOMAIN free_rows : free_rows[i] = r})
            owned == IF row_gid[r] # NoGid THEN 1 ELSE 0
            busy == IF pc = "copy" /\ dst = r THEN 1 ELSE 0
        IN  free + owned + busy = 1

\* A cold expert is visible in every bias column while the pool books it on
\* a row, and in none otherwise, and the two books agree (_unmask and _mask
\* update all columns; _evict_row and _row_from_host both books).
StagedVisible ==
    Shrunk => \A g \in Cold :
        IF Staged(g)
        THEN /\ row_gid[gid_row[g]] = g
             /\ remap[g] = gid_row[g]
             /\ \A d \in Dtypes : ~bias[d][g]
        ELSE /\ \A r \in Rows : row_gid[r] # g
             /\ \A d \in Dtypes : bias[d][g]

\* The inductive invariant behind the four above, with Phase B off.
\* Before the shrink every row is its own expert and the pool is untouched.
Untouched ==
    /\ weights = [g \in Gids |-> [t \in tensors |-> g]]
    /\ gid_row = [g \in Gids |-> NoRow]
    /\ row_gid = [r \in Rows |-> NoGid]
    /\ row_tick = [r \in Rows |-> NoTick]
    /\ free_rows = [i \in 1 .. Slots |-> KeepLen + i - 1]
    /\ todo = <<>>

\* Kept experts never leave their row.
KeptInPlace ==
    \A i \in 1 .. KeepLen :
        /\ remap[Keep[i]] = i - 1
        /\ gid_row[Keep[i]] = NoRow
        /\ \A d \in Dtypes : ~bias[d][Keep[i]]
        /\ \A t \in tensors : weights[i - 1][t] = Keep[i]

\* A cold expert is complete on its slot and visible, or masked at row 0.
ColdBooked ==
    \A g \in Cold :
        IF Staged(g)
        THEN /\ gid_row[g] \in SlotRows
             /\ row_gid[gid_row[g]] = g
             /\ remap[g] = gid_row[g]
             /\ \A d \in Dtypes : ~bias[d][g]
             /\ \A t \in tensors : weights[gid_row[g]][t] = g
        ELSE /\ remap[g] = 0
             /\ \A d \in Dtypes : bias[d][g]

\* Only slots have an owner or a tick, and the owner books them too.
RowsBooked ==
    \A r \in Rows :
        /\ row_gid[r] # NoGid => /\ r \in SlotRows
                                 /\ row_gid[r] \in Cold
                                 /\ gid_row[row_gid[r]] = r
        /\ row_tick[r] # NoTick => r \in SlotRows

\* The free list holds unowned slots, each once.
FreeListSound ==
    /\ free_rows \in Seq(SlotRows)
    /\ \A i \in DOMAIN free_rows : row_gid[free_rows[i]] = NoGid
    /\ \A i, j \in DOMAIN free_rows : free_rows[i] = free_rows[j] => i = j

\* A copy fills an unowned slot off the free list for a masked expert.
CopySound ==
    pc = "copy" =>
        /\ cur \in Cold
        /\ ~Staged(cur)
        /\ dst \in SlotRows
        /\ row_gid[dst] = NoGid
        /\ \A i \in DOMAIN free_rows : free_rows[i] # dst
        /\ \A t \in copied : weights[dst][t] = cur

\* No slot is unaccounted for.
SlotsCovered ==
    \A r \in SlotRows :
        \/ row_gid[r] # NoGid
        \/ pc = "copy" /\ dst = r
        \/ \E i \in DOMAIN free_rows : free_rows[i] = r

PoolInv ==
    /\ ~Shrunk => Untouched
    /\ Shrunk => /\ tensors = Tensors
                 /\ \A g \in Cold : host[g] = [t \in tensors |-> g]
                 /\ todo \in Seq(Cold)
                 /\ pc \notin {"degrade", "demote"}
                 /\ KeptInPlace
                 /\ ColdBooked
                 /\ RowsBooked
                 /\ FreeListSound
                 /\ CopySound
                 /\ SlotsCovered

\* A cold expert that scores below the alpha band of every kept expert for
\* every token is never staged (the strong-demand filter of the hook and of
\* its probe).
Weak(g) ==
    \A tok \in Tokens, h \in KeepSet :
        Score[tok][g] * AlphaDen < AlphaNum * Score[tok][h]

WeakNeverStaged == \A g \in Cold : Weak(g) => ~Staged(g)

\* A draft model shares layer ids and process with the target: its demand never
\* reaches the stash, the tables mask none of its experts and rename none of its
\* ids (the identity gate).
DraftUntouched ==
    /\ \A i \in DOMAIN stash : stash[i].cfg = "target"
    /\ \A d \in Dtypes : Routable("draft", d) = Gids
    /\ \A g \in Gids : RowOf("draft", g) = g

\* A cold expert every token ranks first among the cold ones, and inside the
\* band, is staged again and again: throttle, consumed dirty flag, decay and
\* the stage limit may delay it but not starve it.  Every token must rank a
\* kept expert above the cold ones: a row that selects cold experts only has
\* an infinite threshold and casts no vote.
Insistent(g) ==
    /\ \A tok \in Tokens : \E h \in KeepSet : \A c \in Cold :
          Score[tok][h] > Score[tok][c]
    /\ \A tok \in Tokens, h \in KeepSet :
          Score[tok][g] * AlphaDen >= AlphaNum * Score[tok][h]
    /\ \A tok \in Tokens, h \in Cold \ {g} : Score[tok][g] > Score[tok][h]

DemandServed == \A g \in Cold :
    Insistent(g) => [](Shrunk => <>Staged(g))

\* A protected spare row keeps its expert (_pick_row leaves protected rows
\* out).
ProtectedPinned ==
    [][\A r \in protected \cap SlotRows : row_gid'[r] = row_gid[r]]_vars
=============================================================================
