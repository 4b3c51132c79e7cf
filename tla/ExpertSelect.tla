---------------------------- MODULE ExpertSelect ----------------------------
(***************************************************************************)
(* Expert selection of one token, runtime-src/topk.py: the gate variants,  *)
(* the fused shared expert, the padded rows, and the three layouts an id   *)
(* passes through before the experts run (physical replicas, per-rank      *)
(* shared slots, rows of the cold pool).                                   *)
(*                                                                         *)
(* A score is a small natural number, a weight a pair <<numerator,         *)
(* denominator>>; a column of the result carries the expert it stands for  *)
(* beside the id and the weight the code keeps.  The gate kernels are      *)
(* outside this repository and modelled by the reference code in the same  *)
(* file that they replace.                                                 *)
(***************************************************************************)
EXTENDS Integers, Sequences, FiniteSets, FiniteSetsExt, SequencesExt

CONSTANTS
    E,          \* routed experts of the layer
    MaxScore,
    MaxToken,   \* bound on the position of a token in its batch
    Configs

Experts == 0 .. E - 1
None == <<>>
Shared == E                             \* the fused shared expert
NegInf == -1000                         \* below every score

\* platform: cuda, hip (with aiter).  top_k: columns, the shared expert
\* included.  groups, topk_group: 0 without groups.  bias: correction_bias.
\* scoring: scoring_func.  renorm: renormalize.  n: num_fused_shared_experts.
\* rsf: routed_scaling_factor.  applied: apply_routed_scaling_factor_on_output.
\* scale: fused_shared_experts_scaling_factor is 1 / scale, 0 when not set.
\* slots: per-rank shared slots.  replicas: physical ids of an expert, None
\* without a mapping.  physical: their number.  lp: the EPLB solver dispatches.
\* cold: expert -> row of the cold pool, None when it is not managed; kept: the
\* selectable ones.  fused: the DeepSeek kernel is there.  unmasked:
\* SGLANG_MORI_NO_PAD_MASK.  simulate: benchmark routing.
\* precomputed: the model's own router delivers weights and ids.
ConfigShape ==
    [platform : {"cuda", "hip"}, top_k : 1 .. E + 1, groups : 0 .. E, topk_group : 0 .. E,
     bias : [Experts -> Int] \cup {None}, scoring : {"softmax", "sigmoid"}, renorm : BOOLEAN,
     n : 0 .. 1, rsf : 1 .. 4, applied : BOOLEAN, scale : 0 .. 4,
     slots : BOOLEAN, ep_size : 1 .. E, ep_rank : 0 .. E - 1,
     replicas : [Experts -> SUBSET Nat] \cup {None}, physical : Nat \ {0}, lp : BOOLEAN,
     cold : [Experts -> Experts] \cup {None}, kept : SUBSET Experts,
     fused : BOOLEAN, unmasked : BOOLEAN,
     simulate : {"none", "uniform", "round_robin"}, precomputed : BOOLEAN]

\* A layer has routed experts to choose from, and no bias reaches the score of
\* masked ones.  A physical expert is a replica of one logical one, and the
\* solver dispatches to replicas.  A mapping to replicas never sees the shared
\* expert's id but on the solver's path with shared slots.  aiter serves the
\* biased grouped gate, which asserts that the factor is not applied.
ASSUME LayerAssumption == E \in Nat \ {0} /\ MaxScore \in Nat \ {0} /\ MaxToken \in Nat
ASSUME ConfigAssumption ==
    \A c \in Configs :
        /\ c \in ConfigShape /\ c.top_k - c.n <= E /\ c.ep_rank < c.ep_size
        /\ c.bias # None => \A e \in Experts : c.bias[e] > NegInf
        /\ c.replicas = None => c.physical = E /\ ~c.lp
        /\ c.replicas # None =>
              /\ \A e \in Experts : c.replicas[e] \subseteq 0 .. c.physical - 1
              /\ \A d, e \in Experts : d # e => c.replicas[d] \cap c.replicas[e] = {}
        /\ c.n > 0 /\ c.replicas # None => c.slots
        /\ c.slots => c.n > 0 /\ c.physical % c.ep_size = 0
        /\ c.platform = "hip" => c.bias # None /\ c.groups > 0 /\ ~c.applied /\ c.simulate = "none"
        /\ Cardinality(c.kept) >= c.top_k
\* The plain softmax gate takes neither a bias nor a shared expert, and asserts
\* that the factor is not applied.
ASSUME SoftmaxAssumption ==
    \A c \in Configs : c.groups = 0 /\ c.scoring = "softmax" => c.n = 0 /\ c.bias = None /\ ~c.applied
\* The scores are viewed as equal groups, and the groups kept have enough
\* experts to select.
ASSUME GroupAssumption ==
    \A c \in Configs : c.groups > 0 =>
        /\ E % c.groups = 0 /\ c.topk_group \in 1 .. c.groups
        /\ c.topk_group * (E \div c.groups) >= c.top_k - c.n
\* The pool shrinks layers of Qwen2MoeSparseMoeBlock (expert_cold_pool.py:506),
\* on one rank, and gives the selectable experts rows of their own.
ASSUME ColdAssumption ==
    \A c \in Configs : c.cold # None =>
        /\ c.groups = 0 /\ c.bias = None /\ c.replicas = None /\ ~c.slots
        /\ ~c.precomputed /\ c.simulate = "none"
        /\ \A d, e \in c.kept : d # e => c.cold[d] # c.cold[e]
\* A benchmark routing overwrites every column, a shared expert's too.
ASSUME BenchmarkAssumption == \A c \in Configs : c.simulate # "none" => c.n = 0

VARIABLES
    c,          \* the layer's TopKConfig and the server it runs on
    token,      \* position, scores, whether the row is padding, whether that is known
    out         \* columns, and the ids the distribution recorder gets

vars == <<c, token, out>>

Routed == c.top_k - c.n
Local(p) == p % (c.physical \div c.ep_size)
Rank(p) == p \div (c.physical \div c.ep_size)

----------------------------------------------------------------------------
(* Gates: the sets of routed experts a row of scores may yield             *)

\* torch.topk breaks ties in an unspecified way.
TopSets(f, k) ==
    {X \in kSubset(k, DOMAIN f) : \A x \in X, y \in DOMAIN f \ X : f[x] >= f[y]}

GroupOf(e) == e \div (E \div c.groups)
Members(g) == {e \in Experts : GroupOf(e) = g}
OfGroups(scores, gs, fill) == [e \in Experts |-> IF GroupOf(e) \in gs THEN scores[e] ELSE fill]
MaxScores(scores) == [g \in 0 .. c.groups - 1 |-> Max({scores[e] : e \in Members(g)})]
\* The two best of a group.
PairScores(scores) ==
    [g \in 0 .. c.groups - 1 |->
        Max({scores[p[1]] + scores[p[2]] : p \in {p \in Members(g) \X Members(g) : p[1] # p[2]}})]

\* With a shared expert the columns are sorted and the last one gives way to
\* it; aiter is asked for the routed columns only.
Picked(f) ==
    IF c.n = 0 \/ c.platform = "hip" THEN TopSets(f, Routed)
    ELSE UNION {{X \ {m} : m \in {m \in X : \A x \in X : f[m] <= f[x]}} : X \in TopSets(f, c.top_k)}

GroupedTopk(scores) ==
    UNION {Picked(OfGroups(scores, gs, 0)) : gs \in TopSets(MaxScores(scores), c.topk_group)}

Biased(scores) == [e \in Experts |-> scores[e] + c.bias[e]]
BiasedTopk(scores) == Picked(Biased(scores))

\* Fault: groups that lost keep a score of zero, above a negative bias.
BiasedGroupedTopkZero(scores) ==
    UNION {Picked(OfGroups(Biased(scores), gs, 0)) : gs \in TopSets(PairScores(Biased(scores)), c.topk_group)}
BiasedGroupedTopk(scores) ==
    UNION {Picked(OfGroups(Biased(scores), gs, NegInf)) :
               gs \in TopSets(PairScores(Biased(scores)), c.topk_group)}

\* The DeepSeek kernel selects routed experts only, where its limits allow.
IsPowerOfTwo(n) == \E i \in 0 .. n : n = 2 ^ i
UsesDeepseek ==
    /\ c.platform = "cuda" /\ c.fused /\ c.groups > 0 /\ c.bias # None
    /\ IsPowerOfTwo(E) /\ Routed <= 8
    /\ c.topk_group <= c.groups /\ c.topk_group * c.groups >= Routed
    /\ c.groups > 1 => E \div c.groups <= 32 /\ (E \div c.groups) * c.topk_group <= 128
DeepseekTopk(scores) ==
    UNION {TopSets(OfGroups(Biased(scores), gs, NegInf), Routed) :
               gs \in TopSets(PairScores(Biased(scores)), c.topk_group)}

\* Only the sigmoid kernel knows of a shared expert.
FusedTopk(scores) == IF c.scoring = "softmax" THEN TopSets(scores, c.top_k) ELSE Picked(scores)

Gate(scores) == CASE UsesDeepseek -> DeepseekTopk(scores)
                  [] c.groups > 0 /\ c.bias = None -> GroupedTopk(scores)
                  [] c.groups > 0 /\ c.bias # None /\ ~UsesDeepseek -> BiasedGroupedTopk(scores)
                  [] c.groups = 0 /\ c.bias # None -> BiasedTopk(scores)
                  [] OTHER -> FusedTopk(scores)

----------------------------------------------------------------------------
(* Columns                                                                 *)

Times(w, n) == <<w[1] * n, w[2]>>
Over(w, n) == <<w[1], w[2] * n>>
Column(e, id, w) == [e |-> e, id |-> id, w |-> w]
\* The columns of the routed experts come first.
RoutedPart(cols) == SubSeq(cols, 1, Len(cols) - c.n)
SharedPart(cols) == SubSeq(cols, Len(cols) - c.n + 1, Len(cols))

\* Fault: the shared ids start at the last routed expert.
SharedIdLow == E - 1
\* The id drawn for the shared expert follows the routed ones.
SharedId == E

\* The kernels promise no order of the routed columns.
RoutedColumns(X, weight) ==
    [i \in 1 .. Cardinality(X) |-> LET e == SetToSeq(X)[i] IN Column(e, e, weight[e])]
Total(X, scores) == MapThenSumSet(LAMBDA e : scores[e], X)

\* The shared expert weighs as much as all routed ones, over the factor that
\* the output is multiplied with; then all are renormalized by the routed sum,
\* and only where they are is the factor applied.  aiter scales the routed
\* weights itself.
ImplColumns(X, scores) ==
    LET total == Total(X, scores)
        Normal(w) == IF c.renorm THEN Over(w, total) ELSE w
        Final(w) == IF c.platform = "hip" \/ (c.renorm /\ c.applied) THEN Times(Normal(w), c.rsf)
                    ELSE Normal(w)
        routed == RoutedColumns(X, [e \in X |-> Final(<<scores[e], 1>>)])
    IN  IF c.n = 0 \/ c.platform = "hip" THEN routed
        ELSE Append(routed, Column(Shared, SharedId, Final(<<total, c.rsf>>)))

\* The kernel always renormalizes and scales; the shared column is appended to that.
DeepseekColumns(X, scores) ==
    LET total == Total(X, scores)
        scale == IF c.applied THEN c.rsf ELSE 1
        routed == RoutedColumns(X, [e \in X |-> <<scores[e] * scale, total>>])
    IN  IF c.n = 0 THEN routed ELSE Append(routed, Column(Shared, SharedId, <<total * scale, total * c.rsf>>))

Columns(X, scores) == IF UsesDeepseek THEN DeepseekColumns(X, scores) ELSE ImplColumns(X, scores)

\* Benchmark routings: evenly spaced experts from a random or the token's own
\* offset, equal weights.
Spaced(offset) ==
    LET step == IF E \div c.top_k > 1 THEN E \div c.top_k ELSE 1
    IN  [j \in 1 .. c.top_k |->
            LET e == (offset + (j - 1) * step) % E IN Column(e, e, <<1, c.top_k>>)]
Simulated == IF c.simulate = "uniform" THEN {Spaced(o) : o \in Experts}
             ELSE {Spaced(token.pos)}

\* The scores of experts outside the cold pool's tables vanish.
KeepMasked(scores) ==
    [e \in Experts |-> IF c.cold # None /\ e \notin c.kept THEN 0 ELSE scores[e]]
RouterColumns ==
    LET scores == KeepMasked(token.scores)
    IN  IF c.simulate # "none" THEN Simulated ELSE {Columns(X, scores) : X \in Gate(scores)}

----------------------------------------------------------------------------
(* Post-processing                                                         *)

\* A row the caller declared padded.
IsPadded == token.padded /\ token.known
IsRouted(col) == col.e # Shared
WithIds(cols, f(_)) == [i \in DOMAIN cols |-> [cols[i] EXCEPT !.id = f(cols[i])]]

\* The physical experts an id stands for.  The table has no entry for a shared
\* expert: what is read behind it may be any.
Physical(e) == IF c.replicas = None THEN {e}
               ELSE IF e \in Experts THEN c.replicas[e]
               ELSE 0 .. c.physical - 1

\* Any of the replicas of an expert; a row that will be masked as well.
LogicalToPhysical(cols) ==
    IF c.replicas = None THEN {cols}
    ELSE {[i \in DOMAIN cols |-> [cols[i] EXCEPT !.id = p[i]]] :
            p \in {p \in [DOMAIN cols -> 0 .. c.physical - 1] :
                     \A i \in DOMAIN cols : p[i] \in Physical(cols[i].id)}}

MaskPadded(cols, fill) ==
    IF IsPadded THEN WithIds(cols, LAMBDA col : fill) ELSE cols
ZeroPadded(cols) ==
    IF IsPadded THEN [i \in DOMAIN cols |-> [cols[i] EXCEPT !.w = <<0, 1>>]] ELSE cols

\* With shared slots only the routed columns are mapped and masked, unless the
\* solver dispatches: it takes the whole row.
CudaIds(cols) ==
    IF c.slots /\ ~c.lp
    THEN {MaskPadded(phys, -1) \o SharedPart(cols) : phys \in LogicalToPhysical(RoutedPart(cols))}
    ELSE {MaskPadded(phys, -1) : phys \in LogicalToPhysical(cols)}
\* The kernels of aiter take no negative id: padded rows point at expert 0.
HipIds(cols) == LogicalToPhysical(MaskPadded(cols, 0))

\* Fault: local experts are counted from the logical ones.
LocalRoutedLogical == E \div c.ep_size
LocalRouted == c.physical \div c.ep_size
SharedSlot == c.ep_rank * (LocalRouted + c.n) + LocalRouted

\* Fault: the weight of the path whose routed weights are scaled already.
RemapPerRankUnit(cols) ==
    [i \in DOMAIN cols |->
        IF i <= Len(cols) - c.n THEN [cols[i] EXCEPT !.id = @ + (@ \div LocalRouted)]
        ELSE [cols[i] EXCEPT !.id = SharedSlot, !.w = <<1, 1>>]]
\* Layout by rank: its routed experts, then its shared one.  The shared weight
\* is the same where the factor is in the routed weights already.
RemapPerRank(cols) ==
    [i \in DOMAIN cols |->
        IF i <= Len(cols) - c.n
        THEN [cols[i] EXCEPT !.id = @ + (@ \div LocalRouted)]
        ELSE [cols[i] EXCEPT !.id = SharedSlot, !.w = <<1, c.rsf>>]]

\* aiter appends the shared expert, and moves the ids, in one kernel.
AppendShared(cols) ==
    Append(IF c.slots THEN WithIds(cols, LAMBDA col : col.id + (col.id \div LocalRouted)) ELSE cols,
           Column(Shared, IF c.slots THEN SharedSlot ELSE E,
                  <<1, IF c.slots \/ c.scale = 0 THEN 1 ELSE c.scale>>))

\* The recorder gets the physical ids, before shared slots shift them.  On the
\* solver's path no copy was made, and the shift in place reaches its row.
CudaResult(ids) ==
    IF ~c.slots THEN [cols |-> ids, seen |-> ids]
    ELSE [cols |-> RemapPerRank(ids), seen |-> IF c.lp THEN RemapPerRank(ids) ELSE RoutedPart(ids)]

\* Fault: the weights are zeroed before the shared expert is appended.
HipResultEarly(ids) ==
    LET cols == IF c.unmasked THEN ids ELSE ZeroPadded(ids)
    IN  [cols |-> IF c.n > 0 THEN AppendShared(cols) ELSE cols, seen |-> ids]
\* Padded rows may be left their weights: they are discarded downstream.
HipResult(ids) ==
    LET cols == IF c.n > 0 THEN AppendShared(ids) ELSE ids
    IN  [cols |-> IF c.unmasked THEN cols ELSE ZeroPadded(cols), seen |-> ids]

PostProcess(cols) ==
    IF c.platform = "cuda" THEN {CudaResult(ids) : ids \in CudaIds(cols)}
    ELSE {HipResult(ids) : ids \in HipIds(cols)}

\* remap_topk_ids of the cold pool; -1 and ids behind the table stay.
ColdRows(cols) ==
    IF c.cold = None THEN cols
    ELSE WithIds(cols, LAMBDA col : IF col.id \in Experts THEN c.cold[col.id] ELSE col.id)

----------------------------------------------------------------------------
(* One forward of the layer                                                *)

\* A row of the batch: its position, its scores, whether it is padding, and
\* whether the caller said how many rows are not (num_token_non_padded).
Tokens == [pos : 0 .. MaxToken, scores : [Experts -> 1 .. MaxScore],
           padded : BOOLEAN, known : BOOLEAN]

Init == c \in Configs /\ token \in Tokens /\ out = None

SelectExperts ==
    /\ ~c.precomputed /\ UNCHANGED <<c, token>>
    /\ \E cols \in RouterColumns : \E post \in PostProcess(cols) :
           out' = [cols |-> ColdRows(post.cols), seen |-> post.seen]

\* precomputed_topk_postprocess_is_noop
PostProcessIsNoop ==
    c.platform = "cuda" /\ c.n = 0 /\ ~token.known /\ c.replicas = None /\ c.simulate = "none"

\* A fused router does its own selection; the output is passed on as it is.
BuildPrecomputed ==
    /\ c.precomputed /\ PostProcessIsNoop /\ UNCHANGED <<c, token>>
    /\ \E X \in Gate(token.scores) :
           out' = [cols |-> Columns(X, token.scores), seen |-> Columns(X, token.scores)]

Next == out = None /\ (SelectExperts \/ BuildPrecomputed)
Spec == Init /\ [][Next]_vars

----------------------------------------------------------------------------
(* Properties                                                              *)

Real == out # None /\ ~token.padded
RoutedCols == SelectSeq(out.cols, IsRouted)

\* A row has top_k columns; on a row that is not padding they address top_k
\* different places, so no kernel adds an expert twice.
TypeOK ==
    /\ c \in Configs
    /\ out # None => Len(out.cols) = c.top_k
    /\ Real => \A i, j \in DOMAIN out.cols : i # j => out.cols[i].id # out.cols[j].id

\* What the gate promises: the routed experts come from topk_group groups no
\* other group beats, no expert of those groups outside the selection beats a
\* selected one, and none the cold pool masks is among them.
SelectsBest ==
    Real /\ c.simulate = "none" =>
      LET X == {out.cols[i].e : i \in {i \in DOMAIN out.cols : IsRouted(out.cols[i])}}
          choice == IF c.bias = None THEN token.scores ELSE Biased(token.scores)
          value == IF c.bias = None THEN MaxScores(choice) ELSE PairScores(choice)
          Best(pool) == X \subseteq pool /\ \A x \in X, y \in pool \ X : choice[x] >= choice[y]
      IN  IF c.groups = 0 THEN Best(IF c.cold = None THEN Experts ELSE c.kept)
          ELSE \E gs \in TopSets(value, c.topk_group) : Best(UNION {Members(g) : g \in gs})

\* A row known to be padding leaves no trace in the experts: every column has
\* a negative id or the weight zero.  On CUDA with per-rank shared slots this
\* holds of the routed columns only, and on HIP not where the operator turned
\* the zeroing off.  The kernels of aiter read each id, so there it is the id of
\* a place that exists.
Places == c.physical + (IF c.slots THEN c.ep_size ELSE 1) * c.n
PaddedSilent ==
    out # None /\ IsPadded =>
      \A i \in DOMAIN out.cols :
        /\ \/ out.cols[i].id < 0 \/ out.cols[i].w[1] = 0
           \/ c.platform = "cuda" /\ c.slots /\ i > Len(out.cols) - c.n
           \/ c.platform = "hip" /\ c.unmasked
        /\ c.platform = "hip" => out.cols[i].id \in 0 .. Places - 1

\* With the factor the layer multiplies its output by (none where it went into
\* the weights), the shared expert counts once and the routed ones rsf times.
\* Without renormalization the shared expert still has its part of the routed
\* weights; with scale, this rank's share of one.  The remap to shared slots
\* overrides the weight by 1 / rsf on every path of CUDA: where the factor went
\* into the weights that is less than once, by rsf, as the NOTE of
\* remap_topk_for_per_rank_shared_slots admits.
After == IF c.applied \/ c.platform = "hip" THEN 1 ELSE c.rsf
Renormalized == c.renorm \/ UsesDeepseek
RoutedTotal == FoldSeq(LAMBDA col, w : <<w[1] * col.w[2] + col.w[1] * w[2], w[2] * col.w[2]>>,
                       <<0, 1>>, RoutedCols)
IsShare(w) ==
    IF c.platform = "cuda" /\ c.slots THEN w[1] * c.rsf = w[2]
    ELSE IF c.platform = "hip" /\ ~c.slots /\ c.scale > 0 THEN w[1] * c.scale = w[2]
    ELSE IF c.platform = "hip" \/ Renormalized THEN w[1] * After = w[2]
    ELSE w[1] * c.rsf * RoutedTotal[2] = w[2] * RoutedTotal[1]
SharedOnce ==
    Real /\ c.simulate = "none" =>
      /\ Renormalized => RoutedTotal[1] * After = RoutedTotal[2] * c.rsf
      /\ \A i \in DOMAIN out.cols : ~IsRouted(out.cols[i]) => IsShare(out.cols[i].w)

\* A column of a real row addresses the place where its expert lives: a replica
\* of it, in the block of the replica's rank when blocks end with a shared
\* slot, its row of the cold pool when the layer is shrunk; the shared expert
\* is the one of this rank.  The recorder counts physical experts; on the
\* solver's path with shared slots its row is the result itself, shifted.
AddressOf(p) == Rank(p) * (c.physical \div c.ep_size + c.n) + Local(p)
Addresses(e) == IF c.slots THEN {AddressOf(p) : p \in Physical(e)}
                ELSE IF c.cold # None THEN {c.cold[e]} ELSE Physical(e)
SeenPhysical(seen) ==
    \A i \in DOMAIN seen : IsRouted(seen[i]) => seen[i].id \in Physical(seen[i].e)
RecorderAliased == c.platform = "cuda" /\ c.lp /\ c.slots
RecorderRow(o) == IF RecorderAliased THEN o.seen = o.cols ELSE SeenPhysical(o.seen)
Addressed ==
    Real =>
      /\ \A i \in DOMAIN out.cols :
            out.cols[i].id \in (IF IsRouted(out.cols[i]) THEN Addresses(out.cols[i].e)
                                ELSE IF c.slots THEN {AddressOf(c.ep_rank * (c.physical \div c.ep_size))
                                                      + c.physical \div c.ep_size}
                                ELSE {E})
      /\ RecorderRow(out)
=============================================================================
