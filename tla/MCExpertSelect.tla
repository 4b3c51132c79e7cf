--------------------------- MODULE MCExpertSelect ---------------------------
(* Small layers for ExpertSelect: four experts, two per group or rank. *)
EXTENDS ExpertSelect

Layer == [platform |-> "cuda", top_k |-> 2, groups |-> 0, topk_group |-> 0, bias |-> None,
          scoring |-> "sigmoid", renorm |-> TRUE, n |-> 0, rsf |-> 1, applied |-> FALSE, scale |-> 0,
          slots |-> FALSE, ep_size |-> 1, ep_rank |-> 0,
          replicas |-> None, physical |-> E, lp |-> FALSE, cold |-> None, kept |-> Experts,
          fused |-> FALSE, unmasked |-> FALSE, simulate |-> "none", precomputed |-> FALSE]

\* Two routed experts and the shared one.
WithShared == [Layer EXCEPT !.top_k = 3, !.n = 1, !.rsf = 2]

Bias == <<0, -4, -2, -3>>
MCBias == [e \in Experts |-> Bias[e + 1]]
\* Expert 0 has two replicas, one more than fits on the first of two ranks.
MCReplicas == [e \in Experts |-> IF e = 0 THEN {0, 5} ELSE IF e = 3 THEN {3, 4} ELSE {e}]
\* Expert 1 is cold and parked on row 0; expert 3 is staged on the last row.
MCCold == [e \in Experts |-> IF e = 1 THEN 0 ELSE IF e = 2 THEN 1 ELSE IF e = 3 THEN 2 ELSE 0]

\* Rank 1 of two, three physical experts each.
Slotted == [WithShared EXCEPT !.slots = TRUE, !.ep_size = 2, !.ep_rank = 1,
                              !.replicas = MCReplicas, !.physical = 6]
Aiter == [WithShared EXCEPT !.platform = "hip", !.groups = 2, !.topk_group = 1, !.bias = MCBias]

MCConfigs ==
  { Layer,
    [Layer EXCEPT !.scoring = "softmax", !.renorm = FALSE],
    [Layer EXCEPT !.groups = 2, !.topk_group = 1],
    [Layer EXCEPT !.bias = MCBias, !.rsf = 2, !.applied = TRUE],
    [Layer EXCEPT !.groups = 2, !.topk_group = 1, !.bias = MCBias, !.rsf = 3, !.fused = TRUE],
    [WithShared EXCEPT !.groups = 2, !.topk_group = 1, !.bias = MCBias, !.fused = TRUE, !.applied = TRUE],
    [WithShared EXCEPT !.groups = 2, !.topk_group = 1, !.bias = MCBias],
    [WithShared EXCEPT !.applied = TRUE],
    [WithShared EXCEPT !.groups = 2, !.topk_group = 1, !.renorm = FALSE, !.applied = TRUE],
    [Layer EXCEPT !.replicas = MCReplicas, !.physical = 6],
    [Layer EXCEPT !.replicas = MCReplicas, !.physical = 6, !.lp = TRUE],
    Slotted,
    [Slotted EXCEPT !.applied = TRUE],
    [Slotted EXCEPT !.lp = TRUE],
    [Aiter EXCEPT !.slots = TRUE, !.ep_size = 2],
    [Aiter EXCEPT !.slots = TRUE, !.ep_size = 2, !.unmasked = TRUE],
    Aiter,
    [Aiter EXCEPT !.scale = 2, !.renorm = FALSE],
    [Layer EXCEPT !.cold = MCCold, !.kept = {0, 2, 3}],
    [WithShared EXCEPT !.cold = MCCold, !.kept = {0, 2, 3}, !.applied = TRUE],
    [Layer EXCEPT !.simulate = "uniform"],
    [Layer EXCEPT !.simulate = "round_robin", !.top_k = 3],
    [Layer EXCEPT !.precomputed = TRUE] }
=============================================================================
