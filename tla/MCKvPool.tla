------------------------------ MODULE MCKvPool ------------------------------
(* Pools for KvPool: every class, each with the paths it may take. *)
EXTENDS KvPool

Plain == [kind |-> "mha", page |-> 1, hnd |-> FALSE, native |-> FALSE, cap |-> 1, full |-> <<0>>,
          start |-> 0, index |-> "none", offload |-> FALSE, layerwise |-> FALSE,
          prefix |-> FALSE, moves |-> TRUE, post |-> FALSE, swap |-> FALSE, dequant |-> FALSE, slots |-> 3]
MCConfigs ==
  { [Plain EXCEPT !.offload = TRUE, !.prefix = TRUE],
    [Plain EXCEPT !.page = 2, !.hnd = TRUE, !.post = TRUE],
    [Plain EXCEPT !.kind = "quant", !.cap = 2, !.page = 2, !.full = <<5>>, !.dequant = TRUE],
    [Plain EXCEPT !.kind = "quant", !.native = TRUE, !.full = <<1, 3>>, !.swap = TRUE, !.slots = 2],
    [Plain EXCEPT !.full = <<5, 7>>, !.start = 4, !.offload = TRUE, !.layerwise = TRUE, !.slots = 2],
    [Plain EXCEPT !.kind = "fp4", !.native = TRUE],
    [Plain EXCEPT !.kind = "page_major", !.page = 2],
    [Plain EXCEPT !.kind = "mxfp8", !.page = 4],
    [Plain EXCEPT !.kind = "mxfp8"],
    [Plain EXCEPT !.kind = "mla", !.offload = TRUE],
    [Plain EXCEPT !.kind = "dsa", !.offload = TRUE, !.page = 2],
    [Plain EXCEPT !.kind = "mla_fp4", !.moves = FALSE],
    [Plain EXCEPT !.kind = "minimax", !.index = "k"],
    [Plain EXCEPT !.kind = "minimax", !.index = "kv"] }
=============================================================================
