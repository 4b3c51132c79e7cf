----------------------------- MODULE MCQsaTopK -----------------------------
(* Small launches for QsaTopK. *)
EXTENDS QsaTopK

\* The queries of a request are its last tokens.
Job(lens, query, decode, topk, cuda) ==
    LET keys(r) == lens[r] \div Ratio
        sum(n) == MapThenSumSet(keys, 1 .. n)
    IN  [lens |-> lens,
         rows |-> FlattenSeq([r \in DOMAIN lens |->
                    [i \in 1 .. query[r] |-> <<r, lens[r] - query[r] + i - 1>>]]),
         first |-> [r \in DOMAIN lens |-> IF decode THEN 0 ELSE sum(r - 1)],
         keys |-> IF decode THEN Max({keys(r) : r \in DOMAIN lens}) ELSE sum(Len(lens)),
         decode |-> decode, topk |-> topk, cuda |-> cuda]

\* Prefill: several requests in one block of rows, windows that start inside a
\* tile, fewer tiles than thread blocks and more, a query that sees no key yet,
\* a width that cuts the last block.  Decode: a page and a tile left unfinished.
MCJobs ==
  { Job(<<3, 7>>, <<1, 2>>, FALSE, 4, TRUE),
    Job(<<10>>, <<3>>, FALSE, 4, FALSE),
    Job(<<1, 6>>, <<1, 1>>, FALSE, 3, TRUE),
    Job(<<8, 2>>, <<1, 2>>, FALSE, 2, TRUE),
    Job(<<11, 4>>, <<1, 1>>, TRUE, 4, TRUE),
    Job(<<7, 3>>, <<1, 1>>, TRUE, 3, FALSE) }
=============================================================================
