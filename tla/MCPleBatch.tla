----------------------------- MODULE MCPleBatch -----------------------------
(* Instance of PleBatch: two texts with a common prefix that is longer than *)
(* a track interval and contains an end of text.                            *)
EXTENDS PleBatch

MCText == [r \in 0 .. 1 |-> IF r = 0 THEN <<"a", "e", "b", "a", "b", "b">>
                            ELSE <<"a", "e", "b", "b">>]
MCPromptLen == [r \in 0 .. 1 |-> IF r = 0 THEN 4 ELSE 3]

MCConfigs ==
    {[fusion |-> TRUE,  cpuLens |-> TRUE,  counted |-> FALSE, spec |-> FALSE, dp |-> FALSE],
     [fusion |-> FALSE, cpuLens |-> FALSE, counted |-> FALSE, spec |-> FALSE, dp |-> FALSE],
     [fusion |-> TRUE,  cpuLens |-> FALSE, counted |-> FALSE, spec |-> TRUE,  dp |-> FALSE],
     [fusion |-> FALSE, cpuLens |-> TRUE,  counted |-> TRUE,  spec |-> TRUE,  dp |-> TRUE]}
=============================================================================
