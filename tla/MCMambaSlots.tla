---------------------------- MODULE MCMambaSlots ----------------------------
(* Instance of MambaSlots: two requests that share their first two tokens,  *)
(* with several track boundaries after the prompt.                          *)
EXTENDS MambaSlots, TLC

CONSTANTS r1, r2

MCText == r1 :> <<"a", "b", "c", "d", "e", "f">> @@ r2 :> <<"a", "b", "x", "y">>
MCPromptLen == r1 :> 3 @@ r2 :> 3

\* Overlap with full buffers, the deployed options (lazy buffers, int8
\* checkpoints), and no overlap.
MCConfigs ==
    {[overlap |-> TRUE, lazy |-> FALSE, int8 |-> FALSE, chunk |-> 3],
     [overlap |-> TRUE, lazy |-> TRUE, int8 |-> TRUE, chunk |-> 2],
     [overlap |-> FALSE, lazy |-> FALSE, int8 |-> FALSE, chunk |-> 3]}
=============================================================================
