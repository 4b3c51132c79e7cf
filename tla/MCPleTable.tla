----------------------------- MODULE MCPleTable -----------------------------
(* Small instances of PleTable for TLC. *)
EXTENDS PleTable

\* Three shards of two rows, the last one short.
MCVocab == 5
MCCheckpoints == 1 .. 3

\* The second checkpoint lacks a shard.
MCHolds == [c \in MCCheckpoints |-> IF c = 2 THEN {1, 2} ELSE 0 .. 2]

\* Two shards; complete checkpoints come and go.  The rank's window starts inside
\* the first shard.
HealVocab == 3
HealCheckpoints == 1 .. 3
HealHolds == [c \in HealCheckpoints |-> {0, 1}]

\* Two checkpoints of two shards, both complete.
PairCheckpoints == 1 .. 2
PairHolds == [c \in PairCheckpoints |-> {0, 1}]
=============================================================================
