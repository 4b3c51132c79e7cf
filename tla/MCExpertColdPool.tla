-------------------------- MODULE MCExpertColdPool --------------------------
(* Small instances of ExpertColdPool for TLC. *)
EXTENDS ExpertColdPool

\* Seven experts, four of them cold: 1, 4 and 5 are each the favourite of one
\* token, more than there are slots; 6 is below the band for every token but
\* not always the worst of them.
MCKeep == <<0, 2, 3>>
MCTokens == {"a", "b", "c"}
MCScore == [a |-> [g \in 0 .. 6 |-> <<9, 10, 8, 7, 2, 6, 5>>[g + 1]],
            b |-> [g \in 0 .. 6 |-> <<7, 3, 9, 8, 10, 2, 5>>[g + 1]],
            c |-> [g \in 0 .. 6 |-> <<8, 2, 7, 9, 8, 10, 5>>[g + 1]]]

\* For Phase B: kept expert 0 is always selected, kept expert 3 never; each
\* token has a cold favourite.
DegradeScore == [a |-> [g \in 0 .. 5 |-> <<10, 9, 8, 3, 1, 1>>[g + 1]],
                 b |-> [g \in 0 .. 5 |-> <<10, 1, 8, 3, 9, 1>>[g + 1]],
                 c |-> [g \in 0 .. 5 |-> <<10, 1, 8, 3, 1, 9>>[g + 1]]]

\* For promotion: both kept experts stay in demand, and three cold experts
\* compete for two slots.
PromoteScore == [a |-> [g \in 0 .. 4 |-> <<10, 9, 8, 8, 8>>[g + 1]],
                 b |-> [g \in 0 .. 4 |-> <<8, 8, 10, 9, 8>>[g + 1]]]

\* For liveness: both tokens rank cold expert 1 first among the cold; cold
\* expert 3 is in the band too, so that the single slot changes hands.
LiveKeep == <<0, 2>>
LiveTokens == {"a", "b"}
LiveScore == [a |-> [g \in 0 .. 3 |-> <<10, 9, 7, 8>>[g + 1]],
              b |-> [g \in 0 .. 3 |-> <<10, 9, 8, 8>>[g + 1]]]
=============================================================================
