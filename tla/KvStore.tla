------------------------------ MODULE KvStore ------------------------------
(***************************************************************************)
(* What a key-value pool promises its callers: a slot of a layer holds one *)
(* token, a move relocates whole slots at once, and a host copy brings     *)
(* back what was copied out.  KvPool implements it with several tensors    *)
(* per slot.                                                               *)
(***************************************************************************)
EXTENDS Integers, Sequences, FiniteSets

CONSTANTS
    Layers,         \* layers the pool stores
    Slots,          \* slots a request can own
    Tokens,
    Zero            \* what a slot holds before its first write

NoCopy == <<>>

VARIABLES
    kv,             \* kv[l][s]: token whose keys and values are in slot s
    copy            \* copy[l][i]: i-th slot of the copy on the host

Init ==
    /\ kv = [l \in Layers |-> [s \in Slots |-> Zero]]
    /\ copy = NoCopy

\* Places: the slots of one request, in order.
Places == {at \in UNION {[1 .. n -> Slots] : n \in 1 .. Cardinality(Slots)} :
               \A i, j \in DOMAIN at : at[i] = at[j] => i = j}

Write(l, rows) ==
    /\ kv' = [kv EXCEPT ![l] = [s \in Slots |-> IF s \in DOMAIN rows THEN rows[s] ELSE @[s]]]
    /\ UNCHANGED copy

\* from[s]: the slot whose token slot s holds afterwards.
Move(from) ==
    /\ kv' = [l \in Layers |-> [s \in Slots |-> kv[l][IF s \in DOMAIN from THEN from[s] ELSE s]]]
    /\ UNCHANGED copy

Offload(at) ==
    /\ copy' = [l \in Layers |-> [i \in DOMAIN at |-> kv[l][at[i]]]]
    /\ UNCHANGED kv

\* The copy comes back layer by layer or all at once; the last layer drops it.
Load(some, at, last) ==
    /\ copy # NoCopy
    /\ kv' = [l \in Layers |->
                IF l \in some
                THEN [s \in Slots |-> IF \E i \in DOMAIN at : at[i] = s
                                      THEN copy[l][CHOOSE i \in DOMAIN at : at[i] = s]
                                      ELSE kv[l][s]]
                ELSE kv[l]]
    /\ copy' = IF last THEN NoCopy ELSE copy

Next ==
    \/ \E l \in Layers, S \in SUBSET Slots : \E rows \in [S -> Tokens] : Write(l, rows)
    \/ \E S \in SUBSET Slots : \E from \in [S -> Slots] : Move(from)
    \/ \E at \in Places : Offload(at)
    \/ \E at \in {at \in Places : copy # NoCopy /\ \A l \in Layers : DOMAIN at = DOMAIN copy[l]} :
         \E some \in SUBSET Layers, last \in BOOLEAN : Load(some, at, last)

Spec == Init /\ [][Next]_<<kv, copy>>
=============================================================================
