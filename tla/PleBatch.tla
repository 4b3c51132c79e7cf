------------------------------ MODULE PleBatch ------------------------------
(***************************************************************************)
(* The side states of the per-layer embedding (runtime-src/qwen4_exp.py):  *)
(* a forward lays the tokens of its requests out in rows, reads each       *)
(* row's n-gram history and short convolution window from its state slot,  *)
(* and commits what the next forward needs, to the slot and to the track   *)
(* slot that the prefix cache takes over.                                  *)
(*                                                                         *)
(* A forward is one action: its kernels run in order on one stream.  The   *)
(* hash of an n-gram is abstracted to the tokens it mixes, a convolution   *)
(* input to the token history it is computed from.  Scheduler, prefix      *)
(* cache and acceptance of drafts are outside this repository.             *)
(***************************************************************************)
EXTENDS Integers, Sequences, FiniteSets, FiniteSetsExt, SequencesExt

CONSTANTS
    NumReqs,        \* rows of the request pool in use
    Text,           \* Text[r]: all tokens of request r
    PromptLen,      \* PromptLen[r]: how many of them are its prompt
    Tokens, Eos,
    NgramSize,      \* ngram_size
    Kernel,         \* ple_conv_kernel_size
    Stride,         \* draft_token_num
    Interval,       \* distance of the track boundaries
    MaxChunk,       \* longest chunk of a prefill
    Configs         \* see ConfigShape

Reqs == 0 .. NumReqs - 1

ASSUME SizeAssumption ==
    /\ NumReqs \in Nat \ {0} /\ NgramSize \in Nat \ {0, 1} /\ Kernel \in Nat \ {0}
    /\ {Stride, Interval, MaxChunk} \subseteq Nat \ {0}
ASSUME TextAssumption ==
    /\ Eos \in Tokens
    /\ \A r \in Reqs : Text[r] \in Seq(Tokens) /\ PromptLen[r] \in 1 .. Len(Text[r])

\* fusion: SGLANG_ENABLE_QWEN4_PLE_FUSION.  cpuLens: the lengths of a prefill are
\* known on the host.  counted: the number of unpadded tokens is known.  spec:
\* decode by verifying drafts.  dp: a verification is rewritten as EXTEND by data
\* parallel attention.
ASSUME ConfigShape ==
    Configs \subseteq [fusion : BOOLEAN, cpuLens : BOOLEAN, counted : BOOLEAN,
                       spec : BOOLEAN, dp : BOOLEAN]

VARIABLES
    config,
    state,      \* state[slot]: [ngram, conv], the two side state pools
    req,        \* req[r]: tokens done (-1: not running), and the length tracked
    verify,     \* the verification whose drafts are not accepted yet
    cache,      \* cache[prefix]: the state the prefix cache holds
    looked      \* what the last forward looked up and convolved, per token

vars == <<config, state, req, verify, cache, looked>>

None == <<>>
Zero == <<>>
Garbage == "garbage"
CeilDiv(a, b) == (a + b - 1) \div b
Lesser(a, b) == IF a < b THEN a ELSE b

----------------------------------------------------------------------------
(* Slots                                                                   *)

Dilation == NgramSize
StateLen == (Kernel - 1) * Dilation
Slot(r) == r + 1
TrackSlot(r) == NumReqs + r + 1
Slots == 0 .. 2 * NumReqs

Fresh == [ngram |-> [i \in 1 .. NgramSize - 1 |-> Eos], conv |-> [i \in 1 .. StateLen |-> Zero]]
\* Slot 0 takes the writes of all rows that must not be kept.
Dummy == [ngram |-> [i \in 1 .. NgramSize - 1 |-> Garbage], conv |-> [i \in 1 .. StateLen |-> Garbage]]

----------------------------------------------------------------------------
(* Layout of a forward.  fb.rows[k]: its request, the tokens fed, how many *)
(* of them are valid, whether it has cache locations, and the track mask   *)
(* and aligned length.  Rows without cache locations are graph padding and *)
(* name request slot 0, which may be taken.                                *)

\* query_start_loc: where the tokens of each row begin, by a running sum.
QueryStartLoc(lens) ==
    LET start[k \in 0 .. Len(lens)] == IF k = 0 THEN 0 ELSE start[k - 1] + lens[k]
    IN  start
Total(lens) == QueryStartLoc(lens)[Len(lens)]

Processed(fb) ==
    IF config.counted THEN fb.nonPadded
    ELSE IF fb.mode = "extend" /\ config.cpuLens THEN Total(fb.lens)
    ELSE Len(fb.ids)

FastPath(fb) == config.fusion /\ fb.mode = "decode"

RowWidth(fb) ==
    CASE fb.mode = "verify" -> Stride
      [] fb.mode = "decode" -> 1
      [] fb.mode = "extend" -> IF config.cpuLens THEN Max({fb.lens[k] : k \in DOMAIN fb.lens})
                               ELSE Processed(fb)

Lengths(fb) ==
    CASE fb.mode = "verify" -> [k \in 1 .. Processed(fb) \div Stride |-> IF config.dp THEN Stride ELSE fb.lens[k]]
      [] fb.mode = "decode" -> [k \in 1 .. Processed(fb) |-> 1]
      [] fb.mode = "extend" -> fb.lens

\* Row and offset of the i-th token, both counted from 0 in the code.
RowOf(fb, i) ==
    IF fb.mode = "extend"
    THEN LET start == QueryStartLoc(fb.lens)
         IN  Lesser(Len(fb.lens), Cardinality({k \in 0 .. Len(fb.lens) : start[k] <= i - 1}))
    ELSE (i - 1) \div RowWidth(fb) + 1
OffsetOf(fb, i) ==
    i - 1 - (IF fb.mode = "extend" THEN QueryStartLoc(fb.lens)[RowOf(fb, i) - 1]
             ELSE (RowOf(fb, i) - 1) * RowWidth(fb))

\* Fault: the state of a padding row is the one of the request slot it names.
StateIndexUnmasked(fb, k) == Slot(fb.rows[k])
StateIndex(fb, k) ==
    LET kept == IF fb.mode = "extend" THEN Lengths(fb)[k] # 0 ELSE fb.located[k]
    IN  IF kept THEN Slot(fb.rows[k]) ELSE 0

\* padded[req_indices, token_offsets] = tokens: what lands at an offset of a row.
Landing(fb, k, o) == {i \in 1 .. Processed(fb) : RowOf(fb, i) = k /\ OffsetOf(fb, i) = o}
TokenAt(fb, k, o) == fb.ids[CHOOSE i \in Landing(fb, k, o) : TRUE]

\* The padded rows, for the embedding and for the convolution.
PaddedRow(fb, k) ==
    [c \in 1 .. RowWidth(fb) |->
        IF Landing(fb, k, c - 1) # {} /\ c - 1 < Lengths(fb)[k] THEN TokenAt(fb, k, c - 1) ELSE Eos]
InputRow(fb, k) ==
    [c \in 1 .. RowWidth(fb) |->
        IF Landing(fb, k, c - 1) = {} THEN Zero
        ELSE IF c - 1 < Lengths(fb)[k] /\ fb.located[k]
             THEN SubSeq(Text[fb.rows[k]], 1, req[fb.rows[k]].done)
                    \o [j \in 1 .. c |-> TokenAt(fb, k, j - 1)]
             ELSE Garbage]

Prepare(fb) ==
    LET rows == DOMAIN Lengths(fb)
    IN  [lens  |-> Lengths(fb),
         slots |-> [k \in rows |-> StateIndex(fb, k)],
         ngram |-> [k \in rows |-> state[StateIndex(fb, k)].ngram \o PaddedRow(fb, k)],
         conv  |-> [k \in rows |-> state[StateIndex(fb, k)].conv \o InputRow(fb, k)]]

----------------------------------------------------------------------------
(* Lookup and convolution of one token                                     *)

\* The tokens the hash mixes: the last one and those before it, up to an Eos.
\* Fault: an Eos that is the last token itself ends the segment too.
ShiftRightInclusive(window, n) ==
    LET last == Len(window)
        segment == Max({0} \cup {i \in 1 .. last : window[i] = Eos}) + 1
    IN  IF last - segment >= n THEN window[last - n] ELSE Eos
ShiftRight(window, n) ==
    LET last == Len(window)
        segment == Max({0} \cup {i \in 1 .. last - 1 : window[i] = Eos}) + 1
    IN  IF last - segment >= n THEN window[last - n] ELSE Eos
NgramIds(window) == [n \in 1 .. NgramSize |-> ShiftRight(window, n - 1)]

Window(b, k, o) == SubSeq(b.ngram[k], o + 1, o + NgramSize)
Taps(b, k, o) == [j \in 1 .. Kernel |-> b.conv[k][o + (j - 1) * Dilation + 1]]

Looked(b, k, o) ==
    [hist |-> b.conv[k][StateLen + o + 1], ids |-> NgramIds(Window(b, k, o)), taps |-> Taps(b, k, o)]
LookUp(fb, b) ==
    UNION {{Looked(b, k, o) : o \in {o \in 0 .. RowWidth(fb) - 1 : o < b.lens[k]}} :
               k \in {k \in DOMAIN b.lens : fb.located[k]}}

----------------------------------------------------------------------------
(* Commit                                                                  *)

\* The state `offset` tokens into the chunk.
GatherAt(b, k, offset) ==
    [ngram |-> SubSeq(b.ngram[k], offset + 1, offset + NgramSize - 1),
     conv  |-> SubSeq(b.conv[k], offset + 1, offset + StateLen)]

\* Fault: the snapshot is taken at the end of the chunk.
TrackOffsetEnd(fb, b, k) == b.lens[k]
TrackOffset(fb, b, k) ==
    IF fb.mode = "decode" THEN b.lens[k]
    ELSE Lesser(IF fb.aligned[k] < 0 THEN 0 ELSE fb.aligned[k], b.lens[k])
TrackIndex(fb, k) == IF fb.track[k] THEN TrackSlot(fb.rows[k]) ELSE 0

NextState(fb, b, k) == GatherAt(b, k, IF FastPath(fb) THEN RowWidth(fb) ELSE b.lens[k])

Commit(fb, b) ==
    state' = [s \in Slots |->
        IF s = 0 THEN Dummy
        ELSE IF \E k \in DOMAIN b.lens : TrackIndex(fb, k) = s
             THEN LET k == CHOOSE k \in DOMAIN b.lens : TrackIndex(fb, k) = s
                  IN  GatherAt(b, k, TrackOffset(fb, b, k))
        ELSE IF \E k \in DOMAIN b.lens : b.slots[k] = s
             THEN LET k == CHOOSE k \in DOMAIN b.lens : b.slots[k] = s
                  IN  NextState(fb, b, k)
        ELSE state[s]]

StepState(b, k, i) ==
    IF i <= b.lens[k] THEN GatherAt(b, k, i)
    ELSE [ngram |-> [j \in 1 .. NgramSize - 1 |-> Eos], conv |-> [j \in 1 .. StateLen |-> Zero]]
Intermediate(b) == [k \in DOMAIN b.lens |-> [i \in 1 .. Stride |-> StepState(b, k, i)]]

----------------------------------------------------------------------------
(* Forwards                                                                *)

Running == {r \in Reqs : req[r].done >= 0}
Prefilling == {r \in Running : req[r].done < PromptLen[r]}
Decoding == {r \in Running : req[r].done >= PromptLen[r] /\ req[r].done < Len(Text[r])}

Pad(n) == [i \in 1 .. n |-> CHOOSE t \in Tokens : t # Eos]

\* The last track boundary up to `len` tokens into the chunk, relative to it.
Aligned(r, len) == ((req[r].done + len) \div Interval) * Interval - req[r].done

Advance(rows, lens, mask, aligned) ==
    req' = [r \in Reqs |->
              IF \E k \in DOMAIN rows : rows[k] = r
              THEN LET k == CHOOSE k \in DOMAIN rows : rows[k] = r
                   IN  [done |-> req[r].done + lens[k],
                        tracked |-> IF mask[k] THEN req[r].done + aligned[k] ELSE req[r].tracked]
              ELSE req[r]]

\* A prefill of some requests, with padding tokens behind and with requests
\* that have no token in this chunk.
Extend ==
    /\ verify = None
    /\ \E rows \in SetToAllKPermutations(Prefilling) : \E pad \in 0 .. 1 :
       \E lens \in [DOMAIN rows -> 0 .. MaxChunk] :
         /\ \A k \in DOMAIN rows : lens[k] <= PromptLen[rows[k]] - req[rows[k]].done
         /\ \E k \in DOMAIN rows : lens[k] > 0
         /\ LET chunk(k) == SubSeq(Text[rows[k]], req[rows[k]].done + 1, req[rows[k]].done + lens[k])
                aligned == [k \in DOMAIN rows |-> Aligned(rows[k], lens[k])]
                mask == [k \in DOMAIN rows |-> aligned[k] > 0]
                fb == [mode |-> "extend", rows |-> rows, lens |-> lens,
                       ids |-> FlattenSeq([k \in DOMAIN rows |-> chunk(k)]) \o Pad(pad),
                       nonPadded |-> Total(lens),
                       located |-> [k \in DOMAIN rows |-> TRUE],
                       track |-> mask, aligned |-> aligned]
            IN  /\ Commit(fb, Prepare(fb))
                /\ looked' = LookUp(fb, Prepare(fb))
                /\ Advance(rows, lens, mask, aligned)
    /\ UNCHANGED <<config, verify, cache>>

\* One token of each, in a captured graph with rows to spare.
Decode ==
    /\ verify = None /\ ~config.spec
    /\ \E rs \in (SUBSET Decoding) \ {{}} : \E pad \in 0 .. 1 :
         LET rows == SetToSeq(rs)
             n == Len(rows)
             all == rows \o [i \in 1 .. pad |-> 0]
             one == [k \in 1 .. n + pad |-> 1]
             mask == [k \in 1 .. n + pad |-> k <= n /\ Aligned(all[k], 1) = 1]
             fb == [mode |-> "decode", rows |-> all, lens |-> one,
                    ids |-> [k \in 1 .. n |-> Text[rows[k]][req[rows[k]].done + 1]] \o Pad(pad),
                    nonPadded |-> n,
                    located |-> [k \in 1 .. n + pad |-> k <= n],
                    track |-> mask, aligned |-> one]
         IN  /\ Commit(fb, Prepare(fb))
             /\ looked' = LookUp(fb, Prepare(fb))
             /\ Advance(rows, one, mask, one)
    /\ UNCHANGED <<config, verify, cache>>

\* The next token of each and drafts after it; a row may have fewer valid drafts.
TargetVerify ==
    /\ verify = None /\ config.spec
    /\ \E rs \in (SUBSET Decoding) \ {{}} : \E pad \in 0 .. 1 :
         LET rows == SetToSeq(rs)
             n == Len(rows)
             all == rows \o [i \in 1 .. pad |-> 0]
         IN  \E drafts \in [1 .. n -> [1 .. Stride - 1 -> Tokens]] : \E lens \in [1 .. n -> 1 .. Stride] :
               LET fed(k) == <<Text[rows[k]][req[rows[k]].done + 1]>> \o drafts[k]
                   fb == [mode |-> "verify", rows |-> all,
                          lens |-> lens \o [i \in 1 .. pad |-> Stride],
                          ids |-> FlattenSeq([k \in 1 .. n |-> fed(k)]) \o Pad(pad * Stride),
                          nonPadded |-> n * Stride,
                          located |-> [k \in 1 .. n + pad |-> k <= n]]
                   b == Prepare(fb)
               IN  /\ verify' = [rows |-> rows, fed |-> [k \in 1 .. n |-> SubSeq(fed(k), 1, lens[k])],
                                 states |-> SubSeq(Intermediate(b), 1, n)]
                   /\ looked' = LookUp(fb, b)
    /\ UNCHANGED <<config, state, req, cache>>

----------------------------------------------------------------------------
(* Outside of the repository                                               *)

\* The drafts that the target agrees with are kept.
Accept ==
    /\ verify # None
    /\ LET kept(k) == Max({n \in 1 .. Len(verify.fed[k]) :
                             /\ req[verify.rows[k]].done + n <= Len(Text[verify.rows[k]])
                             /\ \A i \in 1 .. n : verify.fed[k][i] = Text[verify.rows[k]][req[verify.rows[k]].done + i]})
           row(r) == CHOOSE k \in DOMAIN verify.rows : verify.rows[k] = r
           rs == Range(verify.rows)
       IN  /\ state' = [s \in Slots |-> IF s - 1 \in rs THEN verify.states[row(s - 1)][kept(row(s - 1))] ELSE state[s]]
           /\ req' = [r \in Reqs |-> IF r \in rs THEN [req[r] EXCEPT !.done = @ + kept(row(r))] ELSE req[r]]
    /\ verify' = None /\ looked' = {}
    /\ UNCHANGED <<config, cache>>

\* A new slot is cleared, or filled from the cache.
Admit(r) ==
    /\ req[r].done < 0 /\ verify = None
    /\ \E prefix \in {<<>>} \cup DOMAIN cache :
         /\ IsPrefix(prefix, Text[r]) /\ Len(prefix) < PromptLen[r]
         /\ state' = [state EXCEPT ![Slot(r)] = IF prefix = <<>> THEN Fresh ELSE cache[prefix]]
         /\ req' = [req EXCEPT ![r] = [done |-> Len(prefix), tracked |-> 0]]
    /\ looked' = {}
    /\ UNCHANGED <<config, verify, cache>>

\* The track slot is handed to the prefix cache.
Donate(r) ==
    /\ req[r].tracked > 0 /\ verify = None
    /\ LET prefix == SubSeq(Text[r], 1, req[r].tracked)
       IN  cache' = [p \in DOMAIN cache \cup {prefix} |->
                       IF p \in DOMAIN cache THEN cache[p] ELSE state[TrackSlot(r)]]
    /\ req' = [req EXCEPT ![r].tracked = 0]
    /\ looked' = {}
    /\ UNCHANGED <<config, state, verify>>

Finish(r) ==
    /\ req[r].done = Len(Text[r]) /\ req[r].tracked = 0
    /\ req' = [req EXCEPT ![r].done = -1]
    /\ looked' = {}
    /\ UNCHANGED <<config, state, verify, cache>>

Init ==
    /\ config \in Configs
    /\ state = [s \in Slots |-> Dummy]
    /\ req = [r \in Reqs |-> [done |-> -1, tracked |-> 0]]
    /\ verify = None /\ cache = <<>> /\ looked = {}

Next ==
    \/ Extend \/ Decode \/ TargetVerify \/ Accept
    \/ \E r \in Reqs : Admit(r) \/ Donate(r) \/ Finish(r)
Spec == Init /\ [][Next]_vars

----------------------------------------------------------------------------
(* Properties                                                              *)

\* The state after a history: its last tokens and convolution inputs.
StateAfter(hist) ==
    [ngram |-> [i \in 1 .. NgramSize - 1 |->
                  LET p == Len(hist) - (NgramSize - 1) + i IN IF p > 0 THEN hist[p] ELSE Eos],
     conv  |-> [i \in 1 .. StateLen |->
                  LET p == Len(hist) - StateLen + i IN IF p > 0 THEN SubSeq(hist, 1, p) ELSE Zero]]

\* Whatever chunks, graphs, drafts and cache hits a text went through, every
\* token is hashed with the tokens before it up to the last end of text, and
\* convolved with the inputs Dilation apart, as if the whole text were one row.
LookupTrue ==
    \A l \in looked :
      LET p == Len(l.hist)
      IN  /\ \A n \in 0 .. NgramSize - 1 :
               l.ids[n + 1] = IF n < p /\ \A i \in p - n .. p - 1 : l.hist[i] # Eos
                              THEN l.hist[p - n] ELSE Eos
          /\ \A j \in 0 .. Kernel - 1 :
               l.taps[Kernel - j] = IF j * Dilation < p THEN SubSeq(l.hist, 1, p - j * Dilation) ELSE Zero

\* A request's slot holds the state after exactly its committed tokens: no
\* padding row, rejected draft or other request reaches it.
StateTrue ==
    \A r \in Running : state[Slot(r)] = StateAfter(SubSeq(Text[r], 1, req[r].done))

\* What the prefix cache takes over is the state after the cached prefix.
CacheTrue ==
    \A p \in DOMAIN cache : cache[p] = StateAfter(p)
=============================================================================
