------------------------------ MODULE QsaTopK ------------------------------
(***************************************************************************)
(* The selection of the sparse attention indexer (runtime-src/mqa.py with  *)
(* the split-K patch, kernel.py, fast_topk.py): scores of compressed keys  *)
(* computed by independent thread blocks, masked to the window of each     *)
(* query, the best blocks of tokens picked, and the blocks expanded to     *)
(* token positions.                                                        *)
(*                                                                         *)
(* A key stands for Ratio tokens of a request and has an arbitrary score.  *)
(* Thread blocks of a launch run in any order.  The packing of requests    *)
(* into rows and windows is done by the attention backend, outside this    *)
(* repository.                                                             *)
(***************************************************************************)
EXTENDS Integers, Sequences, FiniteSets, FiniteSetsExt, SequencesExt

CONSTANTS
    Ratio,      \* compress_ratio: tokens per key
    BlockN,     \* keys per tile of the prefill kernel
    BlockQ,     \* query rows per thread block
    Split,      \* thread blocks that share the tiles of a block of rows
    Group,      \* keys per tile of the decode kernel
    PageSize,   \* keys per page of the compressed cache
    MaxScore,   \* bound of the scores
    Jobs        \* launches: see JobShape

\* lens: tokens of each request.  rows: the queries, <<request, position>>, one
\* row each.  first: the column of each request's first key; prefill packs the
\* keys of all requests, decode gives each row columns of its own.  keys: the
\* columns.  decode: one query per request over the paged cache.  topk:
\* token_topk.  cuda: the expansion kernel instead of the reference.
ASSUME SizeAssumption ==
    /\ {Ratio, BlockN, BlockQ, Split, Group, PageSize} \subseteq Nat \ {0}
    /\ Group % PageSize = 0
JobShape(j) ==
    /\ DOMAIN j = {"lens", "rows", "first", "keys", "decode", "topk", "cuda"}
    /\ j.lens \in Seq(Nat \ {0}) /\ j.first \in [DOMAIN j.lens -> Nat] /\ j.keys \in Nat
    /\ j.rows \in Seq((DOMAIN j.lens) \X Nat)
    /\ \A row \in DOMAIN j.rows : j.rows[row][2] < j.lens[j.rows[row][1]]
    /\ j.decode \in BOOLEAN /\ j.cuda \in BOOLEAN /\ j.topk \in Nat \ {0}
    /\ \A r \in DOMAIN j.lens : j.first[r] + j.lens[r] \div Ratio <= j.keys
    /\ IF j.decode
       THEN \A r \in DOMAIN j.lens : j.first[r] = 0
       ELSE /\ \A q, r \in DOMAIN j.lens : q < r => j.first[q] + j.lens[q] \div Ratio <= j.first[r]
            /\ \A k \in 0 .. j.keys - 1 : \E r \in DOMAIN j.lens :
                  k \in j.first[r] .. j.first[r] + j.lens[r] \div Ratio - 1
ASSUME JobAssumption == \A j \in Jobs : JobShape(j)

VARIABLES
    job,        \* the launch
    score,      \* score[r][i]: score of the i-th key of request r
    logits,     \* logits[row][column], columns counted from 0
    todo,       \* thread blocks that have not run
    masked,     \* rows the mask kernel has done (prefill)
    picked,     \* picked[row]: the blocks selected, relative to the window
    tokens      \* tokens[row]: the positions handed to attention

vars == <<job, score, logits, todo, masked, picked, tokens>>

None == <<>>
NegInf == -1
Unwritten == 0                      \* torch.zeros; scores start at 1 here
CeilDiv(a, b) == (a + b - 1) \div b
Requests == DOMAIN job.lens
KeysOf(r) == job.lens[r] \div Ratio

----------------------------------------------------------------------------
(* Rows and windows                                                        *)

Rows == job.rows
NumRows == Len(Rows)
Base(r) == job.first[r]
Start(row) == Base(Rows[row][1])
\* Keys whose tokens the query may see.
End(row) == Start(row) + (Rows[row][2] + 1) \div Ratio
NumKeys == job.keys
Columns == 0 .. NumKeys - 1
ScoreAt(row, column) ==
    LET r == IF job.decode THEN Rows[row][1]
             ELSE CHOOSE r \in Requests : column \in Base(r) .. Base(r) + KeysOf(r) - 1
    IN  score[r][column - Base(r) + 1]

----------------------------------------------------------------------------
(* Prefill kernel                                                          *)

\* The last window is repeated for the rows that fill the last block.
RowBlocks == CeilDiv(NumRows, BlockQ)
BlockRows(b) == {IF i <= NumRows THEN i ELSE NumRows : i \in (b - 1) * BlockQ + 1 .. b * BlockQ}
Clipped(n) == IF n < NumKeys THEN n ELSE NumKeys
StartMin(b) == Min({Clipped(Start(row)) : row \in BlockRows(b)})
EndMax(b) == Max({Clipped(End(row)) : row \in BlockRows(b)})
Tiles(b) == CeilDiv(EndMax(b) - StartMin(b), BlockN)

\* Fault: every thread block gets the rounded down share.
TileRangeFloor(b, s) == LET n == Tiles(b) \div Split IN n * s .. n * (s + 1) - 1
TileRange(b, s) ==
    (Tiles(b) * s) \div Split .. ((Tiles(b) * (s + 1)) \div Split) - 1

PrefillColumns(b, s) ==
    {StartMin(b) + t * BlockN + n : t \in TileRange(b, s), n \in 0 .. BlockN - 1} \cap Columns
PrefillBlock(b, s) ==
    logits' = [row \in DOMAIN logits |-> [k \in Columns |->
                 IF row \in BlockRows(b) /\ k \in PrefillColumns(b, s)
                 THEN ScoreAt(row, k) ELSE logits[row][k]]]

MaskRow(row) ==
    /\ todo = {} /\ ~job.decode /\ row \notin masked
    /\ logits' = [logits EXCEPT ![row] =
                    [k \in Columns |-> IF k < Start(row) \/ k >= End(row) THEN NegInf ELSE @[k]]]
    /\ masked' = masked \cup {row}
    /\ UNCHANGED <<job, score, todo, picked, tokens>>

----------------------------------------------------------------------------
(* Decode kernel                                                           *)

SubPages == Group \div PageSize
MaxPages == CeilDiv(NumKeys, PageSize)
\* A page lies anywhere in the pool; what counts is which page a tile loads.
PageTable(row, page) == <<Rows[row][1], page>>
KeyOfPage(p, offset) == <<p[1], (p[2] * PageSize) + offset>>
\* Rows of the tile whose page is past the context keep what was there before.
TileKey(row, g, i) ==
    LET page == g * SubPages + i \div PageSize
    IN  IF page * PageSize < End(row) THEN KeyOfPage(PageTable(row, page), i % PageSize) ELSE None

DecodeGroup(row, g) ==
    logits' = [logits EXCEPT ![row] = [k \in Columns |->
                 IF k \in g * Group .. (g + 1) * Group - 1 /\ k < End(row)
                 THEN LET key == TileKey(row, g, k - g * Group)
                      IN  score[key[1]][key[2] + 1]
                 ELSE @[k]]]

----------------------------------------------------------------------------
(* Selection and expansion                                                 *)

BlockTopk == CeilDiv(job.topk, Ratio)
FinalTopk == job.topk + Ratio - 1

\* The best blocks of the window in any order, relative to its start.
FastTopk(row) ==
    LET length == End(row) - Start(row)
        width == IF length < BlockTopk THEN length ELSE BlockTopk
        f == [i \in 0 .. length - 1 |-> logits[row][Start(row) + i]]
    IN  UNION {SetToSeqs(X) : X \in {X \in kSubset(width, DOMAIN f) :
                                \A x \in X, y \in DOMAIN f \ X : f[x] >= f[y]}}
Padded(blocks) == blocks \o [i \in 1 .. BlockTopk - Len(blocks) |-> -1]

TailStart(row) == ((Rows[row][2] + 1) \div Ratio) * Ratio
TailCount(row) == Rows[row][2] + 1 - TailStart(row)
SeqLen(row) == job.lens[Rows[row][1]]
Expanded(blocks, col) ==
    LET b == Padded(blocks)[col \div Ratio + 1]
    IN  IF b >= 0 THEN b * Ratio + (col % Ratio) ELSE -1
TailToken(row, i) == IF i >= 0 /\ i < Ratio - 1 /\ i < TailCount(row) /\ TailStart(row) + i < SeqLen(row)
                THEN TailStart(row) + i ELSE -1

\* The reference moves the holes to the end, by a sort of the positions.
Unsorted(row, blocks) ==
    [col \in 1 .. job.topk |->
        IF Expanded(blocks, col - 1) < SeqLen(row) THEN Expanded(blocks, col - 1) ELSE -1]
    \o [i \in 1 .. Ratio - 1 |-> TailToken(row, i - 1)]
SortKey(result, i) == IF result[i] >= 0 THEN i ELSE i + FinalTopk
Place(result, i) == Cardinality({j \in DOMAIN result : SortKey(result, j) <= SortKey(result, i)})
Sorted(result) ==
    [place \in DOMAIN result |-> result[CHOOSE i \in DOMAIN result : Place(result, i) = place]]
TorchExpand(row, blocks) == Sorted(Unsorted(row, blocks))

\* Fault: the tail goes behind the full width, valid or not.
ValidTokensFull(blocks) == job.topk
\* The kernel counts the valid blocks, which come first.
ValidTokens(blocks) == Min({Len(blocks) * Ratio, job.topk})
TritonExpand(row, blocks) ==
    [col \in 1 .. FinalTopk |->
        LET valid == ValidTokens(blocks)
        IN  IF col - 1 < valid
            THEN IF Expanded(blocks, col - 1) < SeqLen(row) THEN Expanded(blocks, col - 1) ELSE -1
            ELSE TailToken(row, col - 1 - valid)]

Expand(row, blocks) == IF job.cuda THEN TritonExpand(row, blocks) ELSE TorchExpand(row, blocks)

----------------------------------------------------------------------------

Blocks == IF job.decode
          THEN (1 .. NumRows) \X (0 .. CeilDiv(MaxPages, SubPages) - 1)
          ELSE (1 .. RowBlocks) \X (0 .. Split - 1)

Init ==
    /\ job \in Jobs
    /\ score \in {s \in [Requests -> UNION {[1 .. KeysOf(r) -> 1 .. MaxScore] : r \in Requests}] :
                    \A r \in Requests : DOMAIN s[r] = 1 .. KeysOf(r)}
    /\ logits = [row \in 1 .. NumRows |->
                    [k \in Columns |-> IF job.decode THEN NegInf ELSE Unwritten]]
    /\ todo = Blocks
    /\ masked = {} /\ picked = None /\ tokens = None

\* The thread blocks of a launch run in any order.
RunBlock(w) ==
    /\ w \in todo
    /\ IF job.decode THEN DecodeGroup(w[1], w[2]) ELSE PrefillBlock(w[1], w[2])
    /\ todo' = todo \ {w}
    /\ UNCHANGED <<job, score, masked, picked, tokens>>

ScoresDone == todo = {} /\ (job.decode \/ masked = 1 .. NumRows)

SelectBlocks ==
    /\ ScoresDone /\ picked = None
    /\ picked' \in {p \in [1 .. NumRows -> UNION {FastTopk(row) : row \in 1 .. NumRows}] :
                      \A row \in 1 .. NumRows : p[row] \in FastTopk(row)}
    /\ UNCHANGED <<job, score, logits, todo, masked, tokens>>

ExpandBlocks ==
    /\ picked # None /\ tokens = None
    /\ tokens' = [row \in 1 .. NumRows |-> Expand(row, picked[row])]
    /\ UNCHANGED <<job, score, logits, todo, masked, picked>>

Next ==
    \/ \E w \in todo : RunBlock(w)
    \/ \E row \in 1 .. NumRows : MaskRow(row)
    \/ SelectBlocks
    \/ ExpandBlocks
Spec == Init /\ [][Next]_vars

----------------------------------------------------------------------------
(* Properties                                                              *)

\* Whatever way the tiles are split, in whatever order the thread blocks run,
\* the scores equal those of torch_qsa_mqa_prefill and torch_qsa_mqa_decode:
\* the score of every key in the query's window and nothing outside of it.
MatchesReference ==
    ScoresDone =>
      \A row \in 1 .. NumRows : \A k \in Columns :
        logits[row][k] = IF k \in Start(row) .. End(row) - 1 THEN ScoreAt(row, k) ELSE NegInf

\* What attention reads for a query: positions it may see, each once, without
\* holes before the last one; all of its own unfinished block; every visible
\* token while they fit; and no complete block that scores lower than one left
\* out.
TokensSound ==
    tokens # None =>
      \A row \in 1 .. NumRows :
        LET list == tokens[row]
            valid == {i \in DOMAIN list : list[i] >= 0}
            held == {list[i] : i \in valid}
            r == Rows[row][1]
            pos == Rows[row][2]
            Block(b) == b * Ratio .. b * Ratio + Ratio - 1
            full == 0 .. (pos + 1) \div Ratio - 1
        IN  /\ \A i \in valid : list[i] <= pos /\ 1 .. i \subseteq valid
            /\ \A i, j \in valid : list[i] = list[j] => i = j
            /\ TailStart(row) .. pos \subseteq held
            /\ TailStart(row) <= job.topk => \A b \in full : Block(b) \subseteq held
            /\ \A b, d \in full : Block(b) \cap held # {} /\ Block(d) \cap held = {} =>
                  score[r][b + 1] >= score[r][d + 1]
=============================================================================
