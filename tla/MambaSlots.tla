----------------------------- MODULE MambaSlots -----------------------------
(***************************************************************************)
(* Request slots, recurrent-state slots and cached checkpoints of a hybrid *)
(* model: runtime-src/memory_pool.py (ReqToTokenPool, MambaPool,           *)
(* HybridReqToTokenPool with extra buffer), mamba_checkpoint_pool.py, the  *)
(* deferred clear and copy-on-write of model_runner.py and the track       *)
(* targets of qwen4_exp.py.                                                *)
(*                                                                         *)
(* The state in a slot is the token sequence folded into it.  A scheduler  *)
(* launches forwards on one in-order stream and processes their results    *)
(* later; with overlap it launches a forward before the result of the one  *)
(* before is known, so a finished or retracted request can leave a forward *)
(* behind that still writes to the slots it captured.  The scheduler, the  *)
(* radix cache and MambaSlotAllocator are not in this repository: they are *)
(* modelled by the calls the pools are written for.                        *)
(***************************************************************************)
EXTENDS Integers, Sequences, FiniteSets

CONSTANTS
    Reqs,           \* requests; one that ended may be submitted again
    Text,           \* Text[r]: prompt and longest answer of r
    PromptLen,      \* PromptLen[r]
    Interval,       \* mamba_track_interval
    ReqSize,        \* request slots, without the padding slot 0
    MambaSize,      \* active state slots, without the padding slot 0
    CkptSize,       \* int8 checkpoint slots
    MaxAdmits,      \* bound: admissions of a request between two flushes
    Configs         \* server configurations: overlap (enable_overlap_schedule),
                    \* lazy (enable_mamba_extra_buffer_lazy), int8 (there is an
                    \* int8 checkpoint pool), chunk (chunked prefill size)

ASSUME SlotAssumption ==
    /\ {Interval, ReqSize, MambaSize, MaxAdmits} \subseteq Nat \ {0}
    /\ CkptSize \in Nat
    /\ Configs \subseteq [overlap : BOOLEAN, lazy : BOOLEAN, int8 : BOOLEAN,
                          chunk : Nat \ {0}]

ASSUME TextAssumption ==
    /\ DOMAIN Text = Reqs /\ DOMAIN PromptLen = Reqs
    /\ \A r \in Reqs : Text[r] \in Seq({Text[r][i] : i \in DOMAIN Text[r]})
    /\ \A r \in Reqs : PromptLen[r] \in 1 .. Len(Text[r])

\* Two forwards in flight never both reach a decode track boundary.
ASSUME IntervalAssumption == \A g \in Configs : g.overlap => Interval > 1

None == -1
Pad == 0                                \* the reserved slot of every pool
Components == {"recurrent", "side"}     \* MambaPool; its registered siblings
GenMod == 2             \* bound: generations of a slot that Depth can mix up

VARIABLES
    config,         \* the configuration the server was started with
    free_slots,     \* ReqToTokenPool.free_slots, popped at the tail
    req_generation,
    mamba_map,      \* req_index_to_mamba_index_mapping
    track_map,      \* req_index_to_mamba_ping_pong_track_buffer_mapping
    mamba_free,     \* free slots of the active pool
    ckpt_free,      \* free slots of the int8 pool
    req,            \* fields of the requests
    admitted,       \* admissions of a request since the last flush
    cache,          \* radix cache: prefix -> slot of its checkpoint
    mamba, ckpt,    \* state of a slot, per component
    stream,         \* forwards launched and not executed
    results         \* forwards executed and not processed

poolVars == <<free_slots, req_generation, mamba_map, track_map, mamba_free>>
stateVars == <<mamba, ckpt>>
vars == <<config, poolVars, ckpt_free, req, admitted, cache, stateVars,
          stream, results>>

Overlap == config.overlap
Lazy == config.lazy
Int8 == config.int8
BufferSize == IF Overlap THEN 2 ELSE 1  \* mamba_ping_pong_track_buffer_size
Track == 0 .. BufferSize - 1
Depth == IF Overlap THEN 2 ELSE 1       \* forwards launched and unprocessed

ReqSlots == 1 .. ReqSize
MambaIds == 1 .. MambaSize
CkptIds == 1 .. CkptSize
FirstN(r, n) == SubSeq(Text[r], 1, n)
IsPrefixOf(p, s) == Len(p) <= Len(s) /\ SubSeq(s, 1, Len(p)) = p

\* A state that no text produces.
Garbage == <<"garbage">>
Unknown == [c \in Components |-> Garbage]

\* What a slot holds matters while somebody owns it: the state of a free slot is
\* abstracted to garbage, the worst its last owner can have left.
Scrub(m, free) == [s \in DOMAIN m |-> IF s \in free THEN Unknown ELSE m[s]]

-----------------------------------------------------------------------------
(* States. *)

\* The state after folding tokens into a state.
Fold(h, toks) ==
    IF \E r \in Reqs : IsPrefixOf(h \o toks, Text[r]) THEN h \o toks ELSE Garbage

\* Mutant of ClearSlots: the sibling states are left alone.
ClearSlotsNoSiblings(m, s) == [m EXCEPT ![s]["recurrent"] = <<>>]

\* clear_slots: the siblings are reset with the mamba cache.
ClearSlots(m, s) == [m EXCEPT ![s] = [c \in Components |-> <<>>]]

\* copy_from: the copy-on-write of a cache hit, siblings included.
CopyFrom(m, src, s) == [m EXCEPT ![s] = m[src]]

\* store_from_active: a checkpoint takes the state and its mirrored side states.
StoreFromActive(k, m, s, c) == [k EXCEPT ![c] = m[s]]

\* load_to_active: the copy-on-write from an int8 checkpoint.
LoadToActive(m, k, c, s) == [m EXCEPT ![s] = k[c]]

\* _maybe_execute_deferred_mamba_cow_and_clear, for one request of a forward.
DeferredCowAndClear(w) ==
    LET m == IF w.clear THEN ClearSlots(mamba, w.dst) ELSE mamba
    IN  IF w.cow = None THEN m
        ELSE IF Int8 THEN LoadToActive(m, ckpt, w.cow, w.dst)
        ELSE CopyFrom(m, w.cow, w.dst)

-----------------------------------------------------------------------------
(* Pools. *)

\* MambaSlotAllocator.alloc: n free slots, chosen as a function of the free set.
Take(free, n) == CHOOSE s \in [1 .. n -> free] : \A i, j \in 1 .. n : i # j => s[i] # s[j]

\* Mutant of OtherIdx: one index for both.
SameIdx(i) == i

\* get_mamba_ping_pong_other_idx
OtherIdx(i) == IF BufferSize = 2 THEN 1 - i ELSE i

\* Slots that _alloc_ping_pong_buffer takes at once.
BufferSlots == IF Lazy THEN 1 ELSE BufferSize

NoBuffer == [i \in Track |-> None]

\* Fields of a request that holds nothing.
Idle == [req_pool_idx |-> None, mamba_pool_idx |-> None, buffer |-> NoBuffer,
         next |-> 0, last |-> 0, pos |-> 0, tracked |-> 0, lock |-> <<>>]

\* Fields of a request right after alloc, given its slots and the prefix hit:
\* slots[1] is the state slot, the others fill the ping-pong buffer.
Allocated(idx, slots, p) ==
    [req_pool_idx |-> idx, mamba_pool_idx |-> slots[1],
     buffer |-> [i \in Track |-> IF i < BufferSlots THEN slots[i + 2] ELSE None],
     next |-> 0, last |-> IF Lazy THEN 0 ELSE OtherIdx(0),
     pos |-> Len(p), tracked |-> 0, lock |-> p]

\* Mutant of SyncedTrackMap: only the request's buffer is updated.
UnsyncedTrackMap(q) == track_map

\* The device mapping after set_mamba_ping_pong_slot or alloc for request q.
SyncedTrackMap(q) == [track_map EXCEPT ![q.req_pool_idx] = q.buffer]

\* Mutant of BufferToFree: the absent slot of a lazy buffer is freed too.
BufferToFreeAbsent(b, keep) == {b[i] : i \in Track \ {keep}}

\* free_mamba_cache: what it frees of a buffer b when index keep is kept.
BufferToFree(b, keep) ==
    {b[i] : i \in Track \ {keep}} \ (IF Lazy THEN {None} ELSE {})

\* Everything free_mamba_cache gives back; the buffer is read from the device.
Freed(q, keep) == {q.mamba_pool_idx} \cup BufferToFree(track_map[q.req_pool_idx], keep)

-----------------------------------------------------------------------------
(* Launching forwards. *)

Outstanding == Len(stream) + Len(results)

\* Work w belongs to the present life of its request.
Live(w) == req[w.r].req_pool_idx = w.idx /\ req_generation[w.idx] = w.gen

WorkOf(q, s) == \E i \in 1 .. Len(s) : s[i].r = q /\ Live(s[i])

\* The longest cached proper prefix of the prompt.
Hits(r) == {p \in DOMAIN cache : Len(p) < PromptLen[r] /\ IsPrefixOf(p, Text[r])}
LongestHit(r) ==
    IF Hits(r) = {} THEN <<>>
    ELSE CHOOSE p \in Hits(r) : \A o \in Hits(r) : Len(o) <= Len(p)

\* mamba_track_aligned_lens: tokens of an extend up to its last track boundary.
AlignedLen(n) == (n \div Interval) * Interval

\* The request with the tracked slot of this launch filled in: a lazy buffer gets
\* the missing slot on demand (set_mamba_ping_pong_slot).
Filled(q, free) ==
    IF q.buffer[q.next] = None
    THEN [q EXCEPT !.buffer[q.next] = Take(free, 1)[1]] ELSE q

\* Launch the tokens after q.pos up to `to'.  q is request r after allocation,
\* free the slots left; off is the track offset, 0 when the row is masked off.
Launch(r, q, free, to, off, clear, cow, advance) ==
    LET f == IF off > 0 THEN Filled(q, free) ELSE q
        moved == IF off > 0 /\ advance
                 THEN [f EXCEPT !.last = f.next, !.next = OtherIdx(f.next),
                                !.tracked = f.pos + off]
                 ELSE f
        idx == q.req_pool_idx
    IN  /\ off > 0 /\ q.buffer[q.next] = None => free # {}
        /\ req' = [req EXCEPT ![r] = [moved EXCEPT !.pos = to]]
        /\ mamba_free' = free \ {f.buffer[i] : i \in Track}
        /\ mamba_map' = [mamba_map EXCEPT ![idx] = q.mamba_pool_idx]
        /\ track_map' = SyncedTrackMap(f)
        /\ stream' = Append(stream,
               [r |-> r, idx |-> idx, gen |-> req_generation'[idx],
                from |-> q.pos, to |-> to, off |-> off,
                track |-> IF off > 0 THEN f.buffer[f.next] ELSE Pad,
                clear |-> clear, cow |-> cow, dst |-> q.mamba_pool_idx,
                extend |-> advance])
        /\ UNCHANGED <<config, ckpt_free, cache, stateVars, results>>

ChunkEnd(r, n) ==
    IF n + config.chunk < PromptLen[r] THEN n + config.chunk ELSE PromptLen[r]

\* First chunk of a waiting request: prefix match, copy-on-write slot or a slot
\* that needs a clear, alloc of both pools, then the extend.
LaunchFirst(r) ==
    LET p == LongestHit(r)
        slots == Take(mamba_free, 1 + BufferSlots)
        idx == free_slots[Len(free_slots)]
        to == ChunkEnd(r, Len(p))
    IN  /\ req[r].req_pool_idx = None
        /\ admitted[r] < MaxAdmits
        /\ admitted' = [admitted EXCEPT ![r] = @ + 1]
        /\ Outstanding < Depth
        /\ free_slots # <<>>
        /\ Cardinality(mamba_free) >= 1 + BufferSlots
        /\ free_slots' = SubSeq(free_slots, 1, Len(free_slots) - 1)
        /\ req_generation' = [req_generation EXCEPT ![idx] = (@ + 1) % GenMod]
        /\ Launch(r, Allocated(idx, slots, p),
                  mamba_free \ {slots[i] : i \in DOMAIN slots},
                  to, AlignedLen(to - Len(p)),
                  p = <<>>, IF p = <<>> THEN None ELSE cache[p], TRUE)

\* A further chunk reuses the slots of the request.
LaunchChunk(r) ==
    LET to == ChunkEnd(r, req[r].pos)
    IN  /\ req[r].req_pool_idx # None
        /\ req[r].pos < PromptLen[r]
        /\ Outstanding < Depth
        /\ ~WorkOf(r, stream) /\ ~WorkOf(r, results)
        /\ UNCHANGED <<free_slots, req_generation, admitted>>
        /\ Launch(r, req[r], mamba_free, to, AlignedLen(to - req[r].pos),
                  FALSE, None, TRUE)

\* One decode step; the answer may not be known to have ended.
LaunchDecode(r) ==
    LET to == req[r].pos + 1
    IN  /\ req[r].req_pool_idx # None
        /\ req[r].pos >= PromptLen[r] /\ to <= Len(Text[r])
        /\ Outstanding < Depth
        /\ UNCHANGED <<free_slots, req_generation, admitted>>
        /\ Launch(r, req[r], mamba_free, to, IF to % Interval = 0 THEN 1 ELSE 0,
                  FALSE, None, FALSE)

-----------------------------------------------------------------------------
(* Executing a forward. *)

\* Mutant of TrackedSides: side states are never written to the track slot.
NoTrackedSides == {"recurrent"}

\* Components written to the track slot: the recurrent kernels and the side
\* states (_ple_track_targets).
TrackedSides == Components

\* The gather offset of the track snapshot.
SnapshotLen(w) == w.off

\* What processing the result needs of a forward.
ResultOf(w) == [f \in {"r", "idx", "gen", "to", "off", "extend"} |-> w[f]]

\* The head of the stream runs: deferred clear and copy-on-write, then the
\* layers read and write the slot the mapping names now, and the track slot
\* captured at launch gets the state at the track offset.  Slot 0 is never read.
Execute ==
    LET w == Head(stream)
        m == DeferredCowAndClear(w)
        s == mamba_map[w.idx]
        Upto(n) == [c \in Components |->
                       Fold(m[s][c], SubSeq(Text[w.r], w.from + 1, w.from + n))]
        done == [m EXCEPT ![s] = Upto(w.to - w.from)]
    IN  /\ stream # <<>>
        /\ mamba' = Scrub(IF w.track = Pad THEN done
                          ELSE [done EXCEPT ![w.track] =
                                  [c \in Components |-> IF c \in TrackedSides
                                       THEN Upto(SnapshotLen(w))[c] ELSE @[c]]], mamba_free)
        /\ stream' = Tail(stream)
        /\ results' = Append(results, ResultOf(w))
        /\ UNCHANGED <<config, admitted, poolVars, ckpt_free, req, cache, ckpt>>

-----------------------------------------------------------------------------
(* Processing results. *)

\* The result of a request that ended or was retracted in the meantime.
DropStale ==
    /\ results # <<>> /\ ~Live(Head(results))
    /\ results' = Tail(results)
    /\ UNCHANGED <<config, admitted, poolVars, ckpt_free, req, cache, stateVars, stream>>

\* The request after the bookkeeping of a result: a decode that reached a track
\* boundary makes its track slot the last one and moves on to the other.
Booked(w) ==
    LET q == req[w.r]
    IN  IF ~w.extend /\ w.off > 0
        THEN [q EXCEPT !.last = q.next, !.next = OtherIdx(q.next), !.tracked = w.to]
        ELSE q

\* get_mamba_ping_pong_keep_idx: the index of the most recent tracked state.
KeepIdx(q) == q.last

\* The cache takes the checkpoint of prefix p that sits in active slot s, as it
\* is or through the int8 pool, unless it has one or that pool is full; free is
\* the active free set, and s is given back when it is not used.
Insert(p, s, free) ==
    LET c == Take(ckpt_free, 1)[1]
        new == IF Int8 THEN c ELSE s
    IN  /\ IF p \in DOMAIN cache \/ (Int8 /\ ckpt_free = {})
           THEN mamba_free' = free \cup {s} /\ UNCHANGED <<cache, ckpt, ckpt_free>>
           ELSE /\ cache' = [o \in DOMAIN cache \cup {p} |->
                                 IF o = p THEN new ELSE cache[o]]
                /\ mamba_free' = IF Int8 THEN free \cup {s} ELSE free
                /\ IF Int8
                   THEN /\ ckpt_free' = ckpt_free \ {c}
                        /\ ckpt' = StoreFromActive(ckpt, mamba, s, c)
                   ELSE UNCHANGED <<ckpt, ckpt_free>>
        /\ mamba' = Scrub(mamba, mamba_free')

\* Result of an extend whose request goes on: cache_unfinished_req donates the
\* tracked slot (donate_mamba_ping_pong_slot) for a fresh one.
CacheUnfinished ==
    LET w == Head(results)
        q == req[w.r]
        p == FirstN(w.r, q.tracked)
        new == Take(mamba_free, 1)[1]
        donated == q.buffer[KeepIdx(q)]
        after == [q EXCEPT !.buffer[KeepIdx(q)] = new, !.tracked = 0,
                            !.lock = IF p \in DOMAIN cache' THEN p ELSE @]
    IN  /\ results # <<>> /\ Live(w) /\ w.extend
        /\ results' = Tail(results)
        /\ IF q.tracked = 0
           THEN UNCHANGED <<poolVars, ckpt_free, req, cache, stateVars>>
           ELSE /\ mamba_free # {}
                /\ Insert(p, donated, mamba_free \ {new})
                /\ req' = [req EXCEPT ![w.r] = after]
                /\ track_map' = SyncedTrackMap(after)
                /\ UNCHANGED <<free_slots, req_generation, mamba_map>>
        /\ UNCHANGED <<config, admitted, stream>>

\* Result of a decode whose request goes on.
ContinueDecode ==
    LET w == Head(results)
    IN  /\ results # <<>> /\ Live(w) /\ ~w.extend
        /\ w.to < Len(Text[w.r])
        /\ results' = Tail(results)
        /\ req' = [req EXCEPT ![w.r] = Booked(w)]
        /\ UNCHANGED <<config, admitted, poolVars, ckpt_free, cache, stateVars, stream>>

\* free_mamba_cache, then ReqToTokenPool.free.
Release(r, q) ==
    /\ free_slots' = Append(free_slots, q.req_pool_idx)
    /\ req' = [req EXCEPT ![r] = Idle]
    /\ UNCHANGED <<req_generation, mamba_map, track_map>>

\* Result that ends the request: cache_finished_req keeps the tracked slot for
\* the cache and the rest is freed.  A decode launched since stays in flight.
Finish ==
    LET w == Head(results)
        q == Booked(w)
        p == FirstN(w.r, q.tracked)
        keep == IF q.tracked = 0 THEN None ELSE KeepIdx(q)
    IN  /\ results # <<>> /\ Live(w) /\ w.to >= PromptLen[w.r]
        /\ results' = Tail(results)
        /\ IF keep = None
           THEN /\ mamba_free' = mamba_free \cup Freed(q, None)
                /\ mamba' = Scrub(mamba, mamba_free')
                /\ UNCHANGED <<ckpt_free, cache, ckpt>>
           ELSE Insert(p, q.buffer[keep], mamba_free \cup Freed(q, keep))
        /\ Release(w.r, q)
        /\ UNCHANGED <<config, admitted, stream>>

\* Retraction of a decoding request: it gives everything back and waits.
Retract(r) ==
    /\ req[r].req_pool_idx # None /\ req[r].pos >= PromptLen[r]
    /\ mamba_free' = mamba_free \cup Freed(req[r], None)
    /\ mamba' = Scrub(mamba, mamba_free')
    /\ Release(r, req[r])
    /\ UNCHANGED <<config, admitted, ckpt_free, cache, ckpt, stream, results>>

\* The radix cache evicts a checkpoint no request protects.
Evict(p) ==
    /\ \A r \in Reqs : req[r].lock # p
    /\ cache' = [o \in DOMAIN cache \ {p} |-> cache[o]]
    /\ IF Int8 THEN ckpt_free' = ckpt_free \cup {cache[p]} /\ UNCHANGED mamba_free
               ELSE mamba_free' = mamba_free \cup {cache[p]} /\ UNCHANGED ckpt_free
    /\ mamba' = Scrub(mamba, mamba_free') /\ ckpt' = Scrub(ckpt, ckpt_free')
    /\ UNCHANGED <<config, admitted, free_slots, req_generation, mamba_map, track_map, req,
                   stream, results>>

\* Mutant of CkptFreeAfterClear: the int8 slots are not released.
CkptFreeKept == ckpt_free

\* clear: the int8 pool is emptied with the radix tree.
CkptFreeAfterClear == CkptIds

\* Flush of an idle server: the radix tree is dropped, then clear.
Flush ==
    /\ \A r \in Reqs : req[r] = Idle
    /\ Outstanding = 0
    /\ admitted' = [r \in Reqs |-> 0]
    /\ cache' = <<>>
    /\ free_slots' = [i \in ReqSlots |-> i]
    /\ req_generation' = [i \in ReqSlots |-> 0]
    /\ mamba_map' = [i \in ReqSlots |-> Pad]
    /\ track_map' = [i \in ReqSlots |-> [j \in Track |-> Pad]]
    /\ mamba_free' = MambaIds
    /\ ckpt_free' = CkptFreeAfterClear
    /\ mamba' = Scrub(mamba, mamba_free') /\ ckpt' = Scrub(ckpt, ckpt_free')
    /\ UNCHANGED <<config, req, stream, results>>

Init ==
    /\ config \in Configs
    /\ free_slots = [i \in ReqSlots |-> i]
    /\ req_generation = [i \in ReqSlots |-> 0]
    /\ mamba_map = [i \in ReqSlots |-> Pad]
    /\ track_map = [i \in ReqSlots |-> [j \in Track |-> Pad]]
    /\ mamba_free = MambaIds /\ ckpt_free = CkptIds
    /\ req = [r \in Reqs |-> Idle] /\ admitted = [r \in Reqs |-> 0]
    /\ cache = <<>>
    /\ mamba = [s \in MambaIds |-> Unknown] /\ ckpt = [s \in CkptIds |-> Unknown]
    /\ stream = <<>> /\ results = <<>>

Next ==
    \/ \E r \in Reqs : LaunchFirst(r)
    \/ \E r \in Reqs : LaunchChunk(r)
    \/ \E r \in Reqs : LaunchDecode(r)
    \/ Execute
    \/ DropStale
    \/ CacheUnfinished
    \/ ContinueDecode
    \/ Finish
    \/ \E r \in Reqs : Retract(r)
    \/ \E p \in DOMAIN cache : Evict(p)
    \/ Flush

Spec == Init /\ [][Next]_vars

-----------------------------------------------------------------------------
(* Properties. *)


\* Type invariant.
TypeOK ==
    /\ \A i \in 1 .. Len(free_slots) : free_slots[i] \in ReqSlots
    /\ req_generation \in [ReqSlots -> 0 .. GenMod - 1]
    /\ mamba_map \in [ReqSlots -> MambaIds \cup {Pad}]
    /\ track_map \in [ReqSlots -> [Track -> MambaIds \cup {Pad, None}]]
    /\ mamba_free \subseteq MambaIds /\ ckpt_free \subseteq CkptIds
    /\ \A r \in Reqs : /\ req[r].req_pool_idx \in ReqSlots \cup {None}
                       /\ req[r].mamba_pool_idx \in MambaIds \cup {None}
                       /\ req[r].buffer \in [Track -> MambaIds \cup {None}]
                       /\ {req[r].next, req[r].last} \subseteq Track
    /\ DOMAIN mamba = MambaIds /\ DOMAIN ckpt = CkptIds
    /\ Outstanding <= Depth

\* Everything that holds active slot s.
Owners(s) ==
       {<<"free">> : x \in mamba_free \cap {s}}
  \cup {<<"cached", p>> : p \in {o \in DOMAIN cache : ~Int8 /\ cache[o] = s}}
  \cup {<<"active", r>> : r \in {q \in Reqs : req[q].mamba_pool_idx = s}}
  \cup {<<"track", x[1], x[2]>> :
            x \in {y \in Reqs \X Track : req[y[1]].buffer[y[2]] = s}}

CkptOwners(c) ==
       {<<"free">> : x \in ckpt_free \cap {c}}
  \cup {<<"cached", p>> : p \in {o \in DOMAIN cache : Int8 /\ cache[o] = c}}

\* No slot leaks and none is handed out twice: through donation, lazy fill,
\* retraction, eviction and flush every active slot and every int8 slot has
\* exactly one owner, and so has every request slot (alloc, free_mamba_cache,
\* donate_mamba_ping_pong_slot, clear).
SlotLedger ==
    /\ \A s \in MambaIds : Cardinality(Owners(s)) = 1
    /\ \A c \in CkptIds : Cardinality(CkptOwners(c)) = 1
    /\ \A i \in ReqSlots :
         Cardinality({j \in DOMAIN free_slots : free_slots[j] = i})
           + Cardinality({r \in Reqs : req[r].req_pool_idx = i}) = 1

\* The device tables agree with the books of every running request, so that
\* free_mamba_cache, which reads the device, frees what the request holds.
MapCoherent ==
    \A r \in Reqs : req[r].req_pool_idx # None =>
        /\ mamba_map[req[r].req_pool_idx] = req[r].mamba_pool_idx
        /\ track_map[req[r].req_pool_idx] = req[r].buffer

\* A cached checkpoint of a prefix holds that prefix in every component, whoever
\* owned its slot before and whatever stale forward still runs (the docstring of
\* _ple_track_targets; donate_mamba_ping_pong_slot; store_from_active).
CachedTrue ==
    \A p \in DOMAIN cache : \A c \in Components :
        p = (IF Int8 THEN ckpt ELSE mamba)[cache[p]][c]

\* A running request whose forwards have all executed has exactly its tokens in
\* its slot: the deferred clear or copy-on-write came after the last write of the
\* slot's previous owner (clear_slots, copy_from, load_to_active).
RunningTrue ==
    \A r \in Reqs : req[r].req_pool_idx # None /\ ~WorkOf(r, stream) =>
        \A c \in Components :
            mamba[req[r].mamba_pool_idx][c] = FirstN(r, req[r].pos)

\* No forward in flight, stale or not, writes its track snapshot into a slot the
\* cache owns: the ping-pong buffer tracks into the index that was not donated.
PingPong ==
    ~Int8 => \A i \in 1 .. Len(stream) : \A p \in DOMAIN cache :
                 cache[p] # stream[i].track
=============================================================================
