------------------------- MODULE MambaSlotsProofs -------------------------
(***************************************************************************)
(* Proofs about MambaSlots, for any requests, texts, pool sizes, track     *)
(* interval and configurations.                                            *)
(***************************************************************************)
EXTENDS MambaSlots, FiniteSetTheorems, SequenceTheorems, WellFoundedInduction,
        TLAPS

-----------------------------------------------------------------------------
(* The inductive invariant. *)

\* Prefixes of the texts: what a cached checkpoint can stand for.
Prefixes == UNION {{FirstN(r, n) : n \in 0 .. Len(Text[r])} : r \in Reqs}

ReqFields ==
    [req_pool_idx : ReqSlots \cup {None}, mamba_pool_idx : MambaIds \cup {None},
     buffer : [Track -> MambaIds \cup {None}], next : Track, last : Track,
     pos : Nat, tracked : Nat, lock : Prefixes \cup {<<>>}]

WorkFields ==
    [r : Reqs, idx : ReqSlots, gen : 0 .. (GenMod - 1), from : Nat, to : Nat,
     off : Nat, track : MambaIds \cup {Pad}, clear : BOOLEAN,
     cow : MambaIds \cup CkptIds \cup {None}, dst : MambaIds, extend : BOOLEAN]

ResultFields ==
    [r : Reqs, idx : ReqSlots, gen : 0 .. (GenMod - 1), to : Nat, off : Nat,
     extend : BOOLEAN]

Types ==
    /\ config \in Configs
    /\ free_slots \in Seq(ReqSlots)
    /\ req_generation \in [ReqSlots -> 0 .. (GenMod - 1)]
    /\ mamba_map \in [ReqSlots -> MambaIds \cup {Pad}]
    /\ track_map \in [ReqSlots -> [Track -> MambaIds \cup {Pad, None}]]
    /\ mamba_free \subseteq MambaIds /\ ckpt_free \subseteq CkptIds
    /\ req \in [Reqs -> ReqFields]
    /\ \A p \in DOMAIN cache : p \in Prefixes
    /\ DOMAIN mamba = MambaIds /\ DOMAIN ckpt = CkptIds
    /\ stream \in Seq(WorkFields) /\ results \in Seq(ResultFields)
    /\ Outstanding <= Depth

Running(r) == req[r].req_pool_idx # None

\* Active slots a request holds, and those of the cache.
Held(q) == ({q.mamba_pool_idx} \cup {q.buffer[i] : i \in Track}) \ {None}
CachedSlots == IF Int8 THEN {} ELSE {cache[p] : p \in DOMAIN cache}
CachedCkpts == IF Int8 THEN {cache[p] : p \in DOMAIN cache} ELSE {}

\* A request holds a slot once.
HeldOnce(q) ==
    /\ \A i \in Track : q.buffer[i] # None => q.buffer[i] # q.mamba_pool_idx
    /\ \A i, j \in Track : q.buffer[i] # None /\ q.buffer[i] = q.buffer[j] => i = j

\* The active slots are partitioned into free, cached and held by one request.
Ledger ==
    /\ \A r \in Reqs : HeldOnce(req[r])
    /\ \A r \in Reqs : Held(req[r]) \cap (mamba_free \cup CachedSlots) = {}
    /\ \A q, r \in Reqs : q # r => Held(req[q]) \cap Held(req[r]) = {}
    /\ mamba_free \cap CachedSlots = {}
    /\ MambaIds = mamba_free \cup CachedSlots \cup UNION {Held(req[r]) : r \in Reqs}

\* So are the int8 slots, and a cached slot has one prefix.
CacheLedger ==
    /\ \A o, p \in DOMAIN cache : cache[o] = cache[p] => o = p
    /\ ckpt_free \cap CachedCkpts = {}
    /\ CkptIds = ckpt_free \cup CachedCkpts

\* And the request slots.
RowLedger ==
    /\ \A i, j \in DOMAIN free_slots : free_slots[i] = free_slots[j] => i = j
    /\ \A r \in Reqs, i \in DOMAIN free_slots : req[r].req_pool_idx # free_slots[i]
    /\ \A q, r \in Reqs : Running(q) /\ req[q].req_pool_idx = req[r].req_pool_idx => q = r
    /\ \A s \in ReqSlots : \/ \E i \in DOMAIN free_slots : free_slots[i] = s
                           \/ \E r \in Reqs : req[r].req_pool_idx = s

\* What the fields of a request say about each other.
Fields(r) ==
    /\ ~Running(r) => req[r] = Idle
    /\ Running(r) =>
         /\ req[r].mamba_pool_idx # None
         /\ ~Lazy => \A i \in Track : req[r].buffer[i] # None
    /\ req[r].tracked <= req[r].pos /\ req[r].pos <= Len(Text[r])
    /\ req[r].tracked # 0 => /\ req[r].buffer[req[r].last] # None
                             /\ BufferSize = 2 => req[r].last # req[r].next

\* The forwards launched and not processed, oldest first.
Flight(i) == IF i <= Len(results) THEN results[i] ELSE stream[i - Len(results)]

\* The forward launched last carries the current generation of its slot; with two
\* in flight at most, an older one that lost its slot can not be taken for live.
\* The positions of the live ones are those of their request, and only a decode
\* is launched behind a forward of the same request.
FlightOrder ==
    /\ Outstanding > 0 =>
         LET w == Flight(Outstanding)
         IN  /\ w.gen = req_generation[w.idx]
             /\ Live(w) => w.to = req[w.r].pos
    /\ Outstanding = 2 =>
         LET u == Flight(1)
             w == Flight(2)
         IN  Live(u) => IF Live(w) /\ w.r = u.r
                        THEN ~w.extend /\ w.to = u.to + 1
                        ELSE u.to = req[u.r].pos

\* A decode is tracked at a boundary only, into a slot its request has.
FlightTracks ==
    \A i \in 1 .. Outstanding :
        LET w == Flight(i)
        IN  /\ ~w.extend /\ w.off > 0 => w.to % Interval = 0
            /\ Live(w) /\ ~w.extend /\ w.off > 0 => req[w.r].buffer[req[w.r].next] # None

SlotInv ==
    /\ Types /\ Ledger /\ CacheLedger /\ RowLedger /\ MapCoherent
    /\ \A r \in Reqs : Fields(r)
    /\ FlightOrder /\ FlightTracks

-----------------------------------------------------------------------------
(* Constants and helpers. *)

\* The ranges the other proofs use.
LEMMA ConstantFacts ==
    /\ ReqSlots \subseteq Nat /\ MambaIds \subseteq Nat /\ CkptIds \subseteq Nat
    /\ None \notin ReqSlots /\ None \notin MambaIds /\ None \notin CkptIds
    /\ Pad \notin MambaIds /\ None # Pad
    /\ GenMod = 2 /\ Interval \in Nat \ {0}
    /\ IsFiniteSet(MambaIds) /\ IsFiniteSet(CkptIds)
<1>1. MambaSize \in Nat /\ CkptSize \in Nat /\ ReqSize \in Nat /\ Interval \in Nat \ {0}
  BY SlotAssumption
<1>2. IsFiniteSet(MambaIds) /\ IsFiniteSet(CkptIds)
  BY <1>1, FS_Interval DEF MambaIds, CkptIds
<1> QED
  BY <1>1, <1>2 DEF ReqSlots, MambaIds, CkptIds, None, Pad, GenMod

LEMMA ConfigFacts ==
    ASSUME config \in Configs
    PROVE  /\ Overlap \in BOOLEAN /\ Lazy \in BOOLEAN /\ Int8 \in BOOLEAN
           /\ config.chunk \in Nat \ {0}
           /\ BufferSize = IF Overlap THEN 2 ELSE 1
           /\ Depth = BufferSize
           /\ Track = IF Overlap THEN {0, 1} ELSE {0}
           /\ BufferSlots = IF Lazy \/ ~Overlap THEN 1 ELSE 2
           /\ Overlap => Interval > 1
           /\ \A i \in Track : OtherIdx(i) \in Track /\ (Overlap => OtherIdx(i) # i)
<1>1. config \in [overlap : BOOLEAN, lazy : BOOLEAN, int8 : BOOLEAN, chunk : Nat \ {0}]
  BY SlotAssumption
<1>2. Track = IF Overlap THEN {0, 1} ELSE {0}
  <2>1. CASE Overlap
    <3>1. Track = 0 .. 1
      BY <2>1 DEF Track, BufferSize
    <3> QED
      BY <2>1, <3>1
  <2>2. CASE ~Overlap
    <3>1. Track = 0 .. 0
      BY <2>2 DEF Track, BufferSize
    <3> QED
      BY <2>2, <3>1
  <2> QED
    BY <2>1, <2>2
<1> QED
  BY <1>1, <1>2, IntervalAssumption
  DEF Overlap, Lazy, Int8, BufferSize, Depth, BufferSlots, OtherIdx

\* Prefixes of a text.
LEMMA TextFacts ==
    ASSUME NEW r \in Reqs
    PROVE  /\ Len(Text[r]) \in Nat
           /\ PromptLen[r] \in Nat /\ 0 < PromptLen[r] /\ PromptLen[r] <= Len(Text[r])
           /\ Text[r] \in Seq({Text[r][i] : i \in DOMAIN Text[r]})
           /\ FirstN(r, 0) = <<>>
<1>1. Text[r] \in Seq({Text[r][i] : i \in DOMAIN Text[r]}) /\ PromptLen[r] \in 1 .. Len(Text[r])
  BY TextAssumption
<1>2. Len(Text[r]) \in Nat
  BY <1>1, LenProperties
<1>3. FirstN(r, 0) = <<>>
  BY SubSeqEmpty DEF FirstN
<1> QED
  BY <1>1, <1>2, <1>3

LEMMA FirstNFacts ==
    ASSUME NEW r \in Reqs, NEW n \in Nat, n <= Len(Text[r])
    PROVE  /\ FirstN(r, n) \in Prefixes
           /\ Len(FirstN(r, n)) = n
           /\ FirstN(r, n) \in Seq({Text[r][i] : i \in DOMAIN Text[r]})
<1> DEFINE X == {Text[r][i] : i \in DOMAIN Text[r]}
<1>1. Len(Text[r]) \in Nat /\ n \in 0 .. Len(Text[r]) /\ DOMAIN Text[r] = 1 .. Len(Text[r])
  BY TextFacts, LenProperties
<1>2. \A i \in 1 .. n : Text[r][i] \in X
  BY <1>1
<1> HIDE DEF X
<1>3. /\ SubSeq(Text[r], 1, n) \in Seq(X)
      /\ Len(SubSeq(Text[r], 1, n)) = IF 1 <= n THEN n - 1 + 1 ELSE 0
  BY <1>2, SubSeqProperties
<1>4. Len(FirstN(r, n)) = n /\ FirstN(r, n) \in Seq(X)
  BY <1>3 DEF FirstN
<1> QED
  BY <1>1, <1>4 DEF Prefixes, X

LEMMA PrefixLength ==
    ASSUME NEW p \in Prefixes
    PROVE  Len(p) \in Nat
<1>1. PICK r \in Reqs : p \in {FirstN(r, n) : n \in 0 .. Len(Text[r])}
  BY DEF Prefixes
<1>2. PICK n \in 0 .. Len(Text[r]) : p = FirstN(r, n)
  BY <1>1
<1>3. n \in Nat /\ n <= Len(Text[r])
  BY TextFacts
<1> QED
  BY <1>2, <1>3, FirstNFacts

\* A nonempty bounded set of naturals has a greatest element.
LEMMA BoundedMax ==
    ASSUME NEW S, NEW n \in Nat, S \subseteq 0 .. n, S # {}
    PROVE  \E m \in S : \A k \in S : k <= m
<1> DEFINE Gaps == {n - m : m \in S}
<1>1. IsWellFoundedOn(OpToRel(<, Nat), Nat)
  BY NatLessThanWellFounded
<1>2. Gaps \subseteq Nat /\ Gaps # {}
  <2>1. \A m \in S : n - m \in Nat
    OBVIOUS
  <2> QED
    BY <2>1
<1> HIDE DEF Gaps
<1>3. PICK x \in Gaps : \A y \in Gaps : ~(<<y, x>> \in OpToRel(<, Nat))
  BY <1>1, <1>2, WFMin
<1>4. \A y \in Gaps : ~(y < x)
  BY <1>2, <1>3 DEF OpToRel
<1>5. PICK m \in S : x = n - m
  BY DEF Gaps
<1>6. \A k \in S : k <= m
  <2> SUFFICES ASSUME NEW k \in S PROVE k <= m
    OBVIOUS
  <2>1. n - k \in Gaps
    BY DEF Gaps
  <2>2. ~(n - k < n - m)
    BY <1>4, <1>5, <2>1
  <2> QED
    BY <2>2
<1> QED
  BY <1>6

\* A prefix match is empty or one of the cached proper prefixes of the prompt.
LEMMA LongestHitFacts ==
    ASSUME Types, NEW r \in Reqs
    PROVE  LET p == LongestHit(r)
           IN  /\ Len(p) \in Nat /\ Len(p) < PromptLen[r] /\ p = FirstN(r, Len(p))
               /\ p # <<>> => p \in DOMAIN cache
               /\ p = <<>> => Len(p) = 0
<1>1. \A p \in Hits(r) : /\ p \in DOMAIN cache /\ Len(p) \in Nat /\ Len(p) < PromptLen[r]
                         /\ p = FirstN(r, Len(p))
  BY PrefixLength DEF Hits, Types, IsPrefixOf, FirstN
<1>2. CASE Hits(r) = {}
  BY <1>2, TextFacts DEF LongestHit
<1>3. CASE Hits(r) # {}
  <2> DEFINE Lens == {Len(p) : p \in Hits(r)}
  <2>1. Lens \subseteq 0 .. PromptLen[r] /\ Lens # {} /\ PromptLen[r] \in Nat
    <3>1. PromptLen[r] \in Nat
      BY TextFacts
    <3>2. \A p \in Hits(r) : Len(p) \in 0 .. PromptLen[r]
      BY <1>1, <3>1
    <3>3. PICK p \in Hits(r) : TRUE
      BY <1>3
    <3> QED
      BY <3>1, <3>2, <3>3
  <2>2. PICK m \in Lens : \A k \in Lens : k <= m
    <3> HIDE DEF Lens
    <3> QED
      BY <2>1, BoundedMax
  <2>3. \E p \in Hits(r) : \A o \in Hits(r) : Len(o) <= Len(p)
    BY <2>2
  <2>4. LongestHit(r) \in Hits(r)
    BY <1>3, <2>3 DEF LongestHit
  <2> QED
    BY <1>1, <2>4, EmptySeq
<1> QED
  BY <1>2, <1>3

\* alloc hands out different free slots.
LEMMA TakeFacts ==
    ASSUME NEW free, IsFiniteSet(free), NEW n \in Nat, n <= Cardinality(free)
    PROVE  LET s == Take(free, n)
           IN  /\ s \in [1 .. n -> free]
               /\ \A i, j \in 1 .. n : i # j => s[i] # s[j]
<1>1. Cardinality(free) \in Nat /\ ExistsBijection(1 .. Cardinality(free), free)
  BY FS_CardinalityType
<1>2. PICK f \in [1 .. Cardinality(free) -> free] :
             \A i, j \in 1 .. Cardinality(free) : f[i] = f[j] => i = j
  BY <1>1 DEF ExistsBijection, Bijection, Injection, IsInjective
<1> DEFINE g == [i \in 1 .. n |-> f[i]]
<1>3. g \in [1 .. n -> free] /\ \A i, j \in 1 .. n : i # j => g[i] # g[j]
  BY <1>1, <1>2
<1> QED
  BY <1>3 DEF Take

LEMMA TakeOne ==
    ASSUME NEW free, IsFiniteSet(free), free # {}
    PROVE  Take(free, 1)[1] \in free
<1>1. Cardinality(free) \in Nat /\ Cardinality(free) # 0
  BY FS_CardinalityType, FS_EmptySet
<1>2. Take(free, 1) \in [1 .. 1 -> free]
  <2>1. 1 <= Cardinality(free)
    BY <1>1
  <2> QED
    BY <2>1, TakeFacts
<1> QED
  BY <1>2

\* A result has the fields of its forward.
LEMMA ResultOfFacts ==
    ASSUME NEW w \in WorkFields
    PROVE  /\ ResultOf(w) \in ResultFields
           /\ ResultOf(w).r = w.r /\ ResultOf(w).idx = w.idx /\ ResultOf(w).gen = w.gen
           /\ ResultOf(w).to = w.to /\ ResultOf(w).off = w.off
           /\ ResultOf(w).extend = w.extend
  BY DEF ResultOf, WorkFields, ResultFields

-----------------------------------------------------------------------------
(* The partition of the slots. *)

\* A step that moves slots between the free set, the cache and one request.
LEMMA Exchange ==
    ASSUME Ledger, NEW r \in Reqs, DOMAIN req = Reqs, UNCHANGED config,
           \A q \in Reqs : q # r => req'[q] = req[q],
           HeldOnce(req[r])',
           mamba_free' \cap CachedSlots' = {},
           Held(req[r])' \cap (mamba_free' \cup CachedSlots') = {},
           mamba_free' \cup CachedSlots' \cup Held(req[r])'
               = mamba_free \cup CachedSlots \cup Held(req[r])
    PROVE  Ledger'
<1> DEFINE moved == mamba_free \cup CachedSlots \cup Held(req[r])
<1>1. \A q \in Reqs : q # r => /\ HeldOnce(req[q])' <=> HeldOnce(req[q])
                               /\ Held(req[q])' = Held(req[q])
  BY DEF HeldOnce, Held, Track, BufferSize, Overlap
<1>2. \A q \in Reqs : q # r => Held(req[q]) \cap moved = {}
  BY DEF Ledger
<1>3. moved = mamba_free' \cup CachedSlots' \cup Held(req[r])'
  OBVIOUS
<1>4. \A q \in Reqs : HeldOnce(req[q])'
  BY <1>1 DEF Ledger
<1> HIDE DEF moved
<1>5. \A q \in Reqs : Held(req[q])' \cap (mamba_free' \cup CachedSlots') = {}
  BY <1>1, <1>2, <1>3
<1>6. \A p, q \in Reqs : p # q => Held(req[p])' \cap Held(req[q])' = {}
  <2> SUFFICES ASSUME NEW p \in Reqs, NEW q \in Reqs, p # q
               PROVE  Held(req[p])' \cap Held(req[q])' = {}
    OBVIOUS
  <2>1. CASE p = r
    BY <1>1, <1>2, <1>3, <2>1
  <2>2. CASE q = r
    BY <1>1, <1>2, <1>3, <2>2
  <2>3. CASE p # r /\ q # r
    BY <1>1, <2>3 DEF Ledger
  <2> QED
    BY <2>1, <2>2, <2>3
<1>7. MambaIds = mamba_free' \cup CachedSlots' \cup UNION {Held(req[q])' : q \in Reqs}
  <2>1. MambaIds = moved \cup UNION {Held(req[q]) : q \in Reqs \ {r}}
    BY DEF Ledger, moved
  <2>2. UNION {Held(req[q])' : q \in Reqs}
            = Held(req[r])' \cup UNION {Held(req[q]) : q \in Reqs \ {r}}
    BY <1>1
  <2> QED
    BY <1>3, <2>1, <2>2
<1> QED
  BY <1>4, <1>5, <1>6, <1>7 DEF Ledger

-----------------------------------------------------------------------------
(* The forwards in flight. *)

\* The fields a launched forward has, executed or not.
LEMMA FlightTypes ==
    ASSUME Types
    PROVE  /\ Len(stream) \in Nat /\ Len(results) \in Nat /\ Outstanding \in Nat
           /\ Outstanding = Len(stream) + Len(results)
           /\ Depth \in {1, 2} /\ Outstanding <= Depth
           /\ \A i \in 1 .. Outstanding : Flight(i) \in WorkFields \cup ResultFields
           /\ \A w \in WorkFields \cup ResultFields :
                 /\ w.r \in Reqs /\ w.idx \in ReqSlots /\ w.gen \in {0, 1}
                 /\ w.to \in Nat /\ w.off \in Nat /\ w.extend \in BOOLEAN
<1>1. /\ Len(stream) \in Nat /\ Len(results) \in Nat
      /\ \A i \in 1 .. Len(stream) : stream[i] \in WorkFields
      /\ \A i \in 1 .. Len(results) : results[i] \in ResultFields
  BY LenProperties, ElementOfSeq DEF Types
<1>2. \A i \in 1 .. Outstanding : Flight(i) \in WorkFields \cup ResultFields
  BY <1>1 DEF Flight, Outstanding
<1>3. \A w \in WorkFields \cup ResultFields :
         /\ w.r \in Reqs /\ w.idx \in ReqSlots /\ w.gen \in {0, 1}
         /\ w.to \in Nat /\ w.off \in Nat /\ w.extend \in BOOLEAN
  BY ConstantFacts DEF WorkFields, ResultFields
<1>4. Depth \in {1, 2}
  BY DEF Depth
<1> QED
  BY <1>1, <1>2, <1>3, <1>4 DEF Types, Outstanding

\* A launch adds the youngest.
LEMMA FlightAppend ==
    ASSUME Types, NEW w \in WorkFields, stream' = Append(stream, w), UNCHANGED results
    PROVE  /\ Outstanding' = Outstanding + 1
           /\ \A i \in 1 .. Outstanding : Flight(i)' = Flight(i)
           /\ Flight(Outstanding)' = w
           /\ stream' \in Seq(WorkFields)
<1>1. Len(stream) \in Nat /\ Len(results) \in Nat /\ Outstanding = Len(stream) + Len(results)
  BY FlightTypes
<1>2. /\ Len(stream') = Len(stream) + 1
      /\ \A i \in 1 .. Len(stream) : stream'[i] = stream[i]
      /\ stream'[Len(stream) + 1] = w
      /\ stream' \in Seq(WorkFields)
  BY AppendProperties DEF Types
<1>3. Outstanding' = Outstanding + 1
  BY <1>1, <1>2 DEF Outstanding
<1>4. ASSUME NEW i \in 1 .. Outstanding PROVE Flight(i)' = Flight(i)
  BY <1>1, <1>2 DEF Flight
<1>5. Flight(Outstanding)' = w
  BY <1>1, <1>2, <1>3 DEF Flight
<1> QED
  BY <1>2, <1>3, <1>4, <1>5

\* An execution moves the oldest of the stream to the results.
LEMMA FlightExecute ==
    ASSUME Types, stream # <<>>, stream' = Tail(stream),
           results' = Append(results, ResultOf(Head(stream)))
    PROVE  /\ Outstanding' = Outstanding
           /\ \A i \in 1 .. Outstanding :
                 /\ Flight(i)'.r = Flight(i).r /\ Flight(i)'.idx = Flight(i).idx
                 /\ Flight(i)'.gen = Flight(i).gen /\ Flight(i)'.to = Flight(i).to
                 /\ Flight(i)'.off = Flight(i).off /\ Flight(i)'.extend = Flight(i).extend
           /\ stream' \in Seq(WorkFields) /\ results' \in Seq(ResultFields)
<1>1. Len(stream) \in Nat /\ Len(results) \in Nat /\ Outstanding = Len(stream) + Len(results)
  BY FlightTypes
<1>2. /\ Head(stream) = stream[1] /\ stream[1] \in WorkFields
      /\ Len(stream') = Len(stream) - 1 /\ Len(stream) > 0
      /\ \A i \in 1 .. Len(stream') : stream'[i] = stream[i + 1]
      /\ stream' \in Seq(WorkFields)
  BY HeadTailProperties, EmptySeq DEF Types
<1>3. /\ ResultOf(stream[1]) \in ResultFields
      /\ ResultOf(stream[1]).r = stream[1].r /\ ResultOf(stream[1]).idx = stream[1].idx
      /\ ResultOf(stream[1]).gen = stream[1].gen /\ ResultOf(stream[1]).to = stream[1].to
      /\ ResultOf(stream[1]).off = stream[1].off
      /\ ResultOf(stream[1]).extend = stream[1].extend
  BY <1>2, ResultOfFacts
<1>4. /\ Len(results') = Len(results) + 1
      /\ \A i \in 1 .. Len(results) : results'[i] = results[i]
      /\ results'[Len(results) + 1] = ResultOf(stream[1])
      /\ results' \in Seq(ResultFields)
  BY <1>2, <1>3, AppendProperties DEF Types
<1>5. Outstanding' = Outstanding
  BY <1>1, <1>2, <1>4 DEF Outstanding
<1>6. ASSUME NEW i \in 1 .. Outstanding
      PROVE  \/ Flight(i)' = Flight(i)
             \/ Flight(i)' = ResultOf(stream[1]) /\ Flight(i) = stream[1]
  <2>1. CASE i <= Len(results)
    BY <1>1, <1>4, <2>1 DEF Flight
  <2>2. CASE i = Len(results) + 1
    BY <1>1, <1>4, <2>2 DEF Flight
  <2>3. CASE i > Len(results) + 1
    BY <1>1, <1>2, <1>4, <2>3 DEF Flight
  <2> QED
    BY <1>1, <2>1, <2>2, <2>3
<1> QED
  BY <1>2, <1>3, <1>4, <1>5, <1>6

\* Processing a result removes the oldest.
LEMMA FlightProcessed ==
    ASSUME Types, results # <<>>, results' = Tail(results), UNCHANGED stream
    PROVE  /\ Outstanding' = Outstanding - 1 /\ Outstanding > 0
           /\ \A i \in 1 .. Outstanding' : i + 1 \in 1 .. Outstanding /\ Flight(i)' = Flight(i + 1)
           /\ Flight(1) = Head(results) /\ Head(results) \in ResultFields
           /\ results' \in Seq(ResultFields)
<1>1. Len(stream) \in Nat /\ Len(results) \in Nat /\ Outstanding = Len(stream) + Len(results)
  BY FlightTypes
<1>2. /\ Head(results) = results[1] /\ results[1] \in ResultFields
      /\ Len(results') = Len(results) - 1 /\ Len(results) > 0
      /\ \A i \in 1 .. Len(results') : results'[i] = results[i + 1]
      /\ results' \in Seq(ResultFields)
  BY HeadTailProperties, EmptySeq DEF Types
<1>3. Outstanding' = Outstanding - 1 /\ Outstanding > 0
  BY <1>1, <1>2 DEF Outstanding
<1>4. ASSUME NEW i \in 1 .. Outstanding'
      PROVE  i + 1 \in 1 .. Outstanding /\ Flight(i)' = Flight(i + 1)
  BY <1>1, <1>2, <1>3 DEF Flight, Outstanding
<1>5. Flight(1) = Head(results)
  BY <1>1, <1>2 DEF Flight
<1> QED
  BY <1>2, <1>3, <1>4, <1>5

-----------------------------------------------------------------------------
(* Launching a forward. *)

FilledOf(q, free, off) == IF off > 0 THEN Filled(q, free) ELSE q

MovedOf(f, off, advance) ==
    IF off > 0 /\ advance
    THEN [f EXCEPT !.last = f.next, !.next = OtherIdx(f.next), !.tracked = f.pos + off]
    ELSE f

\* The request at the end of Launch.
LaunchedOf(q, free, to, off, advance) ==
    [MovedOf(FilledOf(q, free, off), off, advance) EXCEPT !.pos = to]

\* What the three launching actions pass to Launch.
Launchable(r, q, free, to, off) ==
    /\ q \in ReqFields /\ q.req_pool_idx \in ReqSlots /\ q.mamba_pool_idx \in MambaIds
    /\ HeldOnce(q)
    /\ free \subseteq MambaIds /\ free \cap Held(q) = {}
    /\ free \cup Held(q) = mamba_free \cup Held(req[r])
    /\ ~Lazy => \A i \in Track : q.buffer[i] # None
    /\ q.tracked <= q.pos
    /\ q.tracked # 0 => q.buffer[q.last] # None /\ (BufferSize = 2 => q.last # q.next)
    /\ to \in Nat /\ q.pos < to /\ to <= Len(Text[r])
    /\ off \in Nat /\ off <= to - q.pos
    /\ off > 0 /\ q.buffer[q.next] = None => free # {}
    /\ \A s \in Reqs : s # r => req[s].req_pool_idx # q.req_pool_idx

\* A lazy buffer that lacks its tracked slot gets a free one.
LEMMA FilledFacts ==
    ASSUME Types, NEW r \in Reqs, NEW q, NEW free, NEW to, NEW off,
           Launchable(r, q, free, to, off)
    PROVE  LET f == FilledOf(q, free, off)
               left == free \ {f.buffer[i] : i \in Track}
           IN  /\ f \in ReqFields
               /\ f = [q EXCEPT !.buffer = f.buffer]
               /\ \A i \in Track : \/ f.buffer[i] = q.buffer[i]
                                   \/ q.buffer[i] = None /\ f.buffer[i] \in free
               /\ off > 0 => f.buffer[q.next] # None
               /\ HeldOnce(f)
               /\ left \cap Held(f) = {}
               /\ left \cup Held(f) = free \cup Held(q)
<1> DEFINE f == FilledOf(q, free, off)
           left == free \ {f.buffer[i] : i \in Track}
<1>1. CASE off > 0 /\ q.buffer[q.next] = None
  <2> DEFINE x == Take(free, 1)[1]
  <2>1. x \in free
    <3>1. IsFiniteSet(free)
      BY ConstantFacts, FS_Subset DEF Launchable
    <3> QED
      BY <1>1, <3>1, TakeOne DEF Launchable
  <2>2. f = [q EXCEPT !.buffer[q.next] = x]
    BY <1>1 DEF FilledOf, Filled
  <2> HIDE DEF x
  <2>3. /\ q \in ReqFields /\ q.next \in Track /\ q.buffer \in [Track -> MambaIds \cup {None}]
        /\ x \in MambaIds /\ x \notin Held(q) /\ x # None
    BY <2>1, ConstantFacts DEF Launchable, ReqFields
  <2>4. /\ f.buffer = [q.buffer EXCEPT ![q.next] = x]
        /\ f \in ReqFields /\ f = [q EXCEPT !.buffer = f.buffer]
        /\ f.mamba_pool_idx = q.mamba_pool_idx
    BY <2>2, <2>3 DEF ReqFields
  <2>5. \A i \in Track : f.buffer[i] = IF i = q.next THEN x ELSE q.buffer[i]
    BY <2>3, <2>4
  <2> HIDE DEF f
  <2>6. HeldOnce(f)
    BY <1>1, <2>3, <2>4, <2>5 DEF Launchable, HeldOnce, Held
  <2>7. Held(f) = Held(q) \cup {x}
    BY <1>1, <2>3, <2>4, <2>5 DEF Held
  <2>8. left = free \ {x}
    <3>1. \A i \in Track : q.buffer[i] \notin free
      BY ConstantFacts, ZenonT(60) DEF Launchable, Held
    <3> QED
      BY <2>3, <2>5, <3>1
  <2> HIDE DEF left
  <2>9. left \cap Held(f) = {} /\ left \cup Held(f) = free \cup Held(q)
    BY <2>1, <2>3, <2>7, <2>8 DEF Launchable
  <2> QED
    BY <1>1, <2>1, <2>3, <2>4, <2>5, <2>6, <2>9 DEF f, left
<1>2. CASE ~(off > 0 /\ q.buffer[q.next] = None)
  <2>1. f = q
    BY <1>2 DEF FilledOf, Filled
  <2>2. \A i \in Track : q.buffer[i] \notin free
    BY ConstantFacts, ZenonT(60) DEF Launchable, Held
  <2>3. left = free
    BY <2>1, <2>2
  <2>4. q = [q EXCEPT !.buffer = q.buffer]
    BY DEF Launchable, ReqFields
  <2> HIDE DEF f, left
  <2> QED
    BY <1>2, <2>1, <2>3, <2>4 DEF Launchable, f, left
<1> QED
  BY <1>1, <1>2

\* The request after the launch.
LEMMA MovedFacts ==
    ASSUME Types, NEW r \in Reqs, NEW q, NEW free, NEW to, NEW off, NEW advance,
           Launchable(r, q, free, to, off)
    PROVE  LET f == FilledOf(q, free, off)
               n == LaunchedOf(q, free, to, off, advance)
           IN  /\ n \in ReqFields
               /\ n.req_pool_idx = q.req_pool_idx /\ n.mamba_pool_idx = q.mamba_pool_idx
               /\ n.buffer = f.buffer /\ n.pos = to /\ n.lock = q.lock
               /\ HeldOnce(n) /\ Held(n) = Held(f)
               /\ ~(off > 0 /\ advance) =>
                     n.last = q.last /\ n.next = q.next /\ n.tracked = q.tracked
               /\ off > 0 /\ advance =>
                     /\ n.last = q.next /\ n.next = OtherIdx(q.next)
                     /\ n.tracked = q.pos + off
               /\ n.tracked <= to
               /\ n.tracked # 0 => /\ n.buffer[n.last] # None
                                   /\ BufferSize = 2 => n.last # n.next
               /\ ~Lazy => \A i \in Track : n.buffer[i] # None
<1> DEFINE f == FilledOf(q, free, off)
           m == MovedOf(f, off, advance)
           n == [m EXCEPT !.pos = to]
<1>0. LaunchedOf(q, free, to, off, advance) = n
  BY DEF LaunchedOf
<1>1. /\ f \in ReqFields /\ f = [q EXCEPT !.buffer = f.buffer]
      /\ \A i \in Track : \/ f.buffer[i] = q.buffer[i]
                          \/ q.buffer[i] = None /\ f.buffer[i] \in free
      /\ off > 0 => f.buffer[q.next] # None
      /\ HeldOnce(f)
  BY FilledFacts
<1>2. /\ f.req_pool_idx = q.req_pool_idx /\ f.mamba_pool_idx = q.mamba_pool_idx
      /\ f.next = q.next /\ f.last = q.last /\ f.pos = q.pos /\ f.tracked = q.tracked
      /\ f.lock = q.lock
  BY <1>1 DEF Launchable, ReqFields
<1> HIDE DEF f
<1>3. /\ OtherIdx(q.next) \in Track /\ (BufferSize = 2 => OtherIdx(q.next) # q.next)
      /\ q.next \in Track /\ q.last \in Track
      /\ q.pos \in Nat /\ q.tracked \in Nat /\ to \in Nat /\ off \in Nat
      /\ q.tracked <= q.pos /\ q.pos < to /\ off <= to - q.pos
  BY ConfigFacts, SMTT(60) DEF Types, Launchable, ReqFields
<1>4. CASE off > 0 /\ advance
  <2>1. m = [f EXCEPT !.last = f.next, !.next = OtherIdx(f.next), !.tracked = f.pos + off]
    BY <1>4 DEF MovedOf
  <2> HIDE DEF m
  <2>0. /\ m \in ReqFields /\ m.req_pool_idx = q.req_pool_idx
        /\ m.mamba_pool_idx = q.mamba_pool_idx /\ m.buffer = f.buffer
        /\ m.lock = q.lock /\ m.last = q.next /\ m.next = OtherIdx(q.next)
        /\ m.tracked = q.pos + off
    <3>1. q.pos + off \in Nat
      BY <1>3
    <3> QED
      BY <1>1, <1>2, <1>3, <2>1, <3>1 DEF ReqFields
  <2>2. /\ n \in ReqFields /\ n.req_pool_idx = q.req_pool_idx
        /\ n.mamba_pool_idx = q.mamba_pool_idx /\ n.buffer = f.buffer /\ n.pos = to
        /\ n.lock = q.lock /\ n.last = q.next /\ n.next = OtherIdx(q.next)
        /\ n.tracked = q.pos + off
    BY <1>3, <2>0 DEF ReqFields
  <2> HIDE DEF n
  <2>3. HeldOnce(n) /\ Held(n) = Held(f)
    BY <1>1, <1>2, <2>2 DEF HeldOnce, Held
  <2>4. ~Lazy => \A i \in Track : n.buffer[i] # None
    BY <1>1, <2>2, ConstantFacts DEF Launchable
  <2>5. n.tracked <= to /\ n.buffer[n.last] # None /\ (BufferSize = 2 => n.last # n.next)
    BY <1>1, <1>3, <1>4, <2>2
  <2> QED
    BY <1>0, <1>4, <2>2, <2>3, <2>4, <2>5 DEF n, m, f
<1>5. CASE ~(off > 0 /\ advance)
  <2>1. m = f
    BY <1>5 DEF MovedOf
  <2> HIDE DEF m
  <2>2. /\ n \in ReqFields /\ n.req_pool_idx = q.req_pool_idx
        /\ n.mamba_pool_idx = q.mamba_pool_idx /\ n.buffer = f.buffer /\ n.pos = to
        /\ n.lock = q.lock /\ n.last = q.last /\ n.next = q.next
        /\ n.tracked = q.tracked
    BY <1>1, <1>2, <1>3, <2>1 DEF ReqFields
  <2> HIDE DEF n
  <2>3. HeldOnce(n) /\ Held(n) = Held(f)
    BY <1>1, <1>2, <2>2 DEF HeldOnce, Held
  <2>4. ~Lazy => \A i \in Track : n.buffer[i] # None
    BY <1>1, <2>2, ConstantFacts DEF Launchable
  <2>5. n.tracked <= to
    BY <1>3, <2>2
  <2>6. n.tracked # 0 => n.buffer[n.last] # None /\ (BufferSize = 2 => n.last # n.next)
    BY <1>1, <1>3, <2>2, ConstantFacts DEF Launchable
  <2> QED
    BY <1>0, <1>5, <2>2, <2>3, <2>4, <2>5, <2>6 DEF n, m, f
<1> QED
  BY <1>4, <1>5

\* What Launch does: n is the request afterwards and w the forward launched.
LaunchEffect(r, q, free, to, off, clear, cow, advance, n, w) ==
    /\ n \in ReqFields /\ w \in WorkFields
    /\ n.req_pool_idx = q.req_pool_idx /\ n.mamba_pool_idx = q.mamba_pool_idx
    /\ n.pos = to /\ n.lock = q.lock
    /\ \A i \in Track : \/ n.buffer[i] = q.buffer[i]
                        \/ q.buffer[i] = None /\ n.buffer[i] \in free
    /\ HeldOnce(n)
    /\ mamba_free' \cap Held(n) = {}
    /\ mamba_free' \cup Held(n) = free \cup Held(q)
    /\ mamba_free' \subseteq MambaIds
    /\ ~(off > 0 /\ advance) => n.last = q.last /\ n.next = q.next /\ n.tracked = q.tracked
    /\ off > 0 /\ advance => /\ n.last = q.next /\ n.next = OtherIdx(q.next)
                             /\ n.tracked = q.pos + off
    /\ off > 0 => n.buffer[q.next] # None
    /\ n.tracked <= to
    /\ n.tracked # 0 => n.buffer[n.last] # None /\ (BufferSize = 2 => n.last # n.next)
    /\ ~Lazy => \A i \in Track : n.buffer[i] # None
    /\ w.r = r /\ w.idx = q.req_pool_idx /\ w.gen = req_generation'[w.idx]
    /\ w.from = q.pos /\ w.to = to /\ w.off = off
    /\ w.track = IF off > 0 THEN n.buffer[q.next] ELSE Pad
    /\ w.clear = clear /\ w.cow = cow /\ w.dst = q.mamba_pool_idx /\ w.extend = advance
    /\ req' = [req EXCEPT ![r] = n]
    /\ mamba_map' = [mamba_map EXCEPT ![w.idx] = q.mamba_pool_idx]
    /\ track_map' = [track_map EXCEPT ![w.idx] = n.buffer]
    /\ stream' = Append(stream, w)
    /\ UNCHANGED <<config, ckpt_free, cache, mamba, ckpt, results>>

LEMMA LaunchForm ==
    ASSUME Types, NEW r \in Reqs, NEW q, NEW free, NEW to, NEW off,
           NEW clear \in BOOLEAN, NEW cow \in MambaIds \cup CkptIds \cup {None},
           NEW advance \in BOOLEAN, Launchable(r, q, free, to, off),
           Launch(r, q, free, to, off, clear, cow, advance),
           req_generation' \in [ReqSlots -> 0 .. (GenMod - 1)]
    PROVE  \E n, w : LaunchEffect(r, q, free, to, off, clear, cow, advance, n, w)
<1> DEFINE f == FilledOf(q, free, off)
           n == LaunchedOf(q, free, to, off, advance)
           w == [r |-> r, idx |-> q.req_pool_idx, gen |-> req_generation'[q.req_pool_idx],
                 from |-> q.pos, to |-> to, off |-> off,
                 track |-> IF off > 0 THEN f.buffer[f.next] ELSE Pad,
                 clear |-> clear, cow |-> cow, dst |-> q.mamba_pool_idx,
                 extend |-> advance]
<1>1. /\ req' = [req EXCEPT ![r] = n]
      /\ mamba_free' = free \ {f.buffer[i] : i \in Track}
      /\ mamba_map' = [mamba_map EXCEPT ![q.req_pool_idx] = q.mamba_pool_idx]
      /\ track_map' = [track_map EXCEPT ![f.req_pool_idx] = f.buffer]
      /\ stream' = Append(stream, w)
      /\ UNCHANGED <<config, ckpt_free, cache, mamba, ckpt, results>>
  BY DEF Launch, FilledOf, MovedOf, LaunchedOf, SyncedTrackMap, stateVars
<1>2. /\ f \in ReqFields /\ f = [q EXCEPT !.buffer = f.buffer]
      /\ \A i \in Track : \/ f.buffer[i] = q.buffer[i]
                          \/ q.buffer[i] = None /\ f.buffer[i] \in free
      /\ off > 0 => f.buffer[q.next] # None
      /\ mamba_free' \cap Held(f) = {}
      /\ mamba_free' \cup Held(f) = free \cup Held(q)
  BY <1>1, FilledFacts
<1>3. /\ n \in ReqFields
      /\ n.req_pool_idx = q.req_pool_idx /\ n.mamba_pool_idx = q.mamba_pool_idx
      /\ n.buffer = f.buffer /\ n.pos = to /\ n.lock = q.lock
      /\ HeldOnce(n) /\ Held(n) = Held(f)
      /\ ~(off > 0 /\ advance) => n.last = q.last /\ n.next = q.next /\ n.tracked = q.tracked
      /\ off > 0 /\ advance => /\ n.last = q.next /\ n.next = OtherIdx(q.next)
                               /\ n.tracked = q.pos + off
      /\ n.tracked <= to
      /\ n.tracked # 0 => n.buffer[n.last] # None /\ (BufferSize = 2 => n.last # n.next)
      /\ ~Lazy => \A i \in Track : n.buffer[i] # None
  BY MovedFacts
<1>4. f.next = q.next /\ f.req_pool_idx = q.req_pool_idx /\ q.next \in Track /\ q.pos \in Nat
  BY <1>2 DEF Launchable, ReqFields
<1>5. mamba_free' \subseteq MambaIds
  BY <1>1 DEF Launchable
<1>6. /\ q.req_pool_idx \in ReqSlots /\ q.mamba_pool_idx \in MambaIds
      /\ to \in Nat /\ off \in Nat
      /\ req_generation'[q.req_pool_idx] \in 0 .. (GenMod - 1)
  BY DEF Launchable
<1>7. (IF off > 0 THEN f.buffer[f.next] ELSE Pad) \in MambaIds \cup {Pad}
  BY <1>2, <1>4 DEF ReqFields
<1> HIDE DEF f, n
<1>8. w \in WorkFields
  BY <1>4, <1>6, <1>7 DEF WorkFields
<1>9. /\ w.r = r /\ w.idx = q.req_pool_idx /\ w.gen = req_generation'[w.idx]
      /\ w.from = q.pos /\ w.to = to /\ w.off = off
      /\ w.track = IF off > 0 THEN n.buffer[q.next] ELSE Pad
      /\ w.clear = clear /\ w.cow = cow /\ w.dst = q.mamba_pool_idx /\ w.extend = advance
  BY <1>3, <1>4
<1> HIDE DEF w
<1>10. LaunchEffect(r, q, free, to, off, clear, cow, advance, n, w)
  BY <1>1, <1>2, <1>3, <1>4, <1>5, <1>8, <1>9 DEF LaunchEffect
<1> QED
  BY <1>10

\* A launch, with what the three actions guarantee: the forwards in flight stay as
\* live as they were, and only a decode is launched behind one of the same request.
Launched(r, q, free, to, off, clear, cow, advance, n, w) ==
    /\ Launchable(r, q, free, to, off)
    /\ LaunchEffect(r, q, free, to, off, clear, cow, advance, n, w)
    /\ Outstanding < Depth
    /\ free_slots' \in Seq(ReqSlots)
    /\ req_generation' \in [ReqSlots -> 0 .. (GenMod - 1)]
    /\ ~advance /\ off > 0 => to % Interval = 0
    /\ \A i \in 1 .. Outstanding : Live(Flight(i))' <=> Live(Flight(i))
    /\ \A i \in 1 .. Outstanding : Live(Flight(i)) /\ Flight(i).r = r =>
          ~advance /\ q = req[r] /\ to = req[r].pos + 1

\* What the conjuncts of SlotInv but RowLedger need of a launch.
LEMMA LaunchStep ==
    ASSUME SlotInv, NEW r \in Reqs, NEW q, NEW free, NEW to, NEW off, NEW clear, NEW cow,
           NEW advance, NEW n, NEW w,
           Launched(r, q, free, to, off, clear, cow, advance, n, w)
    PROVE  /\ Types' /\ Ledger' /\ CacheLedger' /\ MapCoherent'
           /\ \A s \in Reqs : Fields(s)'
           /\ FlightOrder' /\ FlightTracks'
<1> USE DEF SlotInv, Launched
<1>1. /\ w \in WorkFields /\ n \in ReqFields
      /\ stream' = Append(stream, w) /\ req' = [req EXCEPT ![r] = n]
      /\ mamba_map' = [mamba_map EXCEPT ![w.idx] = q.mamba_pool_idx]
      /\ track_map' = [track_map EXCEPT ![w.idx] = n.buffer]
      /\ UNCHANGED <<config, ckpt_free, cache, mamba, ckpt, results>>
      /\ w.r = r /\ w.idx = q.req_pool_idx /\ w.gen = req_generation'[w.idx]
      /\ n.req_pool_idx = q.req_pool_idx /\ n.mamba_pool_idx = q.mamba_pool_idx
  BY DEF LaunchEffect
<1>2. /\ Outstanding' = Outstanding + 1
      /\ \A i \in 1 .. Outstanding : Flight(i)' = Flight(i)
      /\ Flight(Outstanding)' = w
      /\ stream' \in Seq(WorkFields)
  BY <1>1, FlightAppend
<1>3. /\ Outstanding \in Nat /\ Depth \in {1, 2} /\ Outstanding <= 1
      /\ \A i \in 1 .. Outstanding :
            /\ Flight(i).r \in Reqs /\ Flight(i).to \in Nat
            /\ Flight(i).off \in Nat /\ Flight(i).extend \in BOOLEAN
  BY FlightTypes
<1>4. /\ DOMAIN req = Reqs /\ req'[r] = n
      /\ \A s \in Reqs : s # r => req'[s] = req[s]
      /\ q.req_pool_idx \in ReqSlots /\ q.mamba_pool_idx \in MambaIds
      /\ \A s \in Reqs : s # r => req[s].req_pool_idx # q.req_pool_idx
  BY <1>1 DEF Types, Launchable
<1>5. Types'
  <2>1. mamba_map' \in [ReqSlots -> MambaIds \cup {Pad}]
    BY <1>1, <1>4 DEF Types
  <2>2. track_map' \in [ReqSlots -> [Track' -> MambaIds \cup {Pad, None}]]
    <3>1. n.buffer \in [Track -> MambaIds \cup {Pad, None}]
      <4>1. n.buffer \in [Track -> MambaIds \cup {None}]
        BY <1>1 DEF ReqFields
      <4> QED
        BY <4>1
    <3>2. Track' = Track
      BY <1>1 DEF Track, BufferSize, Overlap
    <3> QED
      BY <1>1, <3>1, <3>2 DEF Types
  <2>3. req' \in [Reqs -> ReqFields'] /\ ReqFields' = ReqFields
    <3>1. ReqFields' = ReqFields
      BY <1>1 DEF ReqFields, Track, BufferSize, Overlap
    <3> QED
      BY <1>1, <3>1 DEF Types
  <2>4. Outstanding' <= Depth' /\ mamba_free' \subseteq MambaIds
    BY <1>1, <1>2, <1>3 DEF Depth, Overlap, LaunchEffect
  <2>5. results' \in Seq(ResultFields)
    BY <1>1 DEF Types
  <2> QED
    BY <1>1, <1>2, <2>1, <2>2, <2>3, <2>4, <2>5 DEF Types
<1>6. Ledger'
  <2>1. HeldOnce(req[r])' /\ Held(req[r])' = Held(n)
    BY <1>1, <1>4 DEF HeldOnce, Held, Track, BufferSize, Overlap, LaunchEffect
  <2>2. CachedSlots' = CachedSlots
    BY <1>1 DEF CachedSlots, Int8
  <2>3. mamba_free' \cap Held(n) = {} /\ mamba_free' \cup Held(n) = mamba_free \cup Held(req[r])
    BY DEF LaunchEffect, Launchable
  <2>4. CachedSlots \cap (mamba_free \cup Held(req[r])) = {}
    BY DEF Ledger
  <2>5. /\ mamba_free' \cap CachedSlots' = {}
        /\ Held(req[r])' \cap (mamba_free' \cup CachedSlots') = {}
        /\ mamba_free' \cup CachedSlots' \cup Held(req[r])'
               = mamba_free \cup CachedSlots \cup Held(req[r])
    BY <2>1, <2>2, <2>3, <2>4
  <2> QED
    BY <1>1, <1>4, <2>1, <2>5, Exchange
<1>7. CacheLedger'
  BY <1>1 DEF CacheLedger, CachedCkpts, Int8
<1>8. MapCoherent'
  <2> SUFFICES ASSUME NEW s \in Reqs, req'[s].req_pool_idx # None
               PROVE  /\ mamba_map'[req'[s].req_pool_idx] = req'[s].mamba_pool_idx
                      /\ track_map'[req'[s].req_pool_idx] = req'[s].buffer
    BY DEF MapCoherent
  <2>1. CASE s = r
    BY <1>1, <1>4, <2>1 DEF Types
  <2>2. CASE s # r
    <3>1. /\ req[s].req_pool_idx \in ReqSlots
          /\ req[s].req_pool_idx # q.req_pool_idx /\ req'[s] = req[s]
      BY <1>4, <2>2 DEF Types, ReqFields
    <3>2. /\ mamba_map[req[s].req_pool_idx] = req[s].mamba_pool_idx
          /\ track_map[req[s].req_pool_idx] = req[s].buffer
      BY <3>1 DEF MapCoherent
    <3> QED
      BY <1>1, <3>1, <3>2 DEF Types
  <2> QED
    BY <2>1, <2>2
<1>9. \A s \in Reqs : Fields(s)'
  <2> SUFFICES ASSUME NEW s \in Reqs PROVE Fields(s)'
    OBVIOUS
  <2>1. CASE s # r
    BY <1>1, <1>4, <2>1
    DEF Fields, Running, Idle, NoBuffer, Track, BufferSize, Overlap, Lazy
  <2>2. CASE s = r
    <3>1. n.req_pool_idx # None /\ n.mamba_pool_idx # None
      BY <1>1, <1>4, ConstantFacts
    <3>2. /\ ~Lazy => \A i \in Track : n.buffer[i] # None
          /\ n.tracked <= n.pos /\ n.pos <= Len(Text[r])
          /\ n.tracked # 0 => n.buffer[n.last] # None /\ (BufferSize = 2 => n.last # n.next)
      BY DEF LaunchEffect, Launchable
    <3> QED
      BY <1>1, <1>4, <2>2, <3>1, <3>2
      DEF Fields, Running, Track, BufferSize, Overlap, Lazy
  <2> QED
    BY <2>1, <2>2
<1>10. Live(w)' /\ w.to = to
  BY <1>1, <1>4 DEF Live, LaunchEffect
<1>11. \A i \in 1 .. Outstanding : Live(Flight(i))' => Live(Flight(i))
  OBVIOUS
<1>12. FlightOrder'
  <2>1. w.to = req'[w.r].pos
    BY <1>1, <1>4 DEF LaunchEffect
  <2>2. ASSUME Outstanding = 1, Live(Flight(1))
        PROVE  IF Flight(1).r = r THEN ~w.extend /\ w.to = Flight(1).to + 1
                                  ELSE Flight(1).to = req'[Flight(1).r].pos
    <3>1. Flight(1).to = req[Flight(1).r].pos
      BY <2>2 DEF FlightOrder
    <3>2. Flight(1).r = r => ~advance /\ to = req[r].pos + 1
      BY <2>2
    <3>3. w.extend = advance /\ w.to = to
      BY DEF LaunchEffect
    <3> QED
      BY <1>3, <1>4, <2>2, <3>1, <3>2, <3>3
  <2>3. ASSUME Outstanding' = 2
        PROVE  /\ Outstanding = 1 /\ Flight(1)' = Flight(1) /\ Flight(2)' = w
               /\ Live(Flight(1))' => Live(Flight(1))
    BY <1>2, <1>3, <1>11, <2>3
  <2>4. Live(Flight(Outstanding))'
    BY <1>2, <1>10 DEF Live
  <2> QED
    BY <1>1, <1>2, <1>10, <2>1, <2>2, <2>3 DEF FlightOrder
<1>13. FlightTracks'
  <2> SUFFICES ASSUME NEW i \in 1 .. Outstanding'
               PROVE  /\ ~Flight(i)'.extend /\ Flight(i)'.off > 0 => Flight(i)'.to % Interval = 0
                      /\ Live(Flight(i))' /\ ~Flight(i)'.extend /\ Flight(i)'.off > 0
                            => req'[Flight(i)'.r].buffer[req'[Flight(i)'.r].next] # None
    BY DEF FlightTracks
  <2>1. CASE i = Outstanding + 1
    <3>1. Flight(i)' = w
      BY <1>2, <2>1
    <3>2. w.extend = advance /\ w.off = off /\ w.to = to
      BY DEF LaunchEffect
    <3>3. ~advance /\ off > 0 => n.buffer[n.next] # None
      BY DEF LaunchEffect
    <3> QED
      BY <1>1, <1>4, <3>1, <3>2, <3>3
  <2>2. CASE i \in 1 .. Outstanding
    <3>1. /\ Flight(i)' = Flight(i)
          /\ Live(Flight(i))' => Live(Flight(i))
          /\ Flight(i).r \in Reqs
      BY <1>2, <1>3, <1>11, <2>2
    <3>2. /\ ~Flight(i).extend /\ Flight(i).off > 0 => Flight(i).to % Interval = 0
          /\ Live(Flight(i)) /\ ~Flight(i).extend /\ Flight(i).off > 0
                => req[Flight(i).r].buffer[req[Flight(i).r].next] # None
      BY <2>2 DEF FlightTracks
    <3>3. Live(Flight(i)) /\ Flight(i).r = r => ~advance /\ q = req[r]
      BY <2>2
    <3>4. q = req[r] /\ ~advance /\ q.buffer[q.next] # None => n.buffer[n.next] # None
      <4>1. q.next \in Track
        BY DEF Launchable, ReqFields
      <4> QED
        BY <4>1 DEF LaunchEffect
    <3>5. Live(Flight(i)) /\ ~Flight(i).extend /\ Flight(i).off > 0
             => req'[Flight(i).r].buffer[req'[Flight(i).r].next] # None
      <4>1. CASE Flight(i).r = r
        BY <1>4, <3>2, <3>3, <3>4, <4>1
      <4>2. CASE Flight(i).r # r
        BY <1>4, <3>1, <3>2, <4>2
      <4> QED
        BY <4>1, <4>2
    <3> QED
      BY <3>1, <3>2, <3>5
  <2> QED
    BY <1>2, <1>3, <2>1, <2>2
<1> QED
  BY <1>5, <1>6, <1>7, <1>8, <1>9, <1>12, <1>13

\* Division with remainder.
LEMMA Division ==
    ASSUME NEW n \in Nat, NEW k \in Nat, k > 0
    PROVE  (n \div k) * k \in Nat /\ (n \div k) * k <= n
<1>1. n \div k \in Int /\ n % k \in Int /\ 0 <= n % k
  OBVIOUS
<1>2. n = k * (n \div k) + (n % k)
  OBVIOUS
<1>3. 0 <= n \div k
  OBVIOUS
<1> QED
  BY <1>1, <1>2, <1>3

\* Two consecutive lengths are not both track boundaries.
LEMMA TwoBoundaries ==
    ASSUME NEW n \in Nat, NEW k \in Nat, k > 1, n % k = 0, (n + 1) % k = 0
    PROVE  FALSE
<1>1. n = k * (n \div k) + (n % k) /\ n + 1 = k * ((n + 1) \div k) + ((n + 1) % k)
  OBVIOUS
<1> DEFINE a == n \div k
           b == (n + 1) \div k
<1>2. a \in Int /\ b \in Int /\ k * b = k * a + 1
  BY <1>1
<1> HIDE DEF a, b
<1>3. k * (b - a) = 1 /\ b - a \in Int
  BY <1>2
<1> QED
  BY <1>3

\* The track offset of an extend is one of its tokens.
LEMMA AlignedFacts ==
    ASSUME NEW n \in Nat
    PROVE  AlignedLen(n) \in Nat /\ AlignedLen(n) <= n
  BY Division, ConstantFacts DEF AlignedLen

\* The next chunk ends inside the prompt.
LEMMA ChunkFacts ==
    ASSUME Types, NEW r \in Reqs, NEW n \in Nat, n < PromptLen[r]
    PROVE  /\ ChunkEnd(r, n) \in Nat /\ n < ChunkEnd(r, n) /\ ChunkEnd(r, n) <= Len(Text[r])
           /\ AlignedLen(ChunkEnd(r, n) - n) \in Nat
           /\ AlignedLen(ChunkEnd(r, n) - n) <= ChunkEnd(r, n) - n
<1>1. config.chunk \in Nat \ {0}
  BY ConfigFacts DEF Types
<1>2. PromptLen[r] \in Nat /\ Len(Text[r]) \in Nat /\ PromptLen[r] <= Len(Text[r])
  BY TextFacts
<1>3. ChunkEnd(r, n) \in Nat /\ n < ChunkEnd(r, n) /\ ChunkEnd(r, n) <= Len(Text[r])
  BY <1>1, <1>2 DEF ChunkEnd
<1>4. ChunkEnd(r, n) - n \in Nat
  BY <1>3
<1> QED
  BY <1>3, <1>4, AlignedFacts

\* A request that waits holds nothing.
LEMMA IdleHoldsNothing ==
    ASSUME Types, NEW q, q = Idle
    PROVE  Held(q) = {} /\ HeldOnce(q) /\ q \in ReqFields
<1>1. Track = IF Overlap THEN {0, 1} ELSE {0}
  BY ConfigFacts DEF Types
<1> QED
  BY <1>1 DEF Held, HeldOnce, ReqFields, Idle, NoBuffer

\* alloc and the prefix match hand a waiting request what a launch needs.
LEMMA AllocatedFacts ==
    ASSUME SlotInv, NEW r \in Reqs, ~Running(r), free_slots # <<>>,
           Cardinality(mamba_free) >= 1 + BufferSlots
    PROVE  LET p == LongestHit(r)
               slots == Take(mamba_free, 1 + BufferSlots)
               idx == free_slots[Len(free_slots)]
               q == Allocated(idx, slots, p)
               to == ChunkEnd(r, Len(p))
           IN  /\ Launchable(r, q, mamba_free \ {slots[i] : i \in DOMAIN slots}, to,
                             AlignedLen(to - Len(p)))
               /\ q.req_pool_idx = idx /\ q.pos = Len(p)
               /\ Len(free_slots) \in DOMAIN free_slots
<1> DEFINE p == LongestHit(r)
           slots == Take(mamba_free, 1 + BufferSlots)
           idx == free_slots[Len(free_slots)]
           q == Allocated(idx, slots, p)
           to == ChunkEnd(r, Len(p))
           off == AlignedLen(to - Len(p))
           left == mamba_free \ {slots[i] : i \in DOMAIN slots}
<1>1. Types /\ Ledger /\ RowLedger /\ req[r] = Idle
  BY DEF SlotInv, Fields
<1>2. /\ BufferSlots = (IF Lazy \/ ~Overlap THEN 1 ELSE 2)
      /\ Track = (IF Overlap THEN {0, 1} ELSE {0})
      /\ Overlap \in BOOLEAN /\ Lazy \in BOOLEAN
      /\ \A i \in Track : OtherIdx(i) \in Track
  BY <1>1, ConfigFacts DEF Types
<1>3. /\ slots \in [1 .. (1 + BufferSlots) -> mamba_free]
      /\ \A i, j \in 1 .. (1 + BufferSlots) : i # j => slots[i] # slots[j]
  <2>1. IsFiniteSet(mamba_free)
    BY <1>1, ConstantFacts, FS_Subset DEF Types
  <2>2. Cardinality(mamba_free) \in Nat /\ 1 + BufferSlots \in Nat
    BY <1>2, <2>1, FS_CardinalityType
  <2> QED
    BY <2>1, <2>2, TakeFacts
<1>4. /\ Len(p) \in Nat /\ Len(p) < PromptLen[r] /\ p \in Prefixes
  <2>1. Len(p) \in Nat /\ Len(p) < PromptLen[r] /\ p = FirstN(r, Len(p))
    BY <1>1, LongestHitFacts
  <2>2. PromptLen[r] \in Nat /\ PromptLen[r] <= Len(Text[r]) /\ Len(Text[r]) \in Nat
    BY TextFacts
  <2> HIDE DEF p
  <2>3. Len(p) \in Nat /\ Len(p) <= Len(Text[r])
    BY <2>1, <2>2
  <2>4. FirstN(r, Len(p)) \in Prefixes
    BY <2>3, FirstNFacts
  <2> QED
    BY <2>1, <2>4
<1>5. /\ to \in Nat /\ Len(p) < to /\ to <= Len(Text[r]) /\ off \in Nat /\ off <= to - Len(p)
  BY <1>1, <1>4, ChunkFacts
<1>6. Len(free_slots) \in DOMAIN free_slots /\ idx \in ReqSlots
  BY <1>1, LenProperties, EmptySeq, ElementOfSeq DEF Types
<1> HIDE DEF p, slots, idx, to, off
<1>7. /\ q.req_pool_idx = idx /\ q.mamba_pool_idx = slots[1] /\ q.pos = Len(p)
      /\ q.tracked = 0 /\ q.next = 0 /\ q.lock = p
      /\ q.last = (IF Lazy THEN 0 ELSE OtherIdx(0))
      /\ q.buffer = [i \in Track |-> IF i < BufferSlots THEN slots[i + 2] ELSE None]
      /\ DOMAIN q = {"req_pool_idx", "mamba_pool_idx", "buffer", "next", "last", "pos",
                     "tracked", "lock"}
  BY DEF Allocated
<1>8. /\ q.buffer[0] = slots[2]
      /\ Overlap => q.buffer[1] = IF Lazy THEN None ELSE slots[3]
  BY <1>2, <1>7
<1>9. /\ slots[1] \in mamba_free /\ slots[2] \in mamba_free /\ slots[1] # slots[2]
      /\ ~Lazy /\ Overlap => slots[3] \in mamba_free \ {slots[1], slots[2]}
      /\ {slots[i] : i \in DOMAIN slots}
            = IF Lazy \/ ~Overlap THEN {slots[1], slots[2]}
                                  ELSE {slots[1], slots[2], slots[3]}
  <2>1. CASE Lazy \/ ~Overlap
    <3>1. 1 .. (1 + BufferSlots) = {1, 2}
      BY <1>2, <2>1
    <3> QED
      BY <1>3, <2>1, <3>1
  <2>2. CASE ~(Lazy \/ ~Overlap)
    <3>1. 1 .. (1 + BufferSlots) = {1, 2, 3}
      BY <1>2, <2>2
    <3> QED
      BY <1>3, <2>2, <3>1
  <2> QED
    BY <2>1, <2>2
<1>10. /\ mamba_free \subseteq MambaIds /\ None \notin MambaIds
  BY <1>1, ConstantFacts DEF Types
<1>11. q \in ReqFields
  <2>1. q.buffer \in [Track -> MambaIds \cup {None}]
    BY <1>2, <1>7, <1>8, <1>9, <1>10
  <2>2. q = [req_pool_idx |-> idx, mamba_pool_idx |-> slots[1], buffer |-> q.buffer,
             next |-> 0, last |-> IF Lazy THEN 0 ELSE OtherIdx(0), pos |-> Len(p),
             tracked |-> 0, lock |-> p]
    BY <1>7 DEF Allocated
  <2>3. (IF Lazy THEN 0 ELSE OtherIdx(0)) \in Track /\ 0 \in Track
    BY <1>2
  <2> HIDE DEF q
  <2> QED
    BY <1>4, <1>6, <1>9, <1>10, <2>1, <2>2, <2>3 DEF ReqFields
<1> HIDE DEF q
<1>12. Held(q) = {slots[i] : i \in DOMAIN slots} /\ HeldOnce(q)
  <2> DEFINE all == {slots[i] : i \in DOMAIN slots}
  <2>1. q.mamba_pool_idx = slots[1] /\ {slots[1], slots[2]} \subseteq MambaIds
    BY <1>7, <1>9, <1>10
  <2>2. all = IF Lazy \/ ~Overlap THEN {slots[1], slots[2]} ELSE {slots[1], slots[2], slots[3]}
    BY <1>9
  <2> HIDE DEF all
  <2>3. CASE ~Overlap
    <3>1. Track = {0}
      BY <1>2, <2>3
    <3> QED
      BY <1>8, <1>9, <1>10, <2>1, <2>2, <2>3, <3>1 DEF Held, HeldOnce, all
  <2>4. CASE Overlap
    <3>1. Track = {0, 1}
      BY <1>2, <2>4
    <3>2. q.buffer[0] = slots[2] /\ q.buffer[1] = IF Lazy THEN None ELSE slots[3]
      BY <1>8, <2>4
    <3>3. {q.buffer[i] : i \in Track} = {q.buffer[0], q.buffer[1]}
      BY <3>1
    <3>4. Held(q) = all
      BY <1>9, <1>10, <2>1, <2>2, <2>4, <3>2, <3>3 DEF Held
    <3>5. HeldOnce(q)
      BY <1>9, <1>10, <2>1, <2>4, <3>1, <3>2 DEF HeldOnce
    <3> QED
      BY <3>4, <3>5 DEF all
  <2> QED
    BY <2>3, <2>4
<1>13. ~Lazy => \A i \in Track : q.buffer[i] # None
  BY <1>2, <1>8, <1>9, <1>10
<1>14. q.buffer[q.next] # None
  BY <1>7, <1>8, <1>9, <1>10
<1>15. /\ left \subseteq MambaIds /\ left \cap Held(q) = {}
       /\ left \cup Held(q) = mamba_free \cup Held(req[r])
  <2>1. Held(req[r]) = {}
    BY <1>1, IdleHoldsNothing
  <2>2. {slots[i] : i \in DOMAIN slots} \subseteq mamba_free
    BY <1>3
  <2> QED
    BY <1>10, <1>12, <2>1, <2>2
<1>16. \A s \in Reqs : req[s].req_pool_idx # idx
  BY <1>1, <1>6 DEF RowLedger, idx
<1> HIDE DEF left
<1>17. Launchable(r, q, left, to, off)
  BY <1>5, <1>6, <1>7, <1>9, <1>10, <1>11, <1>12, <1>13, <1>14, <1>15, <1>16
  DEF Launchable
<1> QED
  BY <1>6, <1>7, <1>17 DEF p, slots, idx, q, to, off, left

\* What the cache holds is a slot.
LEMMA CacheRange ==
    ASSUME SlotInv, NEW p \in DOMAIN cache
    PROVE  /\ cache[p] \in MambaIds \cup CkptIds
           /\ Int8 => cache[p] \in CkptIds \ ckpt_free
           /\ ~Int8 => cache[p] \in MambaIds \ mamba_free
<1>1. CASE Int8
  <2>1. CachedCkpts = {cache[o] : o \in DOMAIN cache}
    BY <1>1 DEF CachedCkpts
  <2> QED
    BY <1>1, <2>1 DEF SlotInv, CacheLedger
<1>2. CASE ~Int8
  <2>1. CachedSlots = {cache[o] : o \in DOMAIN cache}
    BY <1>2 DEF CachedSlots
  <2> QED
    BY <1>2, <2>1 DEF SlotInv, Ledger
<1> QED
  BY <1>1, <1>2

\* The first chunk of a request that waits: its slots come from the free ones, its
\* state slot is cleared or copied from the checkpoint its prefix hit.
LEMMA FirstLaunched ==
    ASSUME SlotInv, NEW r \in Reqs, LaunchFirst(r)
    PROVE  \E q, free, to, off, clear, cow, n, w :
              /\ Launched(r, q, free, to, off, clear, cow, TRUE, n, w)
              /\ ~Running(r) /\ free \cup Held(q) = mamba_free
              /\ q.pos = Len(q.lock) /\ q.lock = FirstN(r, q.pos)
              /\ clear <=> q.lock = <<>>
              /\ cow = IF q.lock = <<>> THEN None ELSE cache[q.lock]
              /\ q.lock # <<>> => q.lock \in DOMAIN cache
              /\ q.req_pool_idx = free_slots[Len(free_slots)]
              /\ q.tracked = 0
<1> DEFINE p == LongestHit(r)
           slots == Take(mamba_free, 1 + BufferSlots)
           idx == free_slots[Len(free_slots)]
           q == Allocated(idx, slots, p)
           free == mamba_free \ {slots[i] : i \in DOMAIN slots}
           to == ChunkEnd(r, Len(p))
           off == AlignedLen(to - Len(p))
           clear == p = <<>>
           cow == IF p = <<>> THEN None ELSE cache[p]
           advance == TRUE
<1>1. /\ Types /\ ~Running(r) /\ req[r] = Idle
      /\ free_slots # <<>> /\ Cardinality(mamba_free) >= 1 + BufferSlots
      /\ free_slots' = SubSeq(free_slots, 1, Len(free_slots) - 1)
      /\ req_generation' = [req_generation EXCEPT ![idx] = (@ + 1) % GenMod]
      /\ Outstanding < Depth
      /\ Launch(r, q, free, to, off, clear, cow, advance)
  BY DEF LaunchFirst, SlotInv, Fields, Running
<1>2. /\ Launchable(r, q, free, to, off)
      /\ q.req_pool_idx = idx /\ q.pos = Len(p) /\ Len(free_slots) \in DOMAIN free_slots
  BY <1>1, AllocatedFacts
<1>3. /\ q.lock = p /\ p = FirstN(r, Len(p)) /\ (p # <<>> => p \in DOMAIN cache)
      /\ q.tracked = 0
  <2>1. q.lock = p /\ q.tracked = 0
    BY DEF Allocated
  <2> QED
    BY <1>1, <2>1, LongestHitFacts
<1>4. cow \in MambaIds \cup CkptIds \cup {None}
  BY <1>3, CacheRange
<1>5. clear \in BOOLEAN /\ advance \in BOOLEAN /\ advance
  OBVIOUS
<1> HIDE DEF p, slots, q, free, to, off, clear, cow, advance
<1>6. idx \in ReqSlots /\ free_slots' \in Seq(ReqSlots)
  <2>1. idx \in ReqSlots
    BY <1>1, <1>2 DEF Launchable
  <2>2. Len(free_slots) \in Nat /\ Len(free_slots) > 0
    BY <1>1, LenProperties, EmptySeq DEF Types
  <2>3. \A i \in 1 .. (Len(free_slots) - 1) : free_slots[i] \in ReqSlots
    BY <1>1, <2>2, ElementOfSeq DEF Types
  <2> QED
    BY <1>1, <2>1, <2>2, <2>3, SubSeqProperties
<1>7. /\ req_generation' \in [ReqSlots -> 0 .. (GenMod - 1)]
      /\ req_generation'[idx] # req_generation[idx]
      /\ \A i \in ReqSlots : i # idx => req_generation'[i] = req_generation[i]
  <2>1. req_generation[idx] \in {0, 1}
    BY <1>1, <1>6 DEF Types, GenMod
  <2>2. (req_generation[idx] + 1) % GenMod = 1 - req_generation[idx]
    BY <2>1 DEF GenMod
  <2>3. (req_generation[idx] + 1) % GenMod \in 0 .. (GenMod - 1)
    BY <2>1, <2>2 DEF GenMod
  <2>4. req_generation \in [ReqSlots -> 0 .. (GenMod - 1)]
    BY <1>1 DEF Types
  <2> QED
    BY <1>1, <1>6, <2>1, <2>2, <2>3, <2>4
<1>8. PICK n, w : LaunchEffect(r, q, free, to, off, clear, cow, advance, n, w)
  <2>1. \E n, w : LaunchEffect(r, q, free, to, off, clear, cow, advance, n, w)
    <3>1. /\ Types /\ Launchable(r, q, free, to, off)
          /\ Launch(r, q, free, to, off, clear, cow, advance)
          /\ req_generation' \in [ReqSlots -> 0 .. (GenMod - 1)]
      BY <1>1, <1>2, <1>7
    <3>2. cow \in MambaIds \cup CkptIds \cup {None} /\ clear \in BOOLEAN /\ advance \in BOOLEAN
      BY <1>4, <1>5
    <3> QED
      BY ONLY <3>1, <3>2, r \in Reqs, LaunchForm, ZenonT(60)
  <2> QED
    BY <2>1
<1>9. /\ Outstanding \in Nat /\ Outstanding <= 1
      /\ \A i \in 1 .. Outstanding :
            /\ Flight(i)' = Flight(i) /\ Flight(i).r \in Reqs /\ Flight(i).idx \in ReqSlots
  <2>1. Outstanding \in Nat /\ Depth \in {1, 2}
    BY <1>1, FlightTypes
  <2>2. \A i \in 1 .. Outstanding : Flight(i).r \in Reqs /\ Flight(i).idx \in ReqSlots
    BY <1>1, FlightTypes
  <2>3. w \in WorkFields /\ stream' = Append(stream, w) /\ UNCHANGED results
    BY <1>8 DEF LaunchEffect
  <2>4. \A i \in 1 .. Outstanding : Flight(i)' = Flight(i)
    BY <1>1, <2>3, FlightAppend
  <2> QED
    BY <1>1, <2>1, <2>2, <2>4
<1>10. ASSUME NEW i \in 1 .. Outstanding
       PROVE  /\ Live(Flight(i))' <=> Live(Flight(i))
              /\ ~(Live(Flight(i)) /\ Flight(i).r = r)
  <2>1. i = Outstanding /\ Outstanding = 1
    BY <1>9
  <2>2. Flight(i).gen = req_generation[Flight(i).idx]
    BY <2>1 DEF SlotInv, FlightOrder
  <2>3. \A s \in Reqs : req[s].req_pool_idx # idx
    BY <1>2 DEF SlotInv, RowLedger
  <2>4. \A s \in Reqs : s # r => req'[s] = req[s]
    BY <1>1, <1>8 DEF LaunchEffect, Types
  <2>5. req[r].req_pool_idx = None /\ None \notin ReqSlots
    BY <1>1, ConstantFacts DEF Running
  <2>6. req'[r].req_pool_idx = idx
    BY <1>1, <1>2, <1>8 DEF LaunchEffect, Types
  <2> QED
    BY <1>7, <1>9, <2>2, <2>3, <2>4, <2>5, <2>6 DEF Live
<1>11. Launched(r, q, free, to, off, clear, cow, advance, n, w)
  BY <1>1, <1>2, <1>5, <1>6, <1>7, <1>8, <1>10 DEF Launched
<1>12. free \cup Held(q) = mamba_free
  <2>1. Held(req[r]) = {}
    BY <1>1, IdleHoldsNothing
  <2> QED
    BY <1>2, <2>1 DEF Launchable
<1>13. clear <=> p = <<>>
  BY DEF clear
<1>14. cow = IF p = <<>> THEN None ELSE cache[p]
  BY DEF cow
<1> QED
  BY <1>1, <1>2, <1>3, <1>11, <1>12, <1>13, <1>14 DEF advance

\* A launch for a request that runs uses the slots it has.
LEMMA ContinuedLaunched ==
    ASSUME SlotInv, NEW r \in Reqs, Running(r), NEW to, NEW off, NEW clear, clear = FALSE,
           NEW advance, advance \in BOOLEAN,
           to \in Nat, req[r].pos < to, to <= Len(Text[r]),
           off \in Nat, off <= to - req[r].pos,
           Launch(r, req[r], mamba_free, to, off, clear, None, advance),
           UNCHANGED <<free_slots, req_generation>>,
           Outstanding < Depth,
           ~advance /\ off > 0 => to % Interval = 0,
           \A i \in 1 .. Outstanding : Live(Flight(i)) /\ Flight(i).r = r =>
                 ~advance /\ to = req[r].pos + 1
    PROVE  \E n, w : Launched(r, req[r], mamba_free, to, off, clear, None, advance, n, w)
<1>1. Types /\ Ledger /\ RowLedger /\ Fields(r) /\ req[r] \in ReqFields
  BY DEF SlotInv, Types
<1>2. Launchable(r, req[r], mamba_free, to, off)
  <2>1. /\ req[r].req_pool_idx \in ReqSlots /\ req[r].mamba_pool_idx \in MambaIds
    BY <1>1 DEF ReqFields, Running, Fields
  <2>2. \A s \in Reqs : s # r => req[s].req_pool_idx # req[r].req_pool_idx
    BY <1>1 DEF RowLedger, Running
  <2>3. HeldOnce(req[r]) /\ mamba_free \cap Held(req[r]) = {} /\ mamba_free \subseteq MambaIds
    BY <1>1 DEF Ledger, Types
  <2>4. off > 0 /\ req[r].buffer[req[r].next] = None => mamba_free # {}
    BY DEF Launch
  <2>5. /\ ~Lazy => \A i \in Track : req[r].buffer[i] # None
        /\ req[r].tracked <= req[r].pos
        /\ req[r].tracked # 0 => /\ req[r].buffer[req[r].last] # None
                                 /\ BufferSize = 2 => req[r].last # req[r].next
    BY <1>1 DEF Fields
  <2> QED
    BY <1>1, <2>1, <2>2, <2>3, <2>4, <2>5 DEF Launchable
<1>3. /\ req_generation' \in [ReqSlots -> 0 .. (GenMod - 1)] /\ free_slots' \in Seq(ReqSlots)
  BY <1>1 DEF Types
<1>4. PICK n, w : LaunchEffect(r, req[r], mamba_free, to, off, clear, None, advance, n, w)
  <2>1. None \in MambaIds \cup CkptIds \cup {None} /\ clear \in BOOLEAN
    OBVIOUS
  <2>2. /\ Launch(r, req[r], mamba_free, to, off, clear, None, advance)
        /\ advance \in BOOLEAN
    OBVIOUS
  <2> QED
    BY ONLY <1>1, <1>2, <1>3, <2>1, <2>2, r \in Reqs, LaunchForm, ZenonT(60)
<1>5. \A i \in 1 .. Outstanding : Live(Flight(i))' <=> Live(Flight(i))
  <2> SUFFICES ASSUME NEW i \in 1 .. Outstanding PROVE Live(Flight(i))' <=> Live(Flight(i))
    OBVIOUS
  <2>1. w \in WorkFields /\ stream' = Append(stream, w) /\ UNCHANGED results
    BY <1>4 DEF LaunchEffect
  <2>2. Flight(i)' = Flight(i) /\ Flight(i).r \in Reqs
    BY <1>1, <2>1, FlightAppend, FlightTypes
  <2>3. \A s \in Reqs : req'[s].req_pool_idx = req[s].req_pool_idx
    BY <1>1, <1>4 DEF LaunchEffect, Types
  <2> QED
    BY <2>2, <2>3 DEF Live
<1>6. \A i \in 1 .. Outstanding : Live(Flight(i)) /\ Flight(i).r = r =>
         ~advance /\ req[r] = req[r] /\ to = req[r].pos + 1
  OBVIOUS
<1> QED
  BY <1>2, <1>3, <1>4, <1>5, <1>6 DEF Launched

\* A further chunk, and a decode.
LEMMA ChunkLaunched ==
    ASSUME SlotInv, NEW r \in Reqs, LaunchChunk(r)
    PROVE  /\ Running(r) /\ UNCHANGED <<free_slots, req_generation>>
           /\ \A i \in 1 .. Outstanding : ~(Live(Flight(i)) /\ Flight(i).r = r)
           /\ \E to, off, n, w :
                 Launched(r, req[r], mamba_free, to, off, FALSE, None, TRUE, n, w)
<1> DEFINE to == ChunkEnd(r, req[r].pos)
           off == AlignedLen(to - req[r].pos)
           clear == FALSE
           advance == TRUE
<1>1. /\ Types /\ Running(r) /\ UNCHANGED <<free_slots, req_generation>>
      /\ Outstanding < Depth /\ ~WorkOf(r, stream) /\ ~WorkOf(r, results)
      /\ Launch(r, req[r], mamba_free, to, off, clear, None, advance)
      /\ req[r].pos \in Nat /\ req[r].pos < PromptLen[r]
  BY DEF LaunchChunk, SlotInv, Running, Types, ReqFields
<1>2. to \in Nat /\ req[r].pos < to /\ to <= Len(Text[r]) /\ off \in Nat /\ off <= to - req[r].pos
  BY <1>1, ChunkFacts
<1>3. ASSUME NEW i \in 1 .. Outstanding PROVE ~(Live(Flight(i)) /\ Flight(i).r = r)
  <2>1. Len(stream) \in Nat /\ Len(results) \in Nat /\ Outstanding = Len(stream) + Len(results)
    BY <1>1, FlightTypes
  <2>2. CASE i <= Len(results)
    BY <1>1, <2>1, <2>2 DEF Flight, WorkOf
  <2>3. CASE i > Len(results)
    <3>1. i - Len(results) \in 1 .. Len(stream)
      BY <2>1, <2>3
    <3> QED
      BY <1>1, <2>1, <2>3, <3>1 DEF Flight, WorkOf
  <2> QED
    BY <2>1, <2>2, <2>3
<1>4. advance \in BOOLEAN /\ advance /\ clear = FALSE
  OBVIOUS
<1> HIDE DEF to, off, advance, clear
<1>5. \E n, w : Launched(r, req[r], mamba_free, to, off, clear, None, advance, n, w)
  <2>1. ~advance /\ off > 0 => to % Interval = 0
    BY <1>4
  <2>2. \A i \in 1 .. Outstanding : Live(Flight(i)) /\ Flight(i).r = r =>
           ~advance /\ to = req[r].pos + 1
    BY <1>3
  <2> QED
    BY <1>1, <1>2, <1>4, <2>1, <2>2, ContinuedLaunched, Zenon
<1> QED
  BY <1>1, <1>3, <1>5 DEF advance, clear

LEMMA DecodeLaunched ==
    ASSUME SlotInv, NEW r \in Reqs, LaunchDecode(r)
    PROVE  /\ Running(r) /\ UNCHANGED <<free_slots, req_generation>>
           /\ \E to, off, n, w :
                 /\ Launched(r, req[r], mamba_free, to, off, FALSE, None, FALSE, n, w)
                 /\ to = req[r].pos + 1 /\ off \in {0, 1}
                 /\ off > 0 <=> to % Interval = 0
<1> DEFINE to == req[r].pos + 1
           off == IF to % Interval = 0 THEN 1 ELSE 0
           clear == FALSE
           advance == FALSE
<1>1. /\ Types /\ Running(r) /\ UNCHANGED <<free_slots, req_generation>>
      /\ Outstanding < Depth /\ to <= Len(Text[r])
      /\ Launch(r, req[r], mamba_free, to, off, clear, None, advance)
      /\ req[r].pos \in Nat
  BY DEF LaunchDecode, SlotInv, Running, Types, ReqFields
<1>2. to \in Nat /\ req[r].pos < to /\ off \in Nat /\ off <= to - req[r].pos
  BY <1>1
<1>3. /\ to = req[r].pos + 1 /\ off \in {0, 1}
      /\ off > 0 <=> to % Interval = 0
  OBVIOUS
<1>4. advance \in BOOLEAN /\ ~advance /\ clear = FALSE
  OBVIOUS
<1> HIDE DEF to, off, advance, clear
<1>5. \E n, w : Launched(r, req[r], mamba_free, to, off, clear, None, advance, n, w)
  <2>1. ~advance /\ off > 0 => to % Interval = 0
    BY <1>3
  <2>2. \A i \in 1 .. Outstanding : Live(Flight(i)) /\ Flight(i).r = r =>
           ~advance /\ to = req[r].pos + 1
    BY <1>3, <1>4
  <2> QED
    BY ONLY SlotInv, r \in Reqs, <1>1, <1>2, <1>4, <2>1, <2>2, ContinuedLaunched, ZenonT(120)
<1> QED
  BY <1>1, <1>3, <1>5 DEF advance, clear

LEMMA LaunchedInv ==
    ASSUME SlotInv, NEW r \in Reqs, NEW q, NEW free, NEW to, NEW off, NEW clear, NEW cow,
           NEW advance, NEW n, NEW w,
           Launched(r, q, free, to, off, clear, cow, advance, n, w), RowLedger'
    PROVE  SlotInv'
<1>1. /\ Types' /\ Ledger' /\ CacheLedger' /\ MapCoherent'
      /\ \A s \in Reqs : Fields(s)'
      /\ FlightOrder' /\ FlightTracks'
  BY LaunchStep, Zenon
<1> QED
  BY <1>1 DEF SlotInv

LEMMA LaunchFirstInv ==
    ASSUME SlotInv, NEW r \in Reqs, LaunchFirst(r)
    PROVE  SlotInv'
<1> DEFINE k == Len(free_slots)
<1>1. PICK q, free, to, off, clear, cow, n, w :
         /\ Launched(r, q, free, to, off, clear, cow, TRUE, n, w)
         /\ q.req_pool_idx = free_slots[k]
  BY FirstLaunched, ZenonT(60)
<1>2. /\ free_slots \in Seq(ReqSlots) /\ free_slots # <<>> /\ ~Running(r)
      /\ free_slots' = SubSeq(free_slots, 1, k - 1)
  BY DEF LaunchFirst, SlotInv, Types, Running
<1>3. /\ k \in Nat /\ k > 0 /\ DOMAIN free_slots = 1 .. k /\ free_slots[k] \in ReqSlots
      /\ DOMAIN free_slots' = 1 .. (k - 1)
      /\ \A i \in 1 .. (k - 1) : free_slots'[i] = free_slots[i]
  <2>1. k \in Nat /\ k > 0 /\ DOMAIN free_slots = 1 .. k /\ free_slots[k] \in ReqSlots
    BY <1>2, LenProperties, EmptySeq, ElementOfSeq
  <2> HIDE DEF k
  <2>2. \A i \in 1 .. (k - 1) : free_slots[i] \in ReqSlots
    BY <1>2, <2>1, LenProperties, ElementOfSeq
  <2>3. /\ Len(SubSeq(free_slots, 1, k - 1)) = k - 1
        /\ SubSeq(free_slots, 1, k - 1) \in Seq(ReqSlots)
        /\ \A i \in 1 .. (k - 1) : SubSeq(free_slots, 1, k - 1)[i] = free_slots[i]
    BY <2>1, <2>2, SubSeqProperties
  <2> QED
    BY <1>2, <2>1, <2>3, LenProperties
<1> HIDE DEF k
<1>4. /\ req'[r].req_pool_idx = free_slots[k]
      /\ \A s \in Reqs : s # r => req'[s] = req[s]
  BY <1>1 DEF Launched, LaunchEffect, SlotInv, Types
<1>5. RowLedger'
  <2> USE <1>3, <1>4 DEF SlotInv, RowLedger
  <2>1. \A i, j \in DOMAIN free_slots' : free_slots'[i] = free_slots'[j] => i = j
    OBVIOUS
  <2>2. \A s \in Reqs, i \in DOMAIN free_slots' : req'[s].req_pool_idx # free_slots'[i]
    OBVIOUS
  <2>3. \A s, t \in Reqs : Running(s)' /\ req'[s].req_pool_idx = req'[t].req_pool_idx => s = t
    BY DEF Running
  <2>4. \A s \in ReqSlots : \/ \E i \in DOMAIN free_slots' : free_slots'[i] = s
                            \/ \E t \in Reqs : req'[t].req_pool_idx = s
    <3> SUFFICES ASSUME NEW s \in ReqSlots
                 PROVE  \/ \E i \in DOMAIN free_slots' : free_slots'[i] = s
                        \/ \E t \in Reqs : req'[t].req_pool_idx = s
      OBVIOUS
    <3>1. CASE \E i \in DOMAIN free_slots : free_slots[i] = s
      BY <3>1
    <3>2. CASE \E t \in Reqs : req[t].req_pool_idx = s
      BY <1>2, <3>2, ConstantFacts DEF Running
    <3> QED
      BY <3>1, <3>2
  <2> QED
    BY <2>1, <2>2, <2>3, <2>4
<1> QED
  BY <1>1, <1>5, LaunchedInv, Zenon

LEMMA LaunchLaterInv ==
    ASSUME SlotInv, NEW r \in Reqs, LaunchChunk(r) \/ LaunchDecode(r)
    PROVE  SlotInv'
<1>1. \E to, off, advance, n, w :
         Launched(r, req[r], mamba_free, to, off, FALSE, None, advance, n, w)
  BY ChunkLaunched, DecodeLaunched, Zenon
<1>2. PICK to, off, advance, n, w :
         Launched(r, req[r], mamba_free, to, off, FALSE, None, advance, n, w)
  BY <1>1
<1>3. UNCHANGED free_slots
  BY ChunkLaunched, DecodeLaunched
<1>4. \A s \in Reqs : req'[s].req_pool_idx = req[s].req_pool_idx
  BY <1>2 DEF Launched, LaunchEffect, SlotInv, Types
<1>5. RowLedger'
  BY <1>3, <1>4 DEF SlotInv, RowLedger, Running
<1> QED
  BY <1>2, <1>5, LaunchedInv, Zenon

-----------------------------------------------------------------------------
(* Executing a forward and processing results. *)

LEMMA ScrubFacts ==
    ASSUME NEW m, NEW free
    PROVE  /\ DOMAIN Scrub(m, free) = DOMAIN m
           /\ \A s \in DOMAIN m : Scrub(m, free)[s] = IF s \in free THEN Unknown ELSE m[s]
  BY DEF Scrub

LEMMA DeferredFacts ==
    ASSUME NEW w
    PROVE  /\ DOMAIN DeferredCowAndClear(w) = DOMAIN mamba
           /\ \A s \in DOMAIN mamba : s # w.dst => DeferredCowAndClear(w)[s] = mamba[s]
<1> DEFINE m == IF w.clear THEN ClearSlots(mamba, w.dst) ELSE mamba
<1>1. DOMAIN m = DOMAIN mamba /\ \A s \in DOMAIN mamba : s # w.dst => m[s] = mamba[s]
  BY DEF ClearSlots
<1> HIDE DEF m
<1>2. DeferredCowAndClear(w) = IF w.cow = None THEN m
                               ELSE IF Int8 THEN LoadToActive(m, ckpt, w.cow, w.dst)
                               ELSE CopyFrom(m, w.cow, w.dst)
  BY DEF DeferredCowAndClear, m
<1>3. /\ DOMAIN LoadToActive(m, ckpt, w.cow, w.dst) = DOMAIN m
      /\ DOMAIN CopyFrom(m, w.cow, w.dst) = DOMAIN m
      /\ \A s \in DOMAIN m : s # w.dst => /\ LoadToActive(m, ckpt, w.cow, w.dst)[s] = m[s]
                                          /\ CopyFrom(m, w.cow, w.dst)[s] = m[s]
  BY DEF LoadToActive, CopyFrom
<1> QED
  BY <1>1, <1>2, <1>3

\* The state after n tokens of forward w.
StateAfter(w, n) ==
    [c \in Components |-> Fold(DeferredCowAndClear(w)[mamba_map[w.idx]][c],
                               SubSeq(Text[w.r], w.from + 1, w.from + n))]

\* What an execution leaves in a slot.
LEMMA ExecuteEffect ==
    ASSUME Execute
    PROVE  LET w == Head(stream)
           IN  /\ DOMAIN mamba' = DOMAIN mamba
               /\ \A s \in DOMAIN mamba : s \notin mamba_free =>
                     mamba'[s] = IF s = w.track /\ w.track # Pad THEN StateAfter(w, w.off)
                                 ELSE IF s = mamba_map[w.idx] THEN StateAfter(w, w.to - w.from)
                                 ELSE DeferredCowAndClear(w)[s]
<1> DEFINE w == Head(stream)
           m == DeferredCowAndClear(w)
           done == [m EXCEPT ![mamba_map[w.idx]] = StateAfter(w, w.to - w.from)]
           kept == [done EXCEPT ![w.track] = StateAfter(w, w.off)]
<1>1. mamba' = Scrub(IF w.track = Pad THEN done ELSE kept, mamba_free)
  <2>1. StateAfter(w, w.off) = [c \in Components |->
           IF c \in TrackedSides THEN StateAfter(w, w.off)[c] ELSE done[w.track][c]]
    BY DEF StateAfter, TrackedSides
  <2> QED
    BY <2>1 DEF Execute, StateAfter, TrackedSides, SnapshotLen
<1>2. DOMAIN m = DOMAIN mamba
  BY DeferredFacts
<1> HIDE DEF m, w
<1>3. /\ DOMAIN done = DOMAIN mamba /\ DOMAIN kept = DOMAIN mamba
      /\ \A s \in DOMAIN mamba :
            /\ done[s] = IF s = mamba_map[w.idx] THEN StateAfter(w, w.to - w.from) ELSE m[s]
            /\ kept[s] = IF s = w.track THEN StateAfter(w, w.off) ELSE done[s]
  BY <1>2
<1> HIDE DEF done, kept
<1>4. /\ DOMAIN mamba' = DOMAIN mamba
      /\ \A s \in DOMAIN mamba : s \notin mamba_free =>
            mamba'[s] = IF w.track = Pad THEN done[s] ELSE kept[s]
  BY <1>1, <1>3, ScrubFacts
<1> QED
  BY <1>3, <1>4 DEF w, m

\* A step that moves no slot.
LEMMA SameOwners ==
    ASSUME SlotInv, UNCHANGED <<config, free_slots, mamba_map, track_map, mamba_free,
                                ckpt_free, req, cache>>
    PROVE  /\ Ledger' /\ CacheLedger' /\ RowLedger' /\ MapCoherent'
           /\ \A r \in Reqs : Fields(r)'
<1>1. UNCHANGED <<Track, CachedSlots, CachedCkpts, Lazy, BufferSize>>
  BY DEF Track, BufferSize, Overlap, Lazy, Int8, CachedSlots, CachedCkpts
<1>2. Ledger'
  <2>1. \A r \in Reqs : Held(req[r])' = Held(req[r]) /\ (HeldOnce(req[r])' <=> HeldOnce(req[r]))
    BY <1>1 DEF HeldOnce, Held
  <2>2. UNION {Held(req[r])' : r \in Reqs} = UNION {Held(req[r]) : r \in Reqs}
    BY <2>1
  <2> QED
    BY <1>1, <2>1, <2>2 DEF SlotInv, Ledger
<1>3. CacheLedger' /\ RowLedger' /\ MapCoherent'
  BY <1>1 DEF SlotInv, CacheLedger, RowLedger, MapCoherent, Running
<1>4. \A r \in Reqs : Fields(r)'
  BY <1>1 DEF SlotInv, Fields, Running, Idle, NoBuffer
<1> QED
  BY <1>2, <1>3, <1>4

\* An execution changes the contents of slots, not who has them.
LEMMA ExecuteInv ==
    ASSUME SlotInv, Execute
    PROVE  SlotInv'
<1>1. /\ stream # <<>> /\ stream' = Tail(stream)
      /\ results' = Append(results, ResultOf(Head(stream)))
      /\ UNCHANGED <<config, free_slots, req_generation, mamba_map, track_map, mamba_free,
                     ckpt_free, req, cache, ckpt>>
  BY DEF Execute, poolVars
<1>2. DOMAIN mamba' = DOMAIN mamba
  BY ExecuteEffect
<1>3. /\ Outstanding' = Outstanding
      /\ \A i \in 1 .. Outstanding :
            /\ Flight(i)'.r = Flight(i).r /\ Flight(i)'.idx = Flight(i).idx
            /\ Flight(i)'.gen = Flight(i).gen /\ Flight(i)'.to = Flight(i).to
            /\ Flight(i)'.off = Flight(i).off /\ Flight(i)'.extend = Flight(i).extend
      /\ stream' \in Seq(WorkFields) /\ results' \in Seq(ResultFields)
  BY <1>1, FlightExecute DEF SlotInv
<1>4. Types'
  BY <1>1, <1>2, <1>3
  DEF SlotInv, Types, ReqFields, Track, BufferSize, Depth, Overlap
<1>5. Ledger' /\ CacheLedger' /\ RowLedger' /\ MapCoherent' /\ \A r \in Reqs : Fields(r)'
  BY <1>1, SameOwners
<1>6. \A i \in 1 .. Outstanding : Live(Flight(i))' <=> Live(Flight(i))
  BY <1>1, <1>3 DEF Live
<1>7. Outstanding \in Nat
  BY FlightTypes DEF SlotInv
<1>8. FlightOrder'
  BY <1>1, <1>3, <1>6, <1>7 DEF SlotInv, FlightOrder
<1>9. FlightTracks'
  <2> SUFFICES ASSUME NEW i \in 1 .. Outstanding
               PROVE  /\ ~Flight(i)'.extend /\ Flight(i)'.off > 0 => Flight(i)'.to % Interval = 0
                      /\ Live(Flight(i))' /\ ~Flight(i)'.extend /\ Flight(i)'.off > 0
                            => req'[Flight(i)'.r].buffer[req'[Flight(i)'.r].next] # None
    BY <1>3 DEF FlightTracks
  <2> QED
    BY <1>1, <1>3, <1>6 DEF SlotInv, FlightTracks
<1> QED
  BY <1>4, <1>5, <1>8, <1>9, SMTT(60) DEF SlotInv

\* Processing the oldest result keeps what is known of the younger forward, when
\* no request moves and the buffer still has the slot the forward tracks into.
LEMMA ProcessedFlights ==
    ASSUME SlotInv, results # <<>>, results' = Tail(results),
           UNCHANGED <<config, stream, req_generation>>,
           \A s \in Reqs : \/ req'[s].req_pool_idx = None
                           \/ /\ req'[s].req_pool_idx = req[s].req_pool_idx
                              /\ req'[s].pos = req[s].pos
                              /\ req[s].buffer[req[s].next] # None =>
                                   \/ req'[s].buffer[req'[s].next] # None
                                   \/ /\ Head(results).r = s /\ Live(Head(results))
                                      /\ ~Head(results).extend /\ Head(results).off > 0
    PROVE  FlightOrder' /\ FlightTracks'
<1>1. /\ Outstanding' = Outstanding - 1 /\ Outstanding > 0
      /\ \A i \in 1 .. Outstanding' : i + 1 \in 1 .. Outstanding /\ Flight(i)' = Flight(i + 1)
      /\ Flight(1) = Head(results) /\ Head(results) \in ResultFields
  BY FlightProcessed DEF SlotInv
<1>2. /\ Outstanding \in Nat /\ Depth \in {1, 2} /\ Outstanding <= Depth
      /\ \A i \in 1 .. Outstanding : /\ Flight(i).r \in Reqs /\ Flight(i).idx \in ReqSlots
                                     /\ Flight(i).to \in Nat /\ Flight(i).extend \in BOOLEAN
  BY FlightTypes DEF SlotInv
<1>3. CASE Outstanding = 1
  BY <1>1, <1>3 DEF FlightOrder, FlightTracks
<1>4. CASE Outstanding = 2
  <2>1. Outstanding' = 1 /\ Flight(1)' = Flight(2) /\ 1 \in 1 .. Outstanding /\ 2 \in 1 .. Outstanding
    BY <1>1, <1>4
  <2>2. Live(Flight(1))' => Live(Flight(2)) /\ req'[Flight(2).r].pos = req[Flight(2).r].pos
    <3>1. \A s \in Reqs : req'[s].req_pool_idx \in ReqSlots =>
             req'[s].req_pool_idx = req[s].req_pool_idx /\ req'[s].pos = req[s].pos
      BY ConstantFacts
    <3> QED
      BY <1>2, <2>1, <3>1 DEF Live
  <2>3. FlightOrder'
    <3>1. /\ Flight(2).gen = req_generation[Flight(2).idx]
          /\ Live(Flight(2)) => Flight(2).to = req[Flight(2).r].pos
      BY <1>4 DEF SlotInv, FlightOrder
    <3> QED
      BY <2>1, <2>2, <3>1 DEF FlightOrder
  <2>4. /\ ~Flight(2).extend /\ Flight(2).off > 0 => Flight(2).to % Interval = 0
        /\ Live(Flight(2)) /\ ~Flight(2).extend /\ Flight(2).off > 0
             => req[Flight(2).r].buffer[req[Flight(2).r].next] # None
        /\ ~Flight(1).extend /\ Flight(1).off > 0 => Flight(1).to % Interval = 0
    BY <2>1 DEF SlotInv, FlightTracks
  <2>5. ASSUME Live(Flight(1))', ~Flight(2).extend, Flight(2).off > 0
        PROVE  req'[Flight(2).r].buffer[req'[Flight(2).r].next] # None
    <3> SUFFICES ASSUME req'[Flight(2).r].buffer[req'[Flight(2).r].next] = None
                 PROVE  FALSE
      OBVIOUS
    <3>1. req'[Flight(2).r].req_pool_idx # None
      BY <1>2, <2>1, <2>5, ConstantFacts DEF Live
    <3>2. /\ Flight(1).r = Flight(2).r /\ Live(Flight(1))
          /\ ~Flight(1).extend /\ Flight(1).off > 0
      BY <1>1, <1>2, <2>1, <2>2, <2>4, <2>5, <3>1
    <3>3. Flight(2).to = Flight(1).to + 1
      BY <1>4, <2>2, <2>5, <3>2 DEF SlotInv, FlightOrder
    <3>4. Interval \in Nat /\ Interval > 1
      BY <1>2, <1>4, ConstantFacts, ConfigFacts DEF SlotInv, Types, BufferSize
    <3>5. Flight(1).to % Interval = 0 /\ (Flight(1).to + 1) % Interval = 0 /\ Flight(1).to \in Nat
      BY <1>2, <2>1, <2>4, <2>5, <3>2, <3>3
    <3> QED
      BY <3>4, <3>5, TwoBoundaries
  <2>6. FlightTracks'
    <3> SUFFICES ASSUME NEW i \in 1 .. Outstanding'
                 PROVE  /\ ~Flight(i)'.extend /\ Flight(i)'.off > 0
                              => Flight(i)'.to % Interval = 0
                        /\ Live(Flight(i))' /\ ~Flight(i)'.extend /\ Flight(i)'.off > 0
                              => req'[Flight(i)'.r].buffer[req'[Flight(i)'.r].next] # None
      BY DEF FlightTracks
    <3>1. i = 1
      BY <2>1
    <3> QED
      BY <2>1, <2>4, <2>5, <3>1
  <2> QED
    BY <2>3, <2>6
<1> QED
  BY <1>1, <1>2, <1>3, <1>4

LEMMA DropStaleInv ==
    ASSUME SlotInv, DropStale
    PROVE  SlotInv'
<1>1. /\ results # <<>> /\ results' = Tail(results)
      /\ UNCHANGED <<config, free_slots, req_generation, mamba_map, track_map, mamba_free,
                     ckpt_free, req, cache, mamba, ckpt, stream>>
  BY DEF DropStale, poolVars, stateVars
<1>2. Outstanding' = Outstanding - 1 /\ results' \in Seq(ResultFields) /\ Outstanding \in Nat
  BY <1>1, FlightProcessed, FlightTypes DEF SlotInv
<1>3. Types'
  BY <1>1, <1>2, SMTT(60) DEF SlotInv, Types, ReqFields, Track, BufferSize, Depth, Overlap
<1>4. FlightOrder' /\ FlightTracks'
  BY <1>1, ProcessedFlights
<1>5. Ledger' /\ CacheLedger' /\ RowLedger' /\ MapCoherent' /\ \A r \in Reqs : Fields(r)'
  BY <1>1, SameOwners
<1> QED
  BY <1>3, <1>4, <1>5 DEF SlotInv

\* The bookkeeping of a decode swaps the buffer index at a boundary.
LEMMA BookedFacts ==
    ASSUME SlotInv, NEW w \in ResultFields, Live(w), results # <<>>, w = Head(results)
    PROVE  LET q == req[w.r]
               b == Booked(w)
           IN  /\ q \in ReqFields /\ b \in ReqFields /\ w.r \in Reqs
               /\ b.req_pool_idx = q.req_pool_idx /\ b.mamba_pool_idx = q.mamba_pool_idx
               /\ b.buffer = q.buffer /\ b.pos = q.pos /\ b.lock = q.lock
               /\ q.req_pool_idx = w.idx /\ w.idx \in ReqSlots
               /\ ~w.extend /\ w.off > 0 =>
                     /\ b.last = q.next /\ b.next = OtherIdx(q.next) /\ b.tracked = w.to
                     /\ q.buffer[q.next] # None
               /\ ~(~w.extend /\ w.off > 0) => b = q
               /\ b.tracked <= b.pos
               /\ b.tracked # 0 => /\ b.buffer[b.last] # None
                                   /\ BufferSize = 2 => b.last # b.next
<1> DEFINE q == req[w.r]
           b == Booked(w)
<1>1. /\ w.r \in Reqs /\ w.idx \in ReqSlots /\ w.to \in Nat /\ w.off \in Nat
      /\ w.extend \in BOOLEAN /\ q \in ReqFields /\ q.req_pool_idx = w.idx
  BY DEF SlotInv, Types, ResultFields, Live
<1>2. /\ q.next \in Track /\ OtherIdx(q.next) \in Track /\ q.tracked \in Nat /\ q.pos \in Nat
      /\ BufferSize = 2 => OtherIdx(q.next) # q.next
  BY <1>1, ConfigFacts, SMTT(60) DEF SlotInv, Types, ReqFields
<1>3. CASE ~w.extend /\ w.off > 0
  <2>1. b = [q EXCEPT !.last = q.next, !.next = OtherIdx(q.next), !.tracked = w.to]
    BY <1>3 DEF Booked
  <2> HIDE DEF b, q
  <2>2. /\ b \in ReqFields /\ b.req_pool_idx = q.req_pool_idx
        /\ b.mamba_pool_idx = q.mamba_pool_idx /\ b.buffer = q.buffer /\ b.pos = q.pos
        /\ b.lock = q.lock /\ b.last = q.next /\ b.next = OtherIdx(q.next) /\ b.tracked = w.to
    BY <1>1, <1>2, <2>1 DEF ReqFields
  <2>3. q.buffer[q.next] # None /\ w.to <= q.pos
    <3>1. Outstanding > 0 /\ Flight(1) = w /\ 1 \in 1 .. Outstanding
      <4>1. Outstanding \in Nat /\ Len(results) \in Nat /\ Len(stream) \in Nat
            /\ Outstanding = Len(stream) + Len(results)
        BY FlightTypes DEF SlotInv
      <4>2. Len(results) > 0 /\ Head(results) = results[1]
        BY HeadTailProperties, EmptySeq DEF SlotInv, Types
      <4> QED
        BY <4>1, <4>2 DEF Flight
    <3>2. q.buffer[q.next] # None
      BY <1>3, <3>1 DEF SlotInv, FlightTracks, q
    <3>3. Outstanding \in {1, 2}
      BY <3>1, FlightTypes DEF SlotInv
    <3>4. w.to <= q.pos
      <4>1. CASE Outstanding = 1
        BY <1>1, <1>2, <3>1, <4>1 DEF SlotInv, FlightOrder, q
      <4>2. CASE Outstanding = 2 /\ Live(Flight(2)) /\ Flight(2).r = w.r
        <5>1. Flight(2).to = w.to + 1 /\ Flight(2).to = q.pos
          BY <3>1, <4>2 DEF SlotInv, FlightOrder, q
        <5> QED
          BY <1>1, <5>1
      <4>3. CASE Outstanding = 2 /\ ~(Live(Flight(2)) /\ Flight(2).r = w.r)
        <5>1. w.to = q.pos
          BY <3>1, <4>3 DEF SlotInv, FlightOrder, q
        <5> QED
          BY <1>1, <5>1
      <4> QED
        BY <3>3, <4>1, <4>2, <4>3
    <3> QED
      BY <3>2, <3>4
  <2> QED
    BY <1>1, <1>2, <1>3, <2>2, <2>3 DEF b, q
<1>4. CASE ~(~w.extend /\ w.off > 0)
  <2>1. b = q
    BY <1>4 DEF Booked
  <2>2. Fields(w.r)
    BY <1>1 DEF SlotInv
  <2> QED
    BY <1>1, <1>4, <2>1, <2>2 DEF Fields
<1> QED
  BY <1>3, <1>4

LEMMA ContinueDecodeInv ==
    ASSUME SlotInv, ContinueDecode
    PROVE  SlotInv'
<1> DEFINE w == Head(results)
           b == Booked(w)
<1>1. /\ results # <<>> /\ results' = Tail(results) /\ Live(w)
      /\ req' = [req EXCEPT ![w.r] = b]
      /\ UNCHANGED <<config, free_slots, req_generation, mamba_map, track_map, mamba_free,
                     ckpt_free, cache, mamba, ckpt, stream>>
  BY DEF ContinueDecode, poolVars, stateVars
<1>2. /\ Outstanding' = Outstanding - 1 /\ results' \in Seq(ResultFields) /\ Outstanding \in Nat
      /\ w \in ResultFields
  BY <1>1, FlightProcessed, FlightTypes DEF SlotInv
<1> HIDE DEF w, b
<1>3. /\ req[w.r] \in ReqFields /\ b \in ReqFields /\ w.r \in Reqs
      /\ b.req_pool_idx = req[w.r].req_pool_idx
      /\ b.mamba_pool_idx = req[w.r].mamba_pool_idx
      /\ b.buffer = req[w.r].buffer /\ b.pos = req[w.r].pos
      /\ req[w.r].req_pool_idx = w.idx /\ w.idx \in ReqSlots
      /\ ~(~w.extend /\ w.off > 0) => b = req[w.r]
      /\ b.tracked <= b.pos
      /\ b.tracked # 0 => b.buffer[b.last] # None /\ (BufferSize = 2 => b.last # b.next)
  BY <1>1, <1>2, BookedFacts DEF w, b
<1>4. /\ DOMAIN req = Reqs /\ DOMAIN req' = Reqs /\ req'[w.r] = b
      /\ \A s \in Reqs : s # w.r => req'[s] = req[s]
      /\ \A s \in Reqs : /\ req'[s].req_pool_idx = req[s].req_pool_idx
                         /\ req'[s].mamba_pool_idx = req[s].mamba_pool_idx
                         /\ req'[s].buffer = req[s].buffer /\ req'[s].pos = req[s].pos
  BY <1>1, <1>3 DEF SlotInv, Types
<1>5. UNCHANGED <<Track, CachedSlots, CachedCkpts, Lazy, BufferSize, ReqFields>>
  BY <1>1 DEF Track, BufferSize, Overlap, Lazy, Int8, CachedSlots, CachedCkpts, ReqFields
<1>6. Types'
  <2>1. req' \in [Reqs -> ReqFields]
    BY <1>1, <1>3 DEF SlotInv, Types
  <2> QED
    BY <1>1, <1>2, <1>5, <2>1 DEF SlotInv, Types, Depth, Overlap
<1>7. Ledger'
  <2>1. \A r \in Reqs : Held(req[r])' = Held(req[r]) /\ (HeldOnce(req[r])' <=> HeldOnce(req[r]))
    BY <1>4, <1>5 DEF HeldOnce, Held
  <2>2. UNION {Held(req[r])' : r \in Reqs} = UNION {Held(req[r]) : r \in Reqs}
    BY <2>1
  <2> QED
    BY <1>1, <1>5, <2>1, <2>2 DEF SlotInv, Ledger
<1>8. CacheLedger' /\ RowLedger' /\ MapCoherent'
  BY <1>1, <1>4, <1>5 DEF SlotInv, CacheLedger, RowLedger, MapCoherent, Running
<1>9. \A r \in Reqs : Fields(r)'
  <2> SUFFICES ASSUME NEW r \in Reqs PROVE Fields(r)'
    OBVIOUS
  <2>1. Fields(r)
    BY DEF SlotInv
  <2>2. CASE r = w.r
    <3>1. Running(r)
      BY <1>3, <2>2, ConstantFacts DEF Running
    <3> QED
      BY <1>3, <1>4, <1>5, <2>1, <2>2, <3>1 DEF Fields, Running
  <2>3. CASE r # w.r
    BY <1>4, <1>5, <2>1, <2>3 DEF Fields, Running, Idle, NoBuffer
  <2> QED
    BY <2>2, <2>3
<1>10. FlightOrder' /\ FlightTracks'
  <2>1. \A s \in Reqs : /\ req'[s].req_pool_idx = req[s].req_pool_idx
                        /\ req'[s].pos = req[s].pos
                        /\ req[s].buffer[req[s].next] # None =>
                              \/ req'[s].buffer[req'[s].next] # None
                              \/ /\ Head(results).r = s /\ Live(Head(results))
                                 /\ ~Head(results).extend /\ Head(results).off > 0
    BY <1>1, <1>3, <1>4 DEF w
  <2> QED
    BY <1>1, <2>1, ProcessedFlights
<1> QED
  BY <1>6, <1>7, <1>8, <1>9, <1>10 DEF SlotInv

-----------------------------------------------------------------------------
(* Giving slots back. *)

\* free_mamba_cache frees what the request holds, but the slot it keeps.
LEMMA FreedFacts ==
    ASSUME SlotInv, NEW r \in Reqs, Running(r), NEW q,
           q.req_pool_idx = req[r].req_pool_idx,
           q.mamba_pool_idx = req[r].mamba_pool_idx, q.buffer = req[r].buffer
    PROVE  /\ Held(q) = Held(req[r]) /\ Held(q) \subseteq MambaIds
           /\ Freed(q, None) = Held(q)
           /\ \A k \in Track : q.buffer[k] # None =>
                 /\ Freed(q, k) = Held(q) \ {q.buffer[k]}
                 /\ q.buffer[k] \in Held(q) /\ q.buffer[k] # q.mamba_pool_idx
<1> DEFINE b == req[r].buffer
           x == req[r].mamba_pool_idx
<1>1. /\ track_map[q.req_pool_idx] = b
      /\ x # None /\ x \in MambaIds \cup {None} /\ b \in [Track -> MambaIds \cup {None}]
      /\ ~Lazy => \A i \in Track : b[i] # None
      /\ \A i \in Track : b[i] # None => b[i] # x
      /\ \A i, j \in Track : b[i] # None /\ b[i] = b[j] => i = j
      /\ None \notin Track
  <2>1. None \notin Track
    BY ConfigFacts DEF SlotInv, Types, None
  <2>2. HeldOnce(req[r]) /\ Fields(r) /\ req[r] \in ReqFields
    BY DEF SlotInv, Ledger, Types
  <2> QED
    BY <2>1, <2>2 DEF SlotInv, MapCoherent, Running, Fields, HeldOnce, ReqFields
<1>2. Held(q) = ({x} \cup {b[i] : i \in Track}) \ {None} /\ Held(req[r]) = Held(q)
  BY DEF Held
<1>3. \A k : Freed(q, k) = {x} \cup ({b[i] : i \in Track \ {k}} \ (IF Lazy THEN {None} ELSE {}))
  BY <1>1 DEF Freed, BufferToFree
<1> HIDE DEF b, x
<1>4. Freed(q, None) = Held(q)
  BY <1>1, <1>2, <1>3
<1>5. ASSUME NEW k \in Track, b[k] # None
      PROVE  Freed(q, k) = Held(q) \ {b[k]} /\ b[k] \in Held(q) /\ b[k] # x
  <2>1. b[k] # x /\ b[k] \in Held(q)
    BY <1>1, <1>2, <1>5
  <2>2. {b[i] : i \in Track \ {k}} \ {None} = ({b[i] : i \in Track} \ {None}) \ {b[k]}
    BY <1>1, <1>5
  <2>3. Freed(q, k) = {x} \cup ({b[i] : i \in Track \ {k}} \ {None})
    BY <1>1, <1>3
  <2> QED
    BY <1>1, <1>2, <2>1, <2>2, <2>3
<1>6. Held(q) \subseteq MambaIds
  BY <1>1, <1>2
<1> QED
  BY <1>2, <1>4, <1>5, <1>6 DEF b, x

\* ReqToTokenPool.free.
LEMMA ReleaseFacts ==
    ASSUME SlotInv, NEW r \in Reqs, Running(r), NEW q, Release(r, q),
           q.req_pool_idx = req[r].req_pool_idx, UNCHANGED config
    PROVE  /\ free_slots' \in Seq(ReqSlots) /\ RowLedger' /\ MapCoherent'
           /\ \A s \in Reqs : Fields(s)'
           /\ req' \in [Reqs -> ReqFields'] /\ ReqFields' = ReqFields
           /\ req'[r] = Idle /\ Held(req[r])' = {} /\ HeldOnce(req[r])'
           /\ \A s \in Reqs : s # r => req'[s] = req[s]
           /\ UNCHANGED <<req_generation, mamba_map, track_map>>
<1> DEFINE idx == req[r].req_pool_idx
           n == Len(free_slots)
<1>1. /\ free_slots' = Append(free_slots, idx) /\ req' = [req EXCEPT ![r] = Idle]
      /\ UNCHANGED <<req_generation, mamba_map, track_map>>
      /\ UNCHANGED <<Track, Lazy, BufferSize, ReqFields, NoBuffer, Idle>>
  BY DEF Release, Track, BufferSize, Overlap, Lazy, ReqFields, NoBuffer, Idle
<1>2. /\ DOMAIN req = Reqs /\ req'[r] = Idle /\ \A s \in Reqs : s # r => req'[s] = req[s]
      /\ idx \in ReqSlots /\ None \notin ReqSlots /\ Idle.req_pool_idx = None
      /\ \A s \in Reqs : req[s].req_pool_idx \in ReqSlots \cup {None}
  BY <1>1, ConstantFacts DEF SlotInv, Types, Running, ReqFields, Idle
<1>3. /\ free_slots' \in Seq(ReqSlots) /\ n \in Nat
      /\ DOMAIN free_slots = 1 .. n /\ DOMAIN free_slots' = 1 .. (n + 1)
      /\ \A i \in 1 .. n : free_slots'[i] = free_slots[i]
      /\ free_slots'[n + 1] = idx
  <2>1. free_slots \in Seq(ReqSlots) /\ n \in Nat /\ DOMAIN free_slots = 1 .. n
    BY LenProperties DEF SlotInv, Types
  <2>2. /\ Append(free_slots, idx) \in Seq(ReqSlots) /\ Len(Append(free_slots, idx)) = n + 1
        /\ \A i \in 1 .. n : Append(free_slots, idx)[i] = free_slots[i]
        /\ Append(free_slots, idx)[n + 1] = idx
    BY <1>2, <2>1, AppendProperties
  <2>3. DOMAIN free_slots' = 1 .. (n + 1)
    BY <1>1, <2>2, LenProperties
  <2> QED
    BY <1>1, <2>1, <2>2, <2>3
<1>4. RowLedger'
  <2> HIDE DEF idx, n
  <2>1. \A i \in 1 .. n : free_slots[i] # idx
    BY <1>3 DEF SlotInv, RowLedger, idx
  <2>2. \A i, j \in DOMAIN free_slots' : free_slots'[i] = free_slots'[j] => i = j
    BY <1>3, <2>1 DEF SlotInv, RowLedger
  <2>3. \A s \in Reqs : s # r => req[s].req_pool_idx # idx
    BY DEF SlotInv, RowLedger, Running, idx
  <2>4. \A s \in Reqs, i \in DOMAIN free_slots' : req'[s].req_pool_idx # free_slots'[i]
    <3> SUFFICES ASSUME NEW s \in Reqs, NEW i \in DOMAIN free_slots'
                 PROVE  req'[s].req_pool_idx # free_slots'[i]
      OBVIOUS
    <3>1. CASE s = r
      BY <1>2, <1>3, <3>1, ElementOfSeq, LenProperties
    <3>2. CASE s # r
      BY <1>2, <1>3, <2>3, <3>2 DEF SlotInv, RowLedger
    <3> QED
      BY <3>1, <3>2
  <2>5. \A s, t \in Reqs : Running(s)' /\ req'[s].req_pool_idx = req'[t].req_pool_idx => s = t
    BY <1>2 DEF SlotInv, RowLedger, Running
  <2>6. \A s \in ReqSlots : \/ \E i \in DOMAIN free_slots' : free_slots'[i] = s
                            \/ \E t \in Reqs : req'[t].req_pool_idx = s
    <3> SUFFICES ASSUME NEW s \in ReqSlots
                 PROVE  \/ \E i \in DOMAIN free_slots' : free_slots'[i] = s
                        \/ \E t \in Reqs : req'[t].req_pool_idx = s
      OBVIOUS
    <3>1. CASE \E i \in DOMAIN free_slots : free_slots[i] = s
      BY <1>3, <3>1
    <3>2. CASE \E t \in Reqs : req[t].req_pool_idx = s
      <4>1. PICK t \in Reqs : req[t].req_pool_idx = s
        BY <3>2
      <4>2. CASE t = r
        BY <1>3, <4>1, <4>2 DEF idx
      <4>3. CASE t # r
        BY <1>2, <4>1, <4>3
      <4> QED
        BY <4>2, <4>3
    <3> QED
      BY <3>1, <3>2 DEF SlotInv, RowLedger
  <2> QED
    BY <2>2, <2>4, <2>5, <2>6 DEF RowLedger
<1>5. MapCoherent'
  BY <1>1, <1>2 DEF SlotInv, MapCoherent
<1>6. \A s \in Reqs : Fields(s)'
  <2> SUFFICES ASSUME NEW s \in Reqs PROVE Fields(s)'
    OBVIOUS
  <2>1. CASE s = r
    <3>1. Idle.tracked = 0 /\ Idle.pos = 0 /\ Len(Text[r]) \in Nat
      BY TextFacts DEF Idle
    <3> QED
      BY <1>1, <1>2, <2>1, <3>1 DEF Fields, Running
  <2>2. CASE s # r
    BY <1>1, <1>2, <2>2 DEF SlotInv, Fields, Running
  <2> QED
    BY <2>1, <2>2
<1>7. Held(Idle) = {} /\ HeldOnce(Idle) /\ Idle \in ReqFields
  BY IdleHoldsNothing DEF SlotInv
<1>8. Held(req[r])' = {} /\ HeldOnce(req[r])'
  <2>1. Idle.mamba_pool_idx = None /\ \A i \in Track : Idle.buffer[i] = None
    BY DEF Idle, NoBuffer
  <2> QED
    BY <1>1, <1>2, <2>1 DEF Held, HeldOnce
<1>9. req' \in [Reqs -> ReqFields']
  BY <1>1, <1>7 DEF SlotInv, Types
<1> QED
  BY <1>1, <1>2, <1>3, <1>4, <1>5, <1>6, <1>8, <1>9

\* A retracted decode gives back everything and waits.
LEMMA RetractInv ==
    ASSUME SlotInv, NEW r \in Reqs, Retract(r)
    PROVE  SlotInv'
<1>1. /\ Running(r) /\ Release(r, req[r])
      /\ mamba_free' = mamba_free \cup Freed(req[r], None)
      /\ mamba' = Scrub(mamba, mamba_free')
      /\ UNCHANGED <<config, ckpt_free, cache, ckpt, stream, results>>
  BY DEF Retract, Running
<1>2. /\ free_slots' \in Seq(ReqSlots) /\ RowLedger' /\ MapCoherent'
      /\ \A s \in Reqs : Fields(s)'
      /\ req' \in [Reqs -> ReqFields'] /\ ReqFields' = ReqFields
      /\ req'[r] = Idle /\ Held(req[r])' = {} /\ HeldOnce(req[r])'
      /\ \A s \in Reqs : s # r => req'[s] = req[s]
      /\ UNCHANGED <<req_generation, mamba_map, track_map>>
  BY <1>1, ReleaseFacts
<1>3. Freed(req[r], None) = Held(req[r]) /\ Held(req[r]) \subseteq MambaIds
  BY <1>1, FreedFacts
<1>4. UNCHANGED <<Track, CachedSlots, CachedCkpts, Depth, Outstanding>>
  BY <1>1 DEF Track, BufferSize, Depth, Overlap, Int8, CachedSlots, CachedCkpts, Outstanding
<1>5. DOMAIN mamba' = DOMAIN mamba
  BY <1>1, ScrubFacts
<1>6. Types'
  BY <1>1, <1>2, <1>3, <1>4, <1>5 DEF SlotInv, Types
<1>7. Ledger'
  <2>1. /\ DOMAIN req = Reqs
        /\ mamba_free' \cap CachedSlots' = {}
        /\ Held(req[r])' \cap (mamba_free' \cup CachedSlots') = {}
        /\ mamba_free' \cup CachedSlots' \cup Held(req[r])'
               = mamba_free \cup CachedSlots \cup Held(req[r])
    BY <1>1, <1>2, <1>3, <1>4 DEF SlotInv, Ledger, Types
  <2> QED
    BY <1>1, <1>2, <2>1, Exchange DEF SlotInv
<1>8. CacheLedger'
  BY <1>1, <1>4 DEF SlotInv, CacheLedger
<1>9. /\ Outstanding \in {0, 1, 2}
      /\ \A i \in 1 .. Outstanding :
            /\ Flight(i)' = Flight(i) /\ Flight(i).r \in Reqs /\ Flight(i).idx \in ReqSlots
  BY <1>1, FlightTypes DEF SlotInv, Flight
<1>10. \A i \in 1 .. Outstanding :
          /\ Live(Flight(i))' => Live(Flight(i)) /\ Flight(i).r # r
          /\ Live(Flight(i)) /\ Flight(i).r # r => Live(Flight(i))'
          /\ Flight(i).r # r => req'[Flight(i).r] = req[Flight(i).r]
  <2>1. Idle.req_pool_idx = None /\ None \notin ReqSlots
    BY ConstantFacts DEF Idle
  <2> QED
    BY <1>2, <1>9, <2>1 DEF Live
<1>11. FlightOrder'
  <2>1. ASSUME Outstanding > 0
        PROVE  /\ Flight(Outstanding).gen = req_generation[Flight(Outstanding).idx]
               /\ Live(Flight(Outstanding)) =>
                     Flight(Outstanding).to = req[Flight(Outstanding).r].pos
    BY <2>1 DEF SlotInv, FlightOrder
  <2>2. ASSUME Outstanding = 2, Live(Flight(1))
        PROVE  IF Live(Flight(2)) /\ Flight(2).r = Flight(1).r
               THEN ~Flight(2).extend /\ Flight(2).to = Flight(1).to + 1
               ELSE Flight(1).to = req[Flight(1).r].pos
    BY <2>2 DEF SlotInv, FlightOrder
  <2>3. CASE Outstanding = 0
    BY <1>4, <2>3 DEF FlightOrder
  <2>4. CASE Outstanding = 1
    BY <1>2, <1>4, <1>9, <1>10, <2>1, <2>4 DEF FlightOrder
  <2>5. CASE Outstanding = 2
    <3>1. 1 \in 1 .. Outstanding /\ 2 \in 1 .. Outstanding /\ Outstanding' = 2
      BY <1>4, <2>5
    <3>2. /\ Flight(2)'.gen = req_generation'[Flight(2)'.idx]
          /\ Live(Flight(2))' => Flight(2)'.to = req'[Flight(2)'.r].pos
      BY <1>2, <1>9, <1>10, <2>1, <2>5, <3>1
    <3>3. Live(Flight(1))' =>
             IF Live(Flight(2))' /\ Flight(2)'.r = Flight(1)'.r
             THEN ~Flight(2)'.extend /\ Flight(2)'.to = Flight(1)'.to + 1
             ELSE Flight(1)'.to = req'[Flight(1)'.r].pos
      BY <1>9, <1>10, <2>2, <2>5, <3>1
    <3> QED
      BY <3>1, <3>2, <3>3 DEF FlightOrder
  <2> QED
    BY <1>9, <2>3, <2>4, <2>5
<1>12. FlightTracks'
  <2> SUFFICES ASSUME NEW i \in 1 .. Outstanding
               PROVE  /\ ~Flight(i)'.extend /\ Flight(i)'.off > 0 => Flight(i)'.to % Interval = 0
                      /\ Live(Flight(i))' /\ ~Flight(i)'.extend /\ Flight(i)'.off > 0
                            => req'[Flight(i)'.r].buffer[req'[Flight(i)'.r].next] # None
    BY <1>4 DEF FlightTracks
  <2> QED
    BY <1>9, <1>10 DEF SlotInv, FlightTracks
<1> QED
  BY <1>2, <1>6, <1>7, <1>8, <1>11, <1>12 DEF SlotInv

\* The radix cache takes a checkpoint or gives its slot back.
LEMMA InsertFacts ==
    ASSUME SlotInv, NEW p, NEW s \in MambaIds, NEW free, Insert(p, s, free), UNCHANGED config,
           free \subseteq MambaIds, s \notin free \cup CachedSlots, free \cap CachedSlots = {}
    PROVE  /\ mamba_free' \subseteq MambaIds /\ mamba_free' \cap CachedSlots' = {}
           /\ mamba_free' \cup CachedSlots' = free \cup {s} \cup CachedSlots
           /\ CacheLedger' /\ ckpt_free' \subseteq CkptIds
           /\ mamba' = Scrub(mamba, mamba_free')
           /\ DOMAIN mamba' = DOMAIN mamba /\ DOMAIN ckpt' = DOMAIN ckpt
           /\ DOMAIN cache \subseteq DOMAIN cache' /\ DOMAIN cache' \subseteq DOMAIN cache \cup {p}
           /\ \A o \in DOMAIN cache : cache'[o] = cache[o]
           /\ free \subseteq mamba_free'
           /\ \A t \in CkptIds : t \notin ckpt_free => ckpt'[t] = ckpt[t]
           /\ ckpt_free' \subseteq ckpt_free
           /\ p \in DOMAIN cache' /\ p \notin DOMAIN cache =>
                 IF Int8 THEN cache'[p] \in CkptIds /\ ckpt'[cache'[p]] = mamba[s]
                         ELSE cache'[p] = s
<1> DEFINE c == Take(ckpt_free, 1)[1]
<1>1. /\ CacheLedger /\ Ledger /\ Types /\ mamba' = Scrub(mamba, mamba_free')
      /\ DOMAIN mamba' = DOMAIN mamba /\ Int8' = Int8
  BY ScrubFacts DEF SlotInv, Insert, Int8
<1>2. CASE p \in DOMAIN cache \/ (Int8 /\ ckpt_free = {})
  <2>1. mamba_free' = free \cup {s} /\ UNCHANGED <<cache, ckpt, ckpt_free>>
    BY <1>2 DEF Insert
  <2>2. UNCHANGED <<CachedSlots, CachedCkpts>>
    BY <1>1, <2>1 DEF CachedSlots, CachedCkpts
  <2>3. CacheLedger'
    BY <1>1, <2>1, <2>2 DEF CacheLedger
  <2> QED
    BY <1>1, <1>2, <2>1, <2>2, <2>3 DEF Types
<1>3. CASE p \notin DOMAIN cache /\ Int8 /\ ckpt_free # {}
  <2>1. c \in ckpt_free
    <3>1. IsFiniteSet(ckpt_free)
      BY <1>1, ConstantFacts, FS_Subset DEF Types
    <3> QED
      BY <1>3, <3>1, TakeOne
  <2>2. /\ cache' = [o \in DOMAIN cache \cup {p} |-> IF o = p THEN c ELSE cache[o]]
        /\ mamba_free' = free \cup {s} /\ ckpt_free' = ckpt_free \ {c}
        /\ ckpt' = [ckpt EXCEPT ![c] = mamba[s]]
    BY <1>3 DEF Insert, StoreFromActive
  <2> HIDE DEF c
  <2>3. /\ c \in CkptIds /\ DOMAIN ckpt = CkptIds /\ DOMAIN ckpt' = CkptIds /\ ckpt'[c] = mamba[s]
        /\ \A t \in CkptIds : t # c => ckpt'[t] = ckpt[t]
    BY <1>1, <2>1, <2>2 DEF Types
  <2>4. /\ DOMAIN cache' = DOMAIN cache \cup {p} /\ cache'[p] = c
        /\ \A o \in DOMAIN cache : cache'[o] = cache[o]
    BY <1>3, <2>2
  <2>5. CachedSlots = {} /\ CachedSlots' = {} /\ CachedCkpts = {cache[o] : o \in DOMAIN cache}
    BY <1>1, <1>3 DEF CachedSlots, CachedCkpts
  <2>6. CachedCkpts' = CachedCkpts \cup {c}
    <3>1. CachedCkpts' = {cache'[o] : o \in DOMAIN cache'}
      BY <1>1, <1>3 DEF CachedCkpts
    <3> QED
      BY <2>4, <2>5, <3>1
  <2>7. CacheLedger'
    <3>1. \A o \in DOMAIN cache : cache[o] # c
      BY <1>1, <2>1, <2>5 DEF CacheLedger
    <3>2. \A o, v \in DOMAIN cache' : cache'[o] = cache'[v] => o = v
      BY <1>1, <2>4, <3>1 DEF CacheLedger
    <3>3. ckpt_free' \cap CachedCkpts' = {} /\ CkptIds = ckpt_free' \cup CachedCkpts'
      BY <1>1, <2>1, <2>2, <2>6 DEF CacheLedger
    <3> QED
      BY <3>2, <3>3 DEF CacheLedger
  <2> QED
    BY <1>1, <1>3, <2>1, <2>2, <2>3, <2>4, <2>5, <2>7 DEF Types
<1>4. CASE p \notin DOMAIN cache /\ ~Int8
  <2>1. /\ cache' = [o \in DOMAIN cache \cup {p} |-> IF o = p THEN s ELSE cache[o]]
        /\ mamba_free' = free /\ UNCHANGED <<ckpt, ckpt_free>>
    BY <1>4 DEF Insert
  <2>2. /\ DOMAIN cache' = DOMAIN cache \cup {p} /\ cache'[p] = s
        /\ \A o \in DOMAIN cache : cache'[o] = cache[o]
    BY <1>4, <2>1
  <2>3. CachedSlots = {cache[o] : o \in DOMAIN cache} /\ CachedCkpts = {} /\ CachedCkpts' = {}
    BY <1>1, <1>4 DEF CachedSlots, CachedCkpts
  <2>4. CachedSlots' = CachedSlots \cup {s}
    <3>1. CachedSlots' = {cache'[o] : o \in DOMAIN cache'}
      BY <1>1, <1>4 DEF CachedSlots
    <3> QED
      BY <2>2, <2>3, <3>1
  <2>5. CacheLedger'
    <3>1. \A o \in DOMAIN cache : cache[o] # s
      BY <2>3
    <3> QED
      BY <1>1, <2>1, <2>2, <2>3, <3>1 DEF CacheLedger
  <2> QED
    BY <1>1, <1>4, <2>1, <2>2, <2>3, <2>4, <2>5 DEF Types
<1> QED
  BY <1>2, <1>3, <1>4

\* The result that ends a request: its last tracked slot may go to the cache.
LEMMA FinishInv ==
    ASSUME SlotInv, Finish
    PROVE  SlotInv'
<1> DEFINE w == Head(results)
           q == Booked(w)
           p == FirstN(w.r, q.tracked)
           keep == IF q.tracked = 0 THEN None ELSE KeepIdx(q)
<1>0. PICK r \in Reqs : r = w.r
  <2>1. w \in ResultFields
    BY FlightProcessed DEF SlotInv, Finish
  <2> QED
    BY <2>1 DEF ResultFields
<1>1. /\ results # <<>> /\ results' = Tail(results) /\ Live(w) /\ Release(r, q)
      /\ UNCHANGED <<config, stream>>
      /\ IF keep = None
         THEN /\ mamba_free' = mamba_free \cup Freed(q, None)
              /\ mamba' = Scrub(mamba, mamba_free')
              /\ UNCHANGED <<ckpt_free, cache, ckpt>>
         ELSE Insert(p, q.buffer[keep], mamba_free \cup Freed(q, keep))
  BY <1>0 DEF Finish
<1>2. /\ Outstanding' = Outstanding - 1 /\ results' \in Seq(ResultFields) /\ Outstanding \in Nat
      /\ w \in ResultFields
  BY <1>1, FlightProcessed, FlightTypes DEF SlotInv
<1> HIDE DEF w
<1>3. /\ q \in ReqFields
      /\ q.req_pool_idx = req[r].req_pool_idx /\ q.mamba_pool_idx = req[r].mamba_pool_idx
      /\ q.buffer = req[r].buffer /\ q.pos = req[r].pos
      /\ req[r].req_pool_idx = w.idx /\ w.idx \in ReqSlots
      /\ q.tracked <= q.pos
      /\ q.tracked # 0 => q.buffer[q.last] # None
  BY <1>0, <1>1, <1>2, BookedFacts DEF w
<1> HIDE DEF q
<1>4. Running(r)
  BY <1>3, ConstantFacts DEF Running
<1>5. /\ free_slots' \in Seq(ReqSlots) /\ RowLedger' /\ MapCoherent'
      /\ \A s \in Reqs : Fields(s)'
      /\ req' \in [Reqs -> ReqFields'] /\ ReqFields' = ReqFields
      /\ req'[r] = Idle /\ Held(req[r])' = {} /\ HeldOnce(req[r])'
      /\ \A s \in Reqs : s # r => req'[s] = req[s]
      /\ UNCHANGED <<req_generation, mamba_map, track_map>>
  BY <1>1, <1>3, <1>4, ReleaseFacts
<1>6. /\ Held(q) = Held(req[r]) /\ Held(q) \subseteq MambaIds /\ Freed(q, None) = Held(q)
      /\ \A k \in Track : q.buffer[k] # None =>
            Freed(q, k) = Held(q) \ {q.buffer[k]} /\ q.buffer[k] \in Held(q)
  BY <1>3, <1>4, FreedFacts
<1>7. /\ Types /\ Ledger /\ CacheLedger
      /\ Held(q) \cap (mamba_free \cup CachedSlots) = {} /\ mamba_free \cap CachedSlots = {}
      /\ mamba_free \subseteq MambaIds
  BY <1>3, <1>6 DEF SlotInv, Ledger, Types
<1>8. UNCHANGED <<Track, Depth>> /\ Int8' = Int8
  BY <1>1 DEF Track, BufferSize, Depth, Overlap, Int8
<1>9. /\ mamba_free' \subseteq MambaIds /\ mamba_free' \cap CachedSlots' = {}
      /\ mamba_free' \cup CachedSlots' = mamba_free \cup CachedSlots \cup Held(q)
      /\ CacheLedger' /\ ckpt_free' \subseteq CkptIds
      /\ DOMAIN mamba' = DOMAIN mamba /\ DOMAIN ckpt' = DOMAIN ckpt
      /\ \A o \in DOMAIN cache' : o \in Prefixes
  <2>1. CASE keep = None
    <3>1. /\ mamba_free' = mamba_free \cup Held(q) /\ mamba' = Scrub(mamba, mamba_free')
          /\ UNCHANGED <<ckpt_free, cache, ckpt>>
      BY <1>1, <1>6, <2>1
    <3>2. UNCHANGED <<CachedSlots, CachedCkpts>>
      BY <1>8, <3>1 DEF CachedSlots, CachedCkpts
    <3>3. DOMAIN mamba' = DOMAIN mamba
      BY <3>1, ScrubFacts
    <3>4. CacheLedger'
      BY <1>7, <3>1, <3>2 DEF CacheLedger
    <3> QED
      BY <1>6, <1>7, <3>1, <3>2, <3>3, <3>4 DEF Types
  <2>2. CASE keep # None
    <3>1. keep = q.last /\ q.tracked # 0 /\ q.last \in Track
      BY <1>3, <2>2 DEF KeepIdx, ReqFields
    <3> DEFINE x == q.buffer[keep]
               free == mamba_free \cup Freed(q, keep)
    <3>2. Insert(p, x, free)
      BY <1>1, <2>2
    <3>3. /\ x # None /\ Freed(q, keep) = Held(q) \ {x} /\ x \in Held(q) /\ x \in MambaIds
      BY <1>3, <1>6, <3>1
    <3>4. p \in Prefixes
      <4>1. /\ q.tracked \in Nat /\ q.pos \in Nat /\ q.pos <= Len(Text[r]) /\ Len(Text[r]) \in Nat
        BY <1>3, TextFacts DEF ReqFields, SlotInv, Fields
      <4>2. q.tracked \in Nat /\ q.tracked <= Len(Text[r])
        BY <1>3, <4>1
      <4> QED
        BY <1>0, <1>3, <4>2, FirstNFacts
    <3> HIDE DEF x
    <3>5. /\ free \subseteq MambaIds /\ x \notin free \cup CachedSlots
          /\ free \cap CachedSlots = {}
          /\ free \cup {x} = mamba_free \cup Held(q)
      BY <1>6, <1>7, <3>3
    <3> HIDE DEF free, p, keep
    <3>6. /\ mamba_free' \subseteq MambaIds /\ mamba_free' \cap CachedSlots' = {}
          /\ mamba_free' \cup CachedSlots' = free \cup {x} \cup CachedSlots
          /\ CacheLedger' /\ ckpt_free' \subseteq CkptIds
          /\ DOMAIN mamba' = DOMAIN mamba /\ DOMAIN ckpt' = DOMAIN ckpt
          /\ DOMAIN cache' \subseteq DOMAIN cache \cup {p}
      BY ONLY SlotInv, <1>1, <3>2, <3>3, <3>5, InsertFacts, ZenonT(60)
    <3> QED
      BY <1>7, <3>4, <3>5, <3>6 DEF Types
  <2> QED
    BY <2>1, <2>2
<1>10. Ledger'
  <2>1. /\ DOMAIN req = Reqs
        /\ Held(req[r])' \cap (mamba_free' \cup CachedSlots') = {}
        /\ mamba_free' \cup CachedSlots' \cup Held(req[r])'
               = mamba_free \cup CachedSlots \cup Held(req[r])
    BY <1>5, <1>6, <1>7, <1>9 DEF Types
  <2> QED
    BY <1>1, <1>3, <1>5, <1>7, <1>9, <2>1, Exchange
<1>11. Types'
  <2>1. /\ config' \in Configs /\ stream' \in Seq(WorkFields)
        /\ req_generation' \in [ReqSlots -> 0 .. (GenMod - 1)]
        /\ mamba_map' \in [ReqSlots -> MambaIds \cup {Pad}]
        /\ track_map' \in [ReqSlots -> [Track' -> MambaIds \cup {Pad, None}]]
        /\ DOMAIN mamba' = MambaIds /\ DOMAIN ckpt' = CkptIds
        /\ Outstanding' <= Depth'
    BY <1>1, <1>2, <1>5, <1>7, <1>8, <1>9, FlightTypes DEF Types
  <2> QED
    BY <1>2, <1>5, <1>9, <2>1 DEF Types
<1>12. FlightOrder' /\ FlightTracks'
  <2>1. Idle.req_pool_idx = None
    BY DEF Idle
  <2>2. \A s \in Reqs : \/ req'[s].req_pool_idx = None
                        \/ req'[s] = req[s]
    BY <1>5, <2>1
  <2> QED
    BY <1>1, <1>5, <2>2, ProcessedFlights
<1> QED
  BY <1>5, <1>9, <1>10, <1>11, <1>12 DEF SlotInv

\* The result of an extend: the tracked slot is donated for a fresh one.
LEMMA CacheUnfinishedInv ==
    ASSUME SlotInv, CacheUnfinished
    PROVE  SlotInv'
<1> DEFINE w == Head(results)
           q == req[w.r]
           p == FirstN(w.r, q.tracked)
           new == Take(mamba_free, 1)[1]
           x == q.buffer[q.last]
           after == [q EXCEPT !.buffer[q.last] = new, !.tracked = 0,
                              !.lock = IF p \in DOMAIN cache' THEN p ELSE @]
<1>1. /\ results # <<>> /\ results' = Tail(results) /\ Live(w) /\ w.extend
      /\ UNCHANGED <<config, stream>>
      /\ IF q.tracked = 0
         THEN UNCHANGED <<free_slots, req_generation, mamba_map, track_map, mamba_free,
                          ckpt_free, req, cache, mamba, ckpt>>
         ELSE /\ mamba_free # {}
              /\ Insert(p, x, mamba_free \ {new})
              /\ req' = [req EXCEPT ![w.r] = after]
              /\ track_map' = [track_map EXCEPT ![after.req_pool_idx] = after.buffer]
              /\ UNCHANGED <<free_slots, req_generation, mamba_map>>
  BY DEF CacheUnfinished, KeepIdx, SyncedTrackMap, poolVars, stateVars
<1>2. /\ Outstanding' = Outstanding - 1 /\ results' \in Seq(ResultFields) /\ Outstanding \in Nat
      /\ w \in ResultFields /\ Outstanding <= Depth
  BY <1>1, FlightProcessed, FlightTypes DEF SlotInv
<1>3. PICK r \in Reqs : r = w.r
  BY <1>2 DEF ResultFields
<1> HIDE DEF w
<1>4. /\ q = req[r] /\ q \in ReqFields /\ Running(r) /\ q.req_pool_idx \in ReqSlots
      /\ q.mamba_pool_idx \in MambaIds /\ Types /\ Ledger /\ CacheLedger /\ Fields(r)
      /\ q.last \in Track /\ q.next \in Track /\ q.buffer \in [Track -> MambaIds \cup {None}]
      /\ q.tracked \in Nat /\ q.pos \in Nat /\ q.tracked <= q.pos /\ q.pos <= Len(Text[r])
  <2>1. q = req[r] /\ q \in ReqFields /\ Types /\ Ledger /\ CacheLedger /\ Fields(r)
    BY <1>3 DEF SlotInv, Types
  <2>2. q.req_pool_idx = w.idx /\ w.idx \in ReqSlots
    BY <1>1, <1>2 DEF Live, ResultFields
  <2> QED
    BY <2>1, <2>2, ConstantFacts DEF Running, Fields, ReqFields
<1>5. CASE q.tracked = 0
  <2>1. UNCHANGED <<free_slots, req_generation, mamba_map, track_map, mamba_free,
                    ckpt_free, req, cache, mamba, ckpt>>
    BY <1>1, <1>5
  <2>2. Types'
    BY <1>1, <1>2, <1>4, <2>1, SMTT(60) DEF Types, ReqFields, Track, BufferSize, Depth, Overlap
  <2>3. FlightOrder' /\ FlightTracks'
    BY <1>1, <2>1, ProcessedFlights
  <2>4. Ledger' /\ CacheLedger' /\ RowLedger' /\ MapCoherent' /\ \A s \in Reqs : Fields(s)'
    BY <1>1, <2>1, SameOwners
  <2> QED
    BY <2>2, <2>3, <2>4 DEF SlotInv
<1>6. CASE q.tracked # 0
  <2>1. x # None /\ x \in MambaIds
    BY <1>4, <1>6 DEF Fields
  <2>2. new \in mamba_free /\ new \in MambaIds /\ new # None
    <3>1. IsFiniteSet(mamba_free) /\ mamba_free \subseteq MambaIds
      BY <1>4, ConstantFacts, FS_Subset DEF Types
    <3> QED
      BY <1>1, <1>6, <3>1, TakeOne, ConstantFacts
  <2>3. p \in Prefixes
    <3>1. q.tracked \in Nat /\ q.tracked <= Len(Text[r])
      BY <1>4, TextFacts
    <3> QED
      BY <1>3, <3>1, FirstNFacts
  <2>4. /\ HeldOnce(q) /\ Held(q) \cap (mamba_free \cup CachedSlots) = {}
        /\ mamba_free \cap CachedSlots = {} /\ mamba_free \subseteq MambaIds
        /\ q.mamba_pool_idx # None
    BY <1>4, ConstantFacts DEF Ledger, Types
  <2> HIDE DEF new, p, x, q
  <2>5. /\ after.req_pool_idx = q.req_pool_idx /\ after.mamba_pool_idx = q.mamba_pool_idx
        /\ after.next = q.next /\ after.last = q.last /\ after.pos = q.pos
        /\ after.tracked = 0 /\ after.buffer = [q.buffer EXCEPT ![q.last] = new]
        /\ after.lock \in {p, q.lock}
        /\ after \in ReqFields
    BY <1>4, <2>2, <2>3 DEF ReqFields
  <2> HIDE DEF after
  <2>6. \A i \in Track : after.buffer[i] = IF i = q.last THEN new ELSE q.buffer[i]
    BY <1>4, <2>5
  <2>7. x \in Held(q) /\ new \notin Held(q)
    BY <1>4, <2>1, <2>2, <2>4 DEF Held, x
  <2>8. HeldOnce(after) /\ Held(after) = (Held(q) \ {x}) \cup {new}
    <3>1. \A i \in Track : q.buffer[i] # None => q.buffer[i] \in Held(q)
      BY DEF Held
    <3>2. HeldOnce(after)
      BY <2>4, <2>5, <2>6, <2>7, <3>1 DEF HeldOnce, Held
    <3>3. \A i \in Track : i # q.last => q.buffer[i] # x
      BY <1>4, <2>1, <2>4 DEF HeldOnce, x
    <3>4. q.mamba_pool_idx # x
      BY <1>4, <2>1, <2>4 DEF HeldOnce, x
    <3>5. {after.buffer[i] : i \in Track} = {q.buffer[i] : i \in Track \ {q.last}} \cup {new}
      BY <1>4, <2>6
    <3>6. {q.buffer[i] : i \in Track \ {q.last}} = {q.buffer[i] : i \in Track} \ {x}
      BY <1>4, <3>3 DEF x
    <3> QED
      BY <2>2, <2>4, <2>5, <3>2, <3>4, <3>5, <3>6 DEF Held
  <2>9. /\ mamba_free' \subseteq MambaIds /\ mamba_free' \cap CachedSlots' = {}
        /\ mamba_free' \cup CachedSlots' = (mamba_free \ {new}) \cup {x} \cup CachedSlots
        /\ CacheLedger' /\ ckpt_free' \subseteq CkptIds
        /\ DOMAIN mamba' = DOMAIN mamba /\ DOMAIN ckpt' = DOMAIN ckpt
        /\ DOMAIN cache' \subseteq DOMAIN cache \cup {p}
    <3> DEFINE free == mamba_free \ {new}
    <3>1. /\ Insert(p, x, free) /\ free \subseteq MambaIds
          /\ x \notin free \cup CachedSlots
          /\ free \cap CachedSlots = {}
      BY <1>1, <1>6, <2>4, <2>7
    <3> HIDE DEF free
    <3>2. /\ mamba_free' \subseteq MambaIds /\ mamba_free' \cap CachedSlots' = {}
          /\ mamba_free' \cup CachedSlots' = free \cup {x} \cup CachedSlots
          /\ CacheLedger' /\ ckpt_free' \subseteq CkptIds
          /\ DOMAIN mamba' = DOMAIN mamba /\ DOMAIN ckpt' = DOMAIN ckpt
          /\ DOMAIN cache' \subseteq DOMAIN cache \cup {p}
      BY ONLY SlotInv, <1>1, <2>1, <3>1, InsertFacts, ZenonT(60)
    <3> QED
      BY <3>2 DEF free
  <2>10. /\ req' = [req EXCEPT ![r] = after] /\ DOMAIN req = Reqs /\ req'[r] = after
         /\ \A s \in Reqs : s # r => req'[s] = req[s]
         /\ track_map' = [track_map EXCEPT ![q.req_pool_idx] = after.buffer]
         /\ UNCHANGED <<free_slots, req_generation, mamba_map>>
    BY <1>1, <1>3, <1>4, <1>6, <2>5 DEF Types
  <2>11. UNCHANGED <<Track, Lazy, BufferSize, Depth, ReqFields>>
    BY <1>1 DEF Track, BufferSize, Overlap, Lazy, Depth, ReqFields
  <2>12. HeldOnce(req[r])' /\ Held(req[r])' = Held(after)
    BY <2>8, <2>10, <2>11 DEF HeldOnce, Held
  <2>13. Ledger'
    <3>1. /\ Held(req[r])' \cap (mamba_free' \cup CachedSlots') = {}
          /\ mamba_free' \cup CachedSlots' \cup Held(req[r])'
                 = mamba_free \cup CachedSlots \cup Held(req[r])
      BY <1>4, <2>2, <2>4, <2>7, <2>8, <2>9, <2>12
    <3> QED
      BY <1>1, <1>4, <2>9, <2>10, <2>12, <3>1, Exchange
  <2>14. Types'
    <3>1. req' \in [Reqs -> ReqFields']
      BY <1>4, <2>5, <2>10, <2>11 DEF Types
    <3>2. after.buffer \in [Track -> MambaIds \cup {Pad, None}]
      <4>1. after.buffer \in [Track -> MambaIds \cup {None}]
        BY <2>5 DEF ReqFields
      <4> QED
        BY <4>1
    <3>3. track_map' \in [ReqSlots -> [Track' -> MambaIds \cup {Pad, None}]]
      BY <1>4, <2>10, <2>11, <3>2 DEF Types
    <3>4. /\ config' \in Configs /\ stream' \in Seq(WorkFields)
          /\ free_slots' \in Seq(ReqSlots)
          /\ req_generation' \in [ReqSlots -> 0 .. (GenMod - 1)]
          /\ mamba_map' \in [ReqSlots -> MambaIds \cup {Pad}]
          /\ DOMAIN mamba' = MambaIds /\ DOMAIN ckpt' = CkptIds
          /\ Outstanding' <= Depth'
          /\ \A o \in DOMAIN cache' : o \in Prefixes
      BY <1>1, <1>2, <1>4, <2>3, <2>9, <2>10, <2>11, FlightTypes DEF Types
    <3> QED
      BY <1>2, <2>9, <3>1, <3>3, <3>4 DEF Types
  <2>15. \A s \in Reqs : req'[s].req_pool_idx = req[s].req_pool_idx
    BY <1>4, <2>5, <2>10
  <2>16. RowLedger'
    BY <2>10, <2>15 DEF SlotInv, RowLedger, Running
  <2>17. MapCoherent'
    <3> SUFFICES ASSUME NEW s \in Reqs, req'[s].req_pool_idx # None
                 PROVE  /\ mamba_map'[req'[s].req_pool_idx] = req'[s].mamba_pool_idx
                        /\ track_map'[req'[s].req_pool_idx] = req'[s].buffer
      BY DEF MapCoherent
    <3>1. /\ mamba_map[req[s].req_pool_idx] = req[s].mamba_pool_idx
          /\ track_map[req[s].req_pool_idx] = req[s].buffer
          /\ req[s].req_pool_idx \in ReqSlots
      BY <1>4, <2>15 DEF SlotInv, MapCoherent, Types, ReqFields
    <3>2. CASE s = r
      BY <1>4, <2>5, <2>10, <3>1, <3>2 DEF Types
    <3>3. CASE s # r
      <4>1. req[s].req_pool_idx # q.req_pool_idx
        BY <1>4, <2>15, <3>3 DEF SlotInv, RowLedger, Running
      <4> QED
        BY <1>4, <2>10, <3>1, <3>3, <4>1 DEF Types
    <3> QED
      BY <3>2, <3>3
  <2>18. \A s \in Reqs : Fields(s)'
    <3> SUFFICES ASSUME NEW s \in Reqs PROVE Fields(s)'
      OBVIOUS
    <3>1. CASE s = r
      <4>1. ~Lazy => \A i \in Track : after.buffer[i] # None
        BY <1>4, <2>2, <2>6 DEF Fields
      <4> QED
        BY <1>4, <2>4, <2>5, <2>10, <2>11, <3>1, <4>1 DEF Fields, Running
    <3>2. CASE s # r
      BY <2>10, <2>11, <3>2 DEF SlotInv, Fields, Running, Idle, NoBuffer
    <3> QED
      BY <3>1, <3>2
  <2>19. FlightOrder' /\ FlightTracks'
    <3>1. \A s \in Reqs : /\ req'[s].req_pool_idx = req[s].req_pool_idx
                          /\ req'[s].pos = req[s].pos
                          /\ req[s].buffer[req[s].next] # None =>
                                req'[s].buffer[req'[s].next] # None
      BY <1>4, <2>2, <2>5, <2>6, <2>10
    <3> QED
      BY <1>1, <2>10, <3>1, ProcessedFlights
  <2> QED
    BY <2>9, <2>13, <2>14, <2>16, <2>17, <2>18, <2>19 DEF SlotInv
<1> QED
  BY <1>5, <1>6

\* An eviction gives a slot back.
LEMMA EvictInv ==
    ASSUME SlotInv, NEW p \in DOMAIN cache, Evict(p)
    PROVE  SlotInv'
<1>1. /\ cache' = [o \in DOMAIN cache \ {p} |-> cache[o]]
      /\ IF Int8 THEN ckpt_free' = ckpt_free \cup {cache[p]} /\ UNCHANGED mamba_free
                 ELSE mamba_free' = mamba_free \cup {cache[p]} /\ UNCHANGED ckpt_free
      /\ mamba' = Scrub(mamba, mamba_free') /\ ckpt' = Scrub(ckpt, ckpt_free')
      /\ UNCHANGED <<config, free_slots, req_generation, mamba_map, track_map, req,
                     stream, results>>
  BY DEF Evict
<1>2. /\ Int8 => cache[p] \in CkptIds \ ckpt_free
      /\ ~Int8 => cache[p] \in MambaIds \ mamba_free
  BY CacheRange
<1>3. /\ DOMAIN mamba' = DOMAIN mamba /\ DOMAIN ckpt' = DOMAIN ckpt
      /\ DOMAIN cache' = DOMAIN cache \ {p} /\ \A o \in DOMAIN cache' : cache'[o] = cache[o]
  BY <1>1, ScrubFacts
<1>4. UNCHANGED <<Track, Lazy, BufferSize, Int8, Depth, Outstanding, ReqFields>>
  BY <1>1 DEF Track, BufferSize, Overlap, Lazy, Int8, Depth, Outstanding, ReqFields
<1>5. Types /\ Ledger /\ CacheLedger
  BY DEF SlotInv
<1>6. Types'
  BY <1>1, <1>2, <1>3, <1>4, <1>5 DEF Types
<1>7. /\ mamba_free' \cup CachedSlots' = mamba_free \cup CachedSlots
      /\ mamba_free' \cap CachedSlots' = {} /\ CacheLedger'
  <2>1. CASE Int8
    <3>1. /\ CachedSlots = {} /\ CachedSlots' = {}
          /\ CachedCkpts = {cache[o] : o \in DOMAIN cache}
          /\ CachedCkpts' = {cache'[o] : o \in DOMAIN cache'}
      BY <1>4, <2>1 DEF CachedSlots, CachedCkpts
    <3>2. CachedCkpts' = CachedCkpts \ {cache[p]} /\ cache[p] \in CachedCkpts
      BY <1>3, <1>5, <3>1 DEF CacheLedger
    <3> QED
      BY <1>1, <1>3, <1>5, <2>1, <3>1, <3>2 DEF CacheLedger
  <2>2. CASE ~Int8
    <3>1. /\ CachedCkpts = {} /\ CachedCkpts' = {}
          /\ CachedSlots = {cache[o] : o \in DOMAIN cache}
          /\ CachedSlots' = {cache'[o] : o \in DOMAIN cache'}
      BY <1>4, <2>2 DEF CachedSlots, CachedCkpts
    <3>2. CachedSlots' = CachedSlots \ {cache[p]} /\ cache[p] \in CachedSlots
      BY <1>3, <1>5, <3>1 DEF CacheLedger
    <3> QED
      BY <1>1, <1>3, <1>5, <2>2, <3>1, <3>2 DEF CacheLedger, Ledger
  <2> QED
    BY <2>1, <2>2
<1>8. Ledger'
  <2>1. \A r \in Reqs : Held(req[r])' = Held(req[r]) /\ (HeldOnce(req[r])' <=> HeldOnce(req[r]))
    BY <1>1, <1>4 DEF HeldOnce, Held
  <2>2. UNION {Held(req[r])' : r \in Reqs} = UNION {Held(req[r]) : r \in Reqs}
    BY <2>1
  <2> QED
    BY <1>5, <1>7, <2>1, <2>2 DEF Ledger
<1>9. RowLedger' /\ MapCoherent' /\ \A r \in Reqs : Fields(r)'
  BY <1>1, <1>4 DEF SlotInv, RowLedger, MapCoherent, Fields, Running, Idle, NoBuffer
<1>10. FlightOrder' /\ FlightTracks'
  <2>1. \A i : Flight(i)' = Flight(i) /\ (Live(Flight(i))' <=> Live(Flight(i)))
    BY <1>1 DEF Flight, Live
  <2> QED
    BY <1>1, <1>4, <2>1 DEF SlotInv, FlightOrder, FlightTracks
<1> QED
  BY <1>6, <1>7, <1>8, <1>9, <1>10 DEF SlotInv

\* The pools before the first request, and after a flush.
EmptyServer ==
    /\ config \in Configs
    /\ free_slots = [i \in ReqSlots |-> i]
    /\ req_generation = [i \in ReqSlots |-> 0]
    /\ mamba_map = [i \in ReqSlots |-> Pad]
    /\ track_map = [i \in ReqSlots |-> [j \in Track |-> Pad]]
    /\ mamba_free = MambaIds /\ ckpt_free = CkptIds
    /\ DOMAIN req = Reqs /\ req = [r \in Reqs |-> req[r]] /\ \A r \in Reqs : req[r] = Idle
    /\ cache = <<>>
    /\ DOMAIN mamba = MambaIds /\ DOMAIN ckpt = CkptIds
    /\ stream = <<>> /\ results = <<>>

LEMMA EmptyPools == EmptyServer => SlotInv
<1> SUFFICES ASSUME EmptyServer PROVE SlotInv
  OBVIOUS
<1> USE DEF EmptyServer
<1>1. /\ DOMAIN cache = {} /\ Len(stream) = 0 /\ Len(results) = 0 /\ Outstanding = 0
      /\ stream \in Seq(WorkFields) /\ results \in Seq(ResultFields)
  BY EmptySeq DEF Outstanding
<1>2. ReqSize \in Nat
  BY SlotAssumption
<1>3. free_slots \in Seq(ReqSlots) /\ DOMAIN free_slots = ReqSlots
  <2>1. free_slots \in [1 .. ReqSize -> ReqSlots]
    BY DEF ReqSlots
  <2> QED
    BY <1>2, <2>1, SeqDef DEF ReqSlots
<1>4. Idle \in ReqFields /\ Held(Idle) = {} /\ HeldOnce(Idle)
  <2>1. Track = IF Overlap THEN {0, 1} ELSE {0}
    BY ConfigFacts
  <2> QED
    BY <2>1 DEF Held, HeldOnce, ReqFields, Idle, NoBuffer
<1>5. Types
  <2>1. req \in [Reqs -> ReqFields]
    BY <1>4
  <2>2. Outstanding <= Depth
    BY <1>1 DEF Depth
  <2> QED
    BY <1>1, <1>3, <2>1, <2>2 DEF Types, GenMod
<1>6. CachedSlots = {} /\ CachedCkpts = {}
  BY <1>1 DEF CachedSlots, CachedCkpts
<1>7. Ledger
  BY <1>4, <1>6 DEF Ledger
<1>8. CacheLedger
  BY <1>1, <1>6 DEF CacheLedger
<1>9. Idle.req_pool_idx = None /\ Idle.tracked = 0 /\ Idle.pos = 0
  BY DEF Idle
<1>10. RowLedger /\ MapCoherent
  BY <1>3, <1>9, ConstantFacts DEF RowLedger, MapCoherent, Running
<1>11. \A r \in Reqs : Fields(r)
  BY <1>9, TextFacts DEF Fields, Running
<1>12. FlightOrder /\ FlightTracks
  BY <1>1 DEF FlightOrder, FlightTracks
<1> QED
  BY <1>5, <1>7, <1>8, <1>10, <1>11, <1>12 DEF SlotInv

LEMMA FlushInv ==
    ASSUME SlotInv, Flush
    PROVE  SlotInv'
<1>1. /\ stream = <<>> /\ results = <<>>
  <2>1. Len(stream) = 0 /\ Len(results) = 0
    BY FlightTypes DEF SlotInv, Flush
  <2> QED
    BY <2>1, EmptySeq DEF SlotInv, Types
<1>2. DOMAIN mamba' = DOMAIN mamba /\ DOMAIN ckpt' = DOMAIN ckpt
  BY ScrubFacts DEF Flush
<1>3. UNCHANGED <<config, req, stream, results>> /\ UNCHANGED <<Track, Idle>>
  BY DEF Flush, Track, BufferSize, Overlap, Idle, NoBuffer
<1>4. EmptyServer'
  BY <1>1, <1>2, <1>3 DEF SlotInv, Types, Flush, CkptFreeAfterClear, EmptyServer
<1> QED
  BY <1>4, EmptyPools, PTL

-----------------------------------------------------------------------------
(* The books of the pools. *)

LEMMA SlotInvInit == Init => SlotInv
<1>1. Init => EmptyServer
  BY DEF Init, EmptyServer
<1> QED
  BY <1>1, EmptyPools

LEMMA SlotInvStep == SlotInv /\ [Next]_vars => SlotInv'
<1> SUFFICES ASSUME SlotInv, [Next]_vars PROVE SlotInv'
  OBVIOUS
<1>1. CASE \E r \in Reqs : LaunchFirst(r)
  BY <1>1, LaunchFirstInv
<1>2. CASE \E r \in Reqs : LaunchChunk(r) \/ LaunchDecode(r)
  BY <1>2, LaunchLaterInv
<1>3. CASE Execute
  BY <1>3, ExecuteInv
<1>4. CASE DropStale
  BY <1>4, DropStaleInv
<1>5. CASE CacheUnfinished
  BY <1>5, CacheUnfinishedInv
<1>6. CASE ContinueDecode
  BY <1>6, ContinueDecodeInv
<1>7. CASE Finish
  BY <1>7, FinishInv
<1>8. CASE \E r \in Reqs : Retract(r)
  BY <1>8, RetractInv
<1>9. CASE \E p \in DOMAIN cache : Evict(p)
  BY <1>9, EvictInv
<1>10. CASE Flush
  BY <1>10, FlushInv
<1>11. CASE UNCHANGED vars
  <2>1. /\ UNCHANGED <<config, free_slots, mamba_map, track_map, mamba_free, ckpt_free, req,
                       cache, mamba, ckpt, stream, results, req_generation>>
    BY <1>11 DEF vars, poolVars, stateVars
  <2>2. Ledger' /\ CacheLedger' /\ RowLedger' /\ MapCoherent' /\ \A r \in Reqs : Fields(r)'
    BY <2>1, SameOwners
  <2>3. Types'
    BY <2>1 DEF SlotInv, Types, ReqFields, Track, BufferSize, Depth, Overlap, Outstanding
  <2>4. FlightOrder' /\ FlightTracks'
    <3>1. Outstanding' = Outstanding
      BY <2>1 DEF Outstanding
    <3>2. \A i : Flight(i)' = Flight(i) /\ (Live(Flight(i))' <=> Live(Flight(i)))
      BY <2>1 DEF Flight, Live
    <3> QED
      BY <2>1, <3>1, <3>2 DEF SlotInv, FlightOrder, FlightTracks
  <2> QED
    BY <2>2, <2>3, <2>4 DEF SlotInv
<1> QED
  BY <1>1, <1>2, <1>3, <1>4, <1>5, <1>6, <1>7, <1>8, <1>9, <1>10, <1>11 DEF Next

\* The books of the pools and of the forwards in flight are kept: the slots are
\* partitioned, the device tables agree with the requests, and no forward can be
\* taken for one of a later life of its request slot.
THEOREM SlotInvAlways == Spec => []SlotInv
<1>1. Init => SlotInv
  BY SlotInvInit
<1>2. SlotInv /\ [Next]_vars => SlotInv'
  BY SlotInvStep
<1> QED
  BY <1>1, <1>2, PTL DEF Spec

\* The state of the pools has its types.
THEOREM MambaTypeCorrect == Spec => []TypeOK
<1>1. SlotInv => TypeOK
  <2> SUFFICES ASSUME SlotInv PROVE TypeOK
    OBVIOUS
  <2>1. \A i \in 1 .. Len(free_slots) : free_slots[i] \in ReqSlots
    BY ElementOfSeq DEF SlotInv, Types
  <2>2. \A r \in Reqs : /\ req[r].req_pool_idx \in ReqSlots \cup {None}
                        /\ req[r].mamba_pool_idx \in MambaIds \cup {None}
                        /\ req[r].buffer \in [Track -> MambaIds \cup {None}]
                        /\ {req[r].next, req[r].last} \subseteq Track
    <3> SUFFICES ASSUME NEW r \in Reqs
                 PROVE  /\ req[r].req_pool_idx \in ReqSlots \cup {None}
                        /\ req[r].mamba_pool_idx \in MambaIds \cup {None}
                        /\ req[r].buffer \in [Track -> MambaIds \cup {None}]
                        /\ {req[r].next, req[r].last} \subseteq Track
      OBVIOUS
    <3>1. req[r] \in ReqFields
      BY DEF SlotInv, Types
    <3> QED
      BY <3>1 DEF ReqFields
  <2> QED
    BY <2>1, <2>2 DEF SlotInv, Types, TypeOK
<1> QED
  BY <1>1, SlotInvAlways, PTL

\* The device tables name the slots the books of a request name, so that
\* free_mamba_cache, which reads the device, frees what the request holds.
THEOREM MapCoherentAlways == Spec => []MapCoherent
<1>1. SlotInv => MapCoherent
  BY DEF SlotInv
<1> QED
  BY <1>1, SlotInvAlways, PTL

LEMMA OneOwner ==
    ASSUME SlotInv, NEW s \in MambaIds
    PROVE  \E x : Owners(s) = {x}
<1>1. /\ Types /\ Ledger /\ CacheLedger
      /\ \/ s \in mamba_free
         \/ s \in CachedSlots
         \/ \E r \in Reqs : s \in Held(req[r])
  BY DEF SlotInv, Ledger
<1>2. s # None
  BY ConstantFacts
<1>3. \A r \in Reqs : /\ req[r].mamba_pool_idx = s => s \in Held(req[r])
                      /\ \A i \in Track : req[r].buffer[i] = s => s \in Held(req[r])
  BY <1>2 DEF Held
<1>4. CachedSlots = {cache[p] : p \in {o \in DOMAIN cache : ~Int8}}
  BY DEF CachedSlots
<1> DEFINE free == {<<"free">> : x \in mamba_free \cap {s}}
           cached == {<<"cached", p>> : p \in {o \in DOMAIN cache : ~Int8 /\ cache[o] = s}}
           active == {<<"active", r>> : r \in {q \in Reqs : req[q].mamba_pool_idx = s}}
           track == {<<"track", x[1], x[2]>> :
                        x \in {y \in Reqs \X Track : req[y[1]].buffer[y[2]] = s}}
<1>5. Owners(s) = free \cup cached \cup active \cup track
  BY DEF Owners
<1>6. CASE s \in mamba_free
  <2>1. \A r \in Reqs : s \notin Held(req[r])
    BY <1>1, <1>6 DEF Ledger
  <2>2. cached = {} /\ free = {<<"free">>}
    BY <1>1, <1>4, <1>6 DEF Ledger
  <2>3. active = {} /\ track = {}
    BY <1>3, <2>1
  <2> HIDE DEF free, cached, active, track
  <2> QED
    BY <1>5, <2>2, <2>3
<1>7. CASE s \in CachedSlots
  <2>1. \A r \in Reqs : s \notin Held(req[r])
    BY <1>1, <1>7 DEF Ledger
  <2>2. free = {}
    BY <1>1, <1>7 DEF Ledger
  <2>3. active = {} /\ track = {}
    BY <1>3, <2>1
  <2>4. PICK p \in DOMAIN cache : ~Int8 /\ cache[p] = s
    BY <1>4, <1>7
  <2>5. {o \in DOMAIN cache : ~Int8 /\ cache[o] = s} = {p}
    BY <1>1, <2>4 DEF CacheLedger
  <2>6. cached = {<<"cached", p>>}
    BY <2>5
  <2> HIDE DEF free, cached, active, track
  <2> QED
    BY <1>5, <2>2, <2>3, <2>6
<1>8. CASE \E r \in Reqs : s \in Held(req[r])
  <2>1. PICK r \in Reqs : s \in Held(req[r])
    BY <1>8
  <2>2. free = {} /\ cached = {}
    BY <1>1, <1>4, <2>1 DEF Ledger
  <2>3. \A q \in Reqs : s \in Held(req[q]) => q = r
    BY <1>1, <2>1 DEF Ledger
  <2>4. HeldOnce(req[r])
    BY <1>1 DEF Ledger
  <2>5. CASE req[r].mamba_pool_idx = s
    <3>1. {q \in Reqs : req[q].mamba_pool_idx = s} = {r}
      BY <1>3, <2>3, <2>5
    <3>2. active = {<<"active", r>>}
      BY <3>1
    <3>3. track = {}
      BY <1>2, <1>3, <2>3, <2>4, <2>5 DEF HeldOnce
    <3> HIDE DEF free, cached, active, track
    <3> QED
      BY <1>5, <2>2, <3>2, <3>3
  <2>6. CASE req[r].mamba_pool_idx # s
    <3>1. active = {}
      BY <1>3, <2>3, <2>6
    <3>2. PICK i \in Track : req[r].buffer[i] = s
      BY <2>1, <2>6 DEF Held
    <3>3. {y \in Reqs \X Track : req[y[1]].buffer[y[2]] = s} = {<<r, i>>}
      <4>1. \A y \in Reqs \X Track : y[1] \in Reqs /\ y[2] \in Track /\ y = <<y[1], y[2]>>
        OBVIOUS
      <4>2. \A y \in Reqs \X Track : req[y[1]].buffer[y[2]] = s => y[1] = r /\ y[2] = i
        BY <1>2, <1>3, <2>3, <2>4, <3>2, <4>1 DEF HeldOnce
      <4> QED
        BY <3>2, <4>1, <4>2
    <3>4. track = {<<"track", r, i>>}
      <4> DEFINE at == {y \in Reqs \X Track : req[y[1]].buffer[y[2]] = s}
      <4>1. at = {<<r, i>>} /\ track = {<<"track", x[1], x[2]>> : x \in at}
        BY <3>3
      <4> HIDE DEF at, track
      <4>2. {<<"track", x[1], x[2]>> : x \in {<<r, i>>}} = {<<"track", r, i>>}
        OBVIOUS
      <4> QED
        BY <4>1, <4>2
    <3> HIDE DEF free, cached, active, track
    <3> QED
      BY <1>5, <2>2, <3>1, <3>4
  <2> QED
    BY <2>5, <2>6
<1> QED
  BY <1>1, <1>6, <1>7, <1>8

LEMMA OneCkptOwner ==
    ASSUME SlotInv, NEW c \in CkptIds
    PROVE  \E x : CkptOwners(c) = {x}
<1> DEFINE free == {<<"free">> : x \in ckpt_free \cap {c}}
           cached == {<<"cached", p>> : p \in {o \in DOMAIN cache : Int8 /\ cache[o] = c}}
<1>1. CkptOwners(c) = free \cup cached
  BY DEF CkptOwners
<1>2. CacheLedger /\ CachedCkpts = {cache[p] : p \in {o \in DOMAIN cache : Int8}}
  BY DEF SlotInv, CachedCkpts
<1>3. CASE c \in ckpt_free
  <2>1. free = {<<"free">>} /\ cached = {}
    BY <1>2, <1>3 DEF CacheLedger
  <2> HIDE DEF free, cached
  <2> QED
    BY <1>1, <2>1
<1>4. CASE c \notin ckpt_free
  <2>1. PICK p \in DOMAIN cache : Int8 /\ cache[p] = c
    BY <1>2, <1>4 DEF CacheLedger
  <2>2. {o \in DOMAIN cache : Int8 /\ cache[o] = c} = {p}
    BY <1>2, <2>1 DEF CacheLedger
  <2>3. free = {} /\ cached = {<<"cached", p>>}
    BY <1>4, <2>2
  <2> HIDE DEF free, cached
  <2> QED
    BY <1>1, <2>3
<1> QED
  BY <1>3, <1>4

\* No slot leaks and none is handed out twice: through the lazy fill, donation,
\* retraction, eviction and flush every slot has one owner, and so has every
\* request slot.
THEOREM SlotLedgerAlways == Spec => []SlotLedger
<1>1. SlotInv => SlotLedger
  <2> SUFFICES ASSUME SlotInv PROVE SlotLedger
    OBVIOUS
  <2>1. \A s \in MambaIds : Cardinality(Owners(s)) = 1
    BY OneOwner, FS_Singleton
  <2>2. \A c \in CkptIds : Cardinality(CkptOwners(c)) = 1
    BY OneCkptOwner, FS_Singleton
  <2>3. ASSUME NEW i \in ReqSlots
        PROVE  Cardinality({j \in DOMAIN free_slots : free_slots[j] = i})
                 + Cardinality({r \in Reqs : req[r].req_pool_idx = i}) = 1
    <3> DEFINE waiting == {j \in DOMAIN free_slots : free_slots[j] = i}
               running == {r \in Reqs : req[r].req_pool_idx = i}
    <3>1. i # None
      BY ConstantFacts
    <3>2. CASE \E j \in DOMAIN free_slots : free_slots[j] = i
      <4>1. PICK j \in DOMAIN free_slots : free_slots[j] = i
        BY <3>2
      <4>2. waiting = {j} /\ running = {}
        BY <4>1 DEF SlotInv, RowLedger
      <4> HIDE DEF waiting, running
      <4>3. Cardinality(waiting) = 1 /\ Cardinality(running) = 0
        BY <4>2, FS_Singleton, FS_EmptySet
      <4>4. Cardinality(waiting) + Cardinality(running) = 1
        BY <4>3
      <4> QED
        BY <4>4 DEF waiting, running
    <3>3. CASE ~\E j \in DOMAIN free_slots : free_slots[j] = i
      <4>1. PICK r \in Reqs : req[r].req_pool_idx = i
        BY <3>3 DEF SlotInv, RowLedger
      <4>2. waiting = {} /\ running = {r}
        BY <3>1, <3>3, <4>1 DEF SlotInv, RowLedger, Running
      <4> HIDE DEF waiting, running
      <4>3. Cardinality(waiting) = 0 /\ Cardinality(running) = 1
        BY <4>2, FS_Singleton, FS_EmptySet
      <4>4. Cardinality(waiting) + Cardinality(running) = 1
        BY <4>3
      <4> QED
        BY <4>4 DEF waiting, running
    <3> QED
      BY <3>2, <3>3
  <2> QED
    BY <2>1, <2>2, <2>3 DEF SlotLedger
<1> QED
  BY <1>1, SlotInvAlways, PTL
=============================================================================
