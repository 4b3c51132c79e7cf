------------------------ MODULE MambaContentsProofs ------------------------
(***************************************************************************)
(* Proofs about what the slots of MambaSlots hold: that no checkpoint and  *)
(* no running request ever sees a state another owner of its slot, or a    *)
(* forward left behind by one, has written.                                *)
(***************************************************************************)
EXTENDS MambaSlotsProofs

-----------------------------------------------------------------------------
(* The inductive invariant. *)

Holds(m, s, p) == \A c \in Components : m[s][c] = p

\* A forward that sets the state of its slot before it reads it.
Fresh(w) == w.clear \/ w.cow # None

\* An extend that leaves a snapshot in the last track slot of its request.
Tracking(w) == w.extend /\ w.off > 0

\* A decode that leaves one in the next track slot, live for request r.
Booking(w, r) == w.r = r /\ Live(w) /\ ~w.extend /\ w.off > 0

LiveIn(i, r) == stream[i].r = r /\ Live(stream[i])

\* Slots the execution of a forward in flight writes.
Writes(w) == (IF Fresh(w) THEN {w.dst} ELSE {}) \cup {mamba_map[w.idx]}
                \cup (IF w.track = Pad THEN {} ELSE {w.track})

\* The shape of a forward.
WorkSound(w) ==
    /\ w.off > 0 <=> w.track # Pad
    /\ w.from < w.to /\ w.to <= Len(Text[w.r]) /\ w.off <= w.to - w.from
    /\ ~w.extend => w.to = w.from + 1 /\ ~Fresh(w)
    /\ ~(w.clear /\ w.cow # None)

\* A live forward works on the slots its request has, and a checkpoint it copies
\* from is protected by its request.
LiveSound(w) ==
    LET q == req[w.r]
    IN  /\ w.dst = q.mamba_pool_idx
        /\ Tracking(w) => w.track = q.buffer[q.last] /\ q.tracked = w.from + w.off
        /\ ~w.extend /\ w.off > 0 => w.track = q.buffer[q.next]
        /\ w.clear => w.from = 0
        /\ w.cow # None => /\ q.lock \in DOMAIN cache /\ cache[q.lock] = w.cow
                           /\ q.lock = FirstN(w.r, w.from)

\* A live forward that reads its slot finds the tokens before its own there, or
\* runs behind the forward that folds them in.
Ready(i) ==
    LET w == stream[i]
    IN  ~Fresh(w) =>
          /\ (\A j \in 1 .. (i - 1) : ~LiveIn(j, w.r)) =>
                Holds(mamba, req[w.r].mamba_pool_idx, FirstN(w.r, w.from))
          /\ \A j \in 1 .. (i - 1) : LiveIn(j, w.r) => stream[j].to = w.from

StreamSound ==
    \A i \in 1 .. Len(stream) :
        /\ WorkSound(stream[i])
        /\ Live(stream[i]) => LiveSound(stream[i]) /\ Ready(i)

\* A request whose forwards have all executed has its tokens in its slot, what it
\* tracked in its last track slot, and what an unprocessed decode tracked in the
\* next one.  With a single track slot the last one is the next one.
Settled(r) ==
    /\ (\A i \in 1 .. Len(stream) : ~LiveIn(i, r)) =>
          Holds(mamba, req[r].mamba_pool_idx, FirstN(r, req[r].pos))
    /\ /\ req[r].tracked # 0
       /\ \A i \in 1 .. Len(stream) : ~(LiveIn(i, r) /\ Tracking(stream[i]))
       /\ BufferSize = 1 => /\ \A i \in 1 .. Len(stream) : ~Booking(stream[i], r)
                            /\ \A k \in 1 .. Len(results) : ~Booking(results[k], r)
       => Holds(mamba, req[r].buffer[req[r].last], FirstN(r, req[r].tracked))
    /\ \A k \in 1 .. Len(results) : Booking(results[k], r) =>
          Holds(mamba, req[r].buffer[req[r].next], FirstN(r, results[k].to))

\* Forward i of another life does not write a slot of request r whose contents
\* count, unless a later forward of r sets that slot anew.
Spares(i, r) ==
    LET w == stream[i]
        later == (i + 1) .. Len(stream)
    IN  /\ req[r].mamba_pool_idx \in Writes(w) =>
              \E j \in later : LiveIn(j, r) /\ Fresh(stream[j])
        /\ req[r].tracked # 0 /\ req[r].buffer[req[r].last] \in Writes(w) =>
              \E j \in later : LiveIn(j, r) /\ Tracking(stream[j])
        /\ req[r].buffer[req[r].next] \in Writes(w) =>
              /\ \A k \in 1 .. Len(results) : ~Booking(results[k], r)
              /\ \A j \in 1 .. (i - 1) : ~Booking(stream[j], r)

Interference ==
    \A i \in 1 .. Len(stream) :
        /\ Writes(stream[i]) \cap CachedSlots = {}
        /\ \A r \in Reqs : Running(r) /\ ~LiveIn(i, r) => Spares(i, r)

ContentInv ==
    /\ CachedTrue /\ StreamSound
    /\ \A r \in Reqs : Running(r) => Settled(r)
    /\ Interference

-----------------------------------------------------------------------------
(* Facts about tokens, slots and forwards. *)

\* Folding the next n tokens of a text into its first `from' gives the longer
\* prefix.
LEMMA FoldFacts ==
    ASSUME NEW r \in Reqs, NEW from \in Nat, NEW n \in Nat, from + n <= Len(Text[r])
    PROVE  Fold(FirstN(r, from), SubSeq(Text[r], from + 1, from + n)) = FirstN(r, from + n)
<1> DEFINE S == {Text[r][i] : i \in DOMAIN Text[r]}
           p == FirstN(r, from + n)
<1>1. Text[r] \in Seq(S) /\ Len(Text[r]) \in Nat
  BY TextFacts
<1>2. FirstN(r, from) \o SubSeq(Text[r], from + 1, from + n) = p
  <2> HIDE DEF S
  <2>1. 1 \in 1 .. Len(Text[r]) + 1 /\ from \in 1 - 1 .. Len(Text[r]) /\ from + n \in from .. Len(Text[r])
    BY <1>1
  <2> QED
    BY <1>1, <2>1, ConcatAdjacentSubSeq DEF FirstN
<1>3. Len(p) = from + n
  <2>1. from + n \in Nat
    OBVIOUS
  <2> QED
    BY <2>1, FirstNFacts
<1>4. IsPrefixOf(p, Text[r])
  BY <1>1, <1>3 DEF IsPrefixOf, FirstN
<1> QED
  BY <1>2, <1>4 DEF Fold

\* What the types say of the fields used here.
LEMMA SlotFacts ==
    ASSUME SlotInv
    PROVE  /\ config \in Configs /\ BufferSize \in {1, 2} /\ Depth = BufferSize
           /\ \A r \in Reqs :
                /\ req[r].mamba_pool_idx \in MambaIds \cup {None}
                /\ req[r].next \in Track /\ req[r].last \in Track
                /\ \A i \in Track : req[r].buffer[i] \in MambaIds \cup {None}
                /\ req[r].pos \in Nat /\ req[r].tracked \in Nat
                /\ req[r].pos <= Len(Text[r]) /\ Len(Text[r]) \in Nat
                /\ Running(r) => /\ req[r].mamba_pool_idx \in MambaIds
                                 /\ req[r].req_pool_idx \in ReqSlots
                                 /\ mamba_map[req[r].req_pool_idx] = req[r].mamba_pool_idx
                /\ req[r].tracked # 0 =>
                     /\ req[r].buffer[req[r].last] \in MambaIds
                     /\ BufferSize = 2 => req[r].last # req[r].next
           /\ \A i \in 1 .. Len(stream) : stream[i] \in WorkFields
           /\ \A k \in 1 .. Len(results) : results[k] \in ResultFields
           /\ \A i \in ReqSlots : mamba_map[i] \in MambaIds \cup {Pad}
           /\ Track = IF BufferSize = 2 THEN {0, 1} ELSE {0}
<1>1. Types /\ MapCoherent /\ \A r \in Reqs : Fields(r)
  BY DEF SlotInv
<1>2. config \in Configs /\ BufferSize \in {1, 2} /\ Depth = BufferSize
  BY <1>1, ConfigFacts DEF Types
<1>3. ASSUME NEW r \in Reqs
      PROVE  /\ req[r].mamba_pool_idx \in MambaIds \cup {None}
             /\ req[r].next \in Track /\ req[r].last \in Track
             /\ \A i \in Track : req[r].buffer[i] \in MambaIds \cup {None}
             /\ req[r].pos \in Nat /\ req[r].tracked \in Nat
             /\ req[r].req_pool_idx \in ReqSlots \cup {None}
  BY <1>1 DEF Types, ReqFields
<1>4. ASSUME NEW r \in Reqs
      PROVE  /\ req[r].pos <= Len(Text[r]) /\ Len(Text[r]) \in Nat
             /\ Running(r) => /\ req[r].mamba_pool_idx \in MambaIds
                              /\ req[r].req_pool_idx \in ReqSlots
                              /\ mamba_map[req[r].req_pool_idx] = req[r].mamba_pool_idx
             /\ req[r].tracked # 0 =>
                  /\ req[r].buffer[req[r].last] \in MambaIds
                  /\ BufferSize = 2 => req[r].last # req[r].next
  <2>1. Fields(r) /\ MapCoherent
    BY <1>1
  <2> QED
    BY <1>3, <2>1, TextFacts DEF Fields, MapCoherent, Running
<1>5. /\ \A i \in 1 .. Len(stream) : stream[i] \in WorkFields
      /\ \A k \in 1 .. Len(results) : results[k] \in ResultFields
  BY <1>1, ElementOfSeq DEF Types
<1>6. \A i \in ReqSlots : mamba_map[i] \in MambaIds \cup {Pad}
  BY <1>1 DEF Types
<1>7. Track = IF BufferSize = 2 THEN {0, 1} ELSE {0}
  BY <1>1, ConfigFacts DEF Types
<1> QED
  BY <1>2, <1>3, <1>4, <1>5, <1>6, <1>7

\* Slots of one request are different from those of another, from the free ones
\* and from the cached ones, and its track slots from its state slot.
LEMMA OwnSlots ==
    ASSUME SlotInv, NEW r \in Reqs, Running(r)
    PROVE  /\ req[r].mamba_pool_idx \in Held(req[r])
           /\ \A i \in Track : req[r].buffer[i] # None =>
                 /\ req[r].buffer[i] \in Held(req[r])
                 /\ req[r].buffer[i] # req[r].mamba_pool_idx
                 /\ \A j \in Track : req[r].buffer[i] = req[r].buffer[j] => i = j
           /\ Held(req[r]) \cap (mamba_free \cup CachedSlots) = {}
           /\ \A t \in Reqs : t # r => Held(req[t]) \cap Held(req[r]) = {}
           /\ Held(req[r]) \subseteq MambaIds
<1>1. /\ HeldOnce(req[r]) /\ Held(req[r]) \cap (mamba_free \cup CachedSlots) = {}
      /\ \A t \in Reqs : t # r => Held(req[t]) \cap Held(req[r]) = {}
  BY DEF SlotInv, Ledger
<1>2. /\ req[r].mamba_pool_idx \in MambaIds /\ None \notin MambaIds
      /\ \A i \in Track : req[r].buffer[i] \in MambaIds \cup {None}
  BY SlotFacts, ConstantFacts
<1> QED
  BY <1>1, <1>2 DEF HeldOnce, Held

\* The forwards in flight, counted from the oldest.
LEMMA FlightNames ==
    ASSUME SlotInv
    PROVE  /\ Len(stream) \in Nat /\ Len(results) \in Nat
           /\ Outstanding = Len(stream) + Len(results) /\ Outstanding <= BufferSize
           /\ \A i \in 1 .. Len(stream) : Flight(Len(results) + i) = stream[i]
           /\ \A k \in 1 .. Len(results) : Flight(k) = results[k]
<1>1. Types
  BY DEF SlotInv
<1>2. /\ Len(stream) \in Nat /\ Len(results) \in Nat
      /\ Outstanding = Len(stream) + Len(results) /\ Outstanding <= Depth
  BY <1>1, FlightTypes
<1>3. \A i \in 1 .. Len(stream) : (Len(results) + i) - Len(results) = i
  BY <1>2
<1>4. \A i \in 1 .. Len(stream) : Flight(Len(results) + i) = stream[i]
  BY <1>2, <1>3 DEF Flight
<1>5. \A k \in 1 .. Len(results) : Flight(k) = results[k]
  BY <1>2 DEF Flight
<1> QED
  BY <1>2, <1>4, <1>5, SlotFacts

\* Two live forwards of one request: the second is the decode after the first,
\* and they do not both reach a track boundary.
LEMMA TwoFlights ==
    ASSUME SlotInv, NEW i \in 1 .. Outstanding, NEW j \in 1 .. Outstanding, i < j,
           Live(Flight(i)), Live(Flight(j)), Flight(i).r = Flight(j).r
    PROVE  /\ i = 1 /\ j = 2 /\ Outstanding = 2 /\ BufferSize = 2
           /\ ~Flight(j).extend /\ Flight(j).to = Flight(i).to + 1
           /\ ~(~Flight(i).extend /\ Flight(i).off > 0 /\ Flight(j).off > 0)
<1>1. Types /\ FlightOrder /\ FlightTracks
  BY DEF SlotInv
<1>2. i = 1 /\ j = 2 /\ Outstanding = 2 /\ BufferSize = 2
  BY FlightNames, SlotFacts
<1>3. ~Flight(j).extend /\ Flight(j).to = Flight(i).to + 1
  BY <1>1, <1>2 DEF FlightOrder
<1>4. ASSUME ~Flight(i).extend, Flight(i).off > 0, Flight(j).off > 0
      PROVE  FALSE
  <2> DEFINE n == Flight(i).to
  <2>1. n % Interval = 0 /\ (n + 1) % Interval = 0
    BY <1>1, <1>3, <1>4 DEF FlightTracks
  <2>2. n \in Nat
    BY <1>1, FlightTypes
  <2>3. Interval \in Nat /\ Interval > 1
    <3>1. Overlap
      BY <1>1, <1>2, ConfigFacts DEF Types
    <3> QED
      BY <1>1, <3>1, ConfigFacts, ConstantFacts DEF Types
  <2> HIDE DEF n
  <2> QED
    BY <2>1, <2>2, <2>3, TwoBoundaries
<1> QED
  BY <1>2, <1>3, <1>4

\* A live forward is one of a request that runs.
LEMMA LiveRuns ==
    ASSUME SlotInv, NEW w, w.idx \in ReqSlots, Live(w)
    PROVE  Running(w.r) /\ req[w.r].req_pool_idx = w.idx
BY ConstantFacts DEF Live, Running

\* The slots a live forward writes are its request's.
LEMMA LiveWrites ==
    ASSUME SlotInv, StreamSound, NEW i \in 1 .. Len(stream), Live(stream[i])
    PROVE  LET w == stream[i]
               q == req[w.r]
           IN  /\ w.r \in Reqs /\ Running(w.r) /\ w.dst = q.mamba_pool_idx
               /\ mamba_map[w.idx] = q.mamba_pool_idx
               /\ ~w.extend => ~Fresh(w)
               /\ Writes(w) = {q.mamba_pool_idx} \cup (IF w.off > 0 THEN {w.track} ELSE {})
               /\ w.off > 0 /\ w.extend =>
                     w.track = q.buffer[q.last] /\ q.tracked = w.from + w.off
               /\ w.off > 0 /\ ~w.extend => w.track = q.buffer[q.next] /\ w.to = w.from + 1 /\ w.off = 1
               /\ w.off > 0 => w.track \in MambaIds
               /\ w.off \in Nat /\ w.from \in Nat /\ w.to \in Nat
<1> DEFINE w == stream[i]
           q == req[w.r]
<1>1. w \in WorkFields
  BY SlotFacts
<1>2. w.r \in Reqs /\ w.idx \in ReqSlots /\ w.off \in Nat /\ w.from \in Nat /\ w.to \in Nat
      /\ w.track \in MambaIds \cup {Pad}
  BY <1>1 DEF WorkFields
<1>3. WorkSound(w) /\ LiveSound(w)
  BY DEF StreamSound
<1> HIDE DEF w
<1>4. Live(w)
  BY DEF w
<1>5. Running(w.r) /\ q.req_pool_idx = w.idx
  BY <1>2, <1>4, LiveRuns
<1>6. w.dst = q.mamba_pool_idx /\ mamba_map[w.idx] = q.mamba_pool_idx
  BY <1>2, <1>3, <1>5, SlotFacts DEF LiveSound
<1>7. Writes(w) = {q.mamba_pool_idx} \cup (IF w.off > 0 THEN {w.track} ELSE {})
  BY <1>3, <1>6 DEF Writes, WorkSound
<1>8. /\ ~w.extend => ~Fresh(w)
      /\ w.off > 0 => w.track \in MambaIds
      /\ w.off > 0 /\ ~w.extend => w.track = q.buffer[q.next] /\ w.to = w.from + 1 /\ w.off = 1
      /\ w.off > 0 /\ w.extend => w.track = q.buffer[q.last] /\ q.tracked = w.from + w.off
  BY <1>2, <1>3 DEF WorkSound, LiveSound, Tracking
<1> QED
  BY <1>2, <1>5, <1>6, <1>7, <1>8 DEF w

-----------------------------------------------------------------------------
(* Processing the result of another request. *)

\* The books of request t, its forwards and its slots are left alone, and so are
\* the results of its decodes.
Untouched(t) ==
    /\ req'[t] = req[t]
    /\ \A s \in Held(req[t]) : mamba'[s] = mamba[s]
    /\ \A k \in 1 .. Len(results') : \E l \in 1 .. Len(results) : results'[k] = results[l]
    /\ \A k \in 1 .. Len(results) : Booking(results[k], t) =>
          \E l \in 1 .. Len(results') : results'[l] = results[k]
    /\ req[t].lock \in DOMAIN cache =>
          req[t].lock \in DOMAIN cache' /\ cache'[req[t].lock] = cache[req[t].lock]

\* A step that processes results or moves slots, and launches and executes nothing.
Booker == UNCHANGED <<config, stream, req_generation, mamba_map>>

LEMMA BystanderLive ==
    ASSUME Booker, NEW t \in Reqs, req'[t].req_pool_idx = req[t].req_pool_idx
    PROVE  /\ \A i : LiveIn(i, t)' <=> LiveIn(i, t)
           /\ \A w : w.r = t => (Live(w)' <=> Live(w))
           /\ \A w : Booking(w, t)' <=> Booking(w, t)
BY DEF Booker, LiveIn, Live, Booking

LEMMA Bystander ==
    ASSUME SlotInv, StreamSound, Booker, NEW t \in Reqs, Running(t), Untouched(t), Settled(t)
    PROVE  /\ Settled(t)'
           /\ \A i \in 1 .. Len(stream) : LiveIn(i, t) => LiveSound(stream[i])' /\ Ready(i)'
           /\ \A i \in 1 .. Len(stream) : Spares(i, t) => Spares(i, t)'
<1>1. /\ req'[t] = req[t] /\ stream' = stream /\ mamba_map' = mamba_map /\ config' = config
      /\ Track' = Track /\ BufferSize' = BufferSize
  BY DEF Untouched, Booker, Track, BufferSize, Overlap
<1>2. /\ \A i : LiveIn(i, t)' <=> LiveIn(i, t)
      /\ \A w : Booking(w, t)' <=> Booking(w, t)
  BY <1>1, BystanderLive
<1>3. /\ mamba'[req[t].mamba_pool_idx] = mamba[req[t].mamba_pool_idx]
      /\ \A i \in Track : req[t].buffer[i] # None =>
            mamba'[req[t].buffer[i]] = mamba[req[t].buffer[i]]
  BY OwnSlots DEF Untouched
<1>4. \A w : (Writes(w))' = Writes(w)
  BY <1>1 DEF Writes, Fresh
<1>5. \A k \in 1 .. Len(results') : \E l \in 1 .. Len(results) : results'[k] = results[l]
  BY DEF Untouched
<1>6. \A k \in 1 .. Len(results) : Booking(results[k], t) =>
          \E l \in 1 .. Len(results') : results'[l] = results[k]
  BY DEF Untouched
<1>7. \A k \in 1 .. Len(results') : Booking(results[k], t)' =>
          \E l \in 1 .. Len(results) : results'[k] = results[l] /\ Booking(results[l], t)
  BY ONLY Booker, <1>1, <1>5 DEF Booking, Live, Booker
<1>8. \A k \in 1 .. Len(results) : Booking(results[k], t) =>
          \E l \in 1 .. Len(results') : Booking(results[l], t)'
  BY <1>1, <1>6 DEF Booking, Live, Booker
<1>9. \A i : Booking(stream[i], t)' <=> Booking(stream[i], t)
  BY <1>1 DEF Booking, Live, Booker
<1>10. /\ req[t].mamba_pool_idx \in MambaIds /\ req[t].next \in Track /\ req[t].last \in Track
       /\ req[t].tracked # 0 => req[t].buffer[req[t].last] # None
       /\ \A k \in 1 .. Len(results) : Booking(results[k], t) => req[t].buffer[req[t].next] # None
  <2>1. ASSUME NEW k \in 1 .. Len(results), Booking(results[k], t)
        PROVE  req[t].buffer[req[t].next] # None
    <3>1. k \in 1 .. Outstanding /\ Flight(k) = results[k]
      BY FlightNames
    <3> QED
      BY <2>1, <3>1 DEF SlotInv, FlightTracks, Booking
  <2> QED
    BY <2>1, SlotFacts, ConstantFacts
<1>11. Settled(t)'
  <2>1. (\A i \in 1 .. Len(stream') : ~LiveIn(i, t)') =>
            Holds(mamba', req'[t].mamba_pool_idx, FirstN(t, req'[t].pos))
    BY <1>1, <1>2, <1>3 DEF Settled, Holds
  <2>2. /\ req'[t].tracked # 0
        /\ \A i \in 1 .. Len(stream') : ~(LiveIn(i, t)' /\ Tracking(stream'[i]))
        /\ BufferSize' = 1 => /\ \A i \in 1 .. Len(stream') : ~Booking(stream[i], t)'
                              /\ \A k \in 1 .. Len(results') : ~Booking(results[k], t)'
        => Holds(mamba', req'[t].buffer[req'[t].last], FirstN(t, req'[t].tracked))
    BY ONLY Settled(t), <1>1, <1>2, <1>3, <1>8, <1>9, <1>10 DEF Settled, Holds
  <2>3. \A k \in 1 .. Len(results') : Booking(results[k], t)' =>
            Holds(mamba', req'[t].buffer[req'[t].next], FirstN(t, results'[k].to))
    BY ONLY Settled(t), <1>1, <1>3, <1>7, <1>10, SMTT(60) DEF Settled, Holds
  <2> QED
    BY <2>1, <2>2, <2>3 DEF Settled
<1>12. ASSUME NEW i \in 1 .. Len(stream), LiveIn(i, t)
       PROVE  LiveSound(stream[i])' /\ Ready(i)'
  <2>1. LiveSound(stream[i]) /\ Ready(i) /\ stream[i].r = t
    BY <1>12 DEF StreamSound, LiveIn
  <2>2. LiveSound(stream[i])'
    BY <1>1, <2>1 DEF LiveSound, Untouched, Tracking
  <2>3. Ready(i)'
    BY <1>1, <1>2, <1>3, <2>1 DEF Ready, Holds, Fresh
  <2> QED
    BY <2>2, <2>3
<1>13. ASSUME NEW i \in 1 .. Len(stream), Spares(i, t)
       PROVE  Spares(i, t)'
  BY <1>1, <1>2, <1>4, <1>7, <1>9, <1>13 DEF Spares, Fresh, Tracking
<1> QED
  BY <1>11, <1>12, <1>13

-----------------------------------------------------------------------------
(* The invariant, request by request. *)

\* What the invariant says of one request.
Sound(r) ==
    Running(r) =>
        /\ Settled(r)
        /\ \A i \in 1 .. Len(stream) :
              IF LiveIn(i, r) THEN LiveSound(stream[i]) /\ Ready(i) ELSE Spares(i, r)

\* What it says of the forwards and the cache.
ForwardsSound ==
    \A i \in 1 .. Len(stream) :
        WorkSound(stream[i]) /\ Writes(stream[i]) \cap CachedSlots = {}

LEMMA ContentParts ==
    SlotInv => (ContentInv <=> CachedTrue /\ ForwardsSound /\ \A r \in Reqs : Sound(r))
<1> SUFFICES ASSUME SlotInv
             PROVE  ContentInv <=> CachedTrue /\ ForwardsSound /\ \A r \in Reqs : Sound(r)
  OBVIOUS
<1>1. ASSUME NEW i \in 1 .. Len(stream), Live(stream[i])
      PROVE  stream[i].r \in Reqs /\ Running(stream[i].r) /\ LiveIn(i, stream[i].r)
  <2>1. stream[i].r \in Reqs /\ stream[i].idx \in ReqSlots
    <3>1. stream[i] \in WorkFields
      BY SlotFacts
    <3> QED
      BY <3>1 DEF WorkFields
  <2> QED
    BY <1>1, <2>1, LiveRuns DEF LiveIn
<1>2. ASSUME ContentInv
      PROVE  CachedTrue /\ ForwardsSound /\ \A r \in Reqs : Sound(r)
  <2>1. ForwardsSound
    BY <1>2 DEF ContentInv, ForwardsSound, StreamSound, Interference
  <2>2. ASSUME NEW r \in Reqs, Running(r)
        PROVE  /\ Settled(r)
               /\ \A i \in 1 .. Len(stream) :
                     IF LiveIn(i, r) THEN LiveSound(stream[i]) /\ Ready(i) ELSE Spares(i, r)
    BY <1>2, <2>2 DEF ContentInv, StreamSound, Interference, LiveIn
  <2> QED
    BY <1>2, <2>1, <2>2 DEF ContentInv, Sound
<1>3. ASSUME CachedTrue, ForwardsSound, \A r \in Reqs : Sound(r)
      PROVE  ContentInv
  <2>1. StreamSound
    <3>1. ASSUME NEW i \in 1 .. Len(stream), Live(stream[i])
          PROVE  LiveSound(stream[i]) /\ Ready(i)
      <4>1. Sound(stream[i].r) /\ Running(stream[i].r) /\ LiveIn(i, stream[i].r)
        BY <1>1, <1>3, <3>1
      <4> QED
        BY <4>1 DEF Sound
    <3> QED
      BY <1>3, <3>1 DEF StreamSound, ForwardsSound
  <2> QED
    BY <1>3, <2>1 DEF ContentInv, ForwardsSound, Interference, Sound
<1> QED
  BY <1>2, <1>3

\* What a step that processes results has to show.
LEMMA BookerInv ==
    ASSUME SlotInv, ContentInv, Booker, SlotInv', CachedTrue',
           \A i \in 1 .. Len(stream) : Writes(stream[i]) \cap CachedSlots' = {},
           \A t \in Reqs : Untouched(t) \/ Sound(t)'
    PROVE  ContentInv'
<1>1. ForwardsSound /\ \A t \in Reqs : Sound(t)
  BY ContentParts
<1>2. ForwardsSound'
  <2>1. \A i : Writes(stream[i])' = Writes(stream[i]) /\ WorkSound(stream[i])' = WorkSound(stream[i])
    BY DEF Writes, WorkSound, Fresh, Booker
  <2>2. Len(stream)' = Len(stream)
    BY DEF Booker
  <2> QED
    BY <1>1, <2>1, <2>2 DEF ForwardsSound
<1>3. ASSUME NEW t \in Reqs, Untouched(t)
      PROVE  Sound(t)'
  <2>1. Running(t)' <=> Running(t)
    BY <1>3 DEF Running, Untouched
  <2>2. Sound(t) /\ StreamSound
    BY <1>1 DEF ContentInv
  <2>3. CASE Running(t)
    <3>1. Settled(t)
      BY <2>2, <2>3 DEF Sound
    <3>2. /\ Settled(t)'
          /\ \A i \in 1 .. Len(stream) : LiveIn(i, t) => LiveSound(stream[i])' /\ Ready(i)'
          /\ \A i \in 1 .. Len(stream) : Spares(i, t) => Spares(i, t)'
      BY <1>3, <2>2, <2>3, <3>1, Bystander
    <3>3. \A i : LiveIn(i, t)' <=> LiveIn(i, t)
      BY <1>3, BystanderLive DEF Untouched
    <3>4. Len(stream)' = Len(stream)
      BY DEF Booker
    <3> QED
      BY <2>2, <2>3, <3>2, <3>3, <3>4 DEF Sound
  <2>4. CASE ~Running(t)
    BY <2>1, <2>4 DEF Sound
  <2> QED
    BY <2>3, <2>4
<1>4. \A t \in Reqs : Sound(t)'
  BY <1>3
<1>5. SlotInv' => (ContentInv <=> CachedTrue /\ ForwardsSound /\ \A r \in Reqs : Sound(r))'
  BY ContentParts, PTL
<1> QED
  BY <1>2, <1>4, <1>5

\* A request that no longer runs promises nothing.
LEMMA GoneSound ==
    ASSUME NEW r \in Reqs, req'[r] = Idle
    PROVE  Sound(r)'
BY DEF Sound, Running, Idle

\* Slots that somebody still owns after the step keep what they hold.
LEMMA KeptCached ==
    ASSUME SlotInv, SlotInv', CachedTrue, UNCHANGED config,
           \A s \in MambaIds : s \notin mamba_free' => mamba'[s] = mamba[s],
           \A c \in CkptIds : c \notin ckpt_free' => ckpt'[c] = ckpt[c]
    PROVE  \A p \in DOMAIN cache : p \in DOMAIN cache' /\ cache'[p] = cache[p] =>
              \A c \in Components : p = (IF Int8' THEN ckpt' ELSE mamba')[cache'[p]][c]
<1> SUFFICES ASSUME NEW p \in DOMAIN cache, p \in DOMAIN cache', cache'[p] = cache[p],
                    NEW c \in Components
             PROVE  p = (IF Int8' THEN ckpt' ELSE mamba')[cache'[p]][c]
  OBVIOUS
<1>1. p = (IF Int8 THEN ckpt ELSE mamba)[cache[p]][c]
  BY DEF CachedTrue
<1>2. Int8' = Int8 /\ CkptIds' = CkptIds /\ MambaIds' = MambaIds
  BY DEF Int8, CkptIds, MambaIds
<1>3. /\ Int8 => cache[p] \in CkptIds
      /\ ~Int8 => cache[p] \in MambaIds
  BY CacheRange
<1>4. /\ Int8 => cache'[p] \notin ckpt_free'
      /\ ~Int8 => cache'[p] \notin mamba_free'
  <2>1. /\ (mamba_free \cap CachedSlots)' = {} /\ (ckpt_free \cap CachedCkpts)' = {}
    BY DEF SlotInv, Ledger, CacheLedger
  <2> QED
    BY <1>2, <2>1 DEF CachedSlots, CachedCkpts
<1> QED
  BY <1>1, <1>2, <1>3, <1>4

\* Taking the head off the results.
LEMMA HeadOfResults ==
    ASSUME SlotInv, results # <<>>
    PROVE  /\ results \in Seq(ResultFields) /\ Len(results) \in Nat /\ Len(results) > 0
           /\ Head(results) = results[1] /\ Head(results) = Flight(1)
           /\ Head(results) \in ResultFields
<1>1. results \in Seq(ResultFields) /\ Len(results) \in Nat
  BY FlightNames DEF SlotInv, Types
<1>2. Len(results) > 0
  BY <1>1, EmptySeq
<1>3. Head(results) = results[1] /\ Head(results) \in ResultFields
  BY <1>1, HeadTailProperties
<1>4. Flight(1) = results[1]
  BY <1>1, <1>2 DEF Flight
<1> QED
  BY <1>1, <1>2, <1>3, <1>4

LEMMA ResultsLeft ==
    ASSUME SlotInv, results # <<>>, results' = Tail(results)
    PROVE  /\ Len(results') = Len(results) - 1
           /\ \A k \in 1 .. Len(results') : k + 1 \in 1 .. Len(results) /\ results'[k] = results[k + 1]
           /\ \A k \in 1 .. Len(results) : k # 1 =>
                 k - 1 \in 1 .. Len(results') /\ results'[k - 1] = results[k]
<1>1. results \in Seq(ResultFields) /\ Len(results) \in Nat
  BY HeadOfResults
<1>2. /\ Len(results') = Len(results) - 1
      /\ \A k \in 1 .. Len(results') : results'[k] = results[k + 1]
  BY <1>1, HeadTailProperties
<1>6. ASSUME NEW k \in 1 .. Len(results), k # 1
      PROVE  k - 1 \in 1 .. Len(results') /\ results'[k - 1] = results[k]
  <2>1. k - 1 \in 1 .. Len(results') /\ (k - 1) + 1 = k
    BY <1>1, <1>2, <1>6
  <2> QED
    BY <1>2, <2>1
<1> QED
  BY <1>1, <1>2, <1>6

\* Processing a result leaves alone every request but the one it is of, and that
\* one too if the result is not the one of its decode at a track boundary.
LEMMA OthersUntouched ==
    ASSUME SlotInv, SlotInv', UNCHANGED config,
           \/ UNCHANGED results
           \/ results # <<>> /\ results' = Tail(results),
           \A s \in MambaIds : s \notin mamba_free' => mamba'[s] = mamba[s],
           NEW t \in Reqs, req'[t] = req[t],
           results' # results => ~Booking(Head(results), t),
           req[t].lock \in DOMAIN cache =>
               req[t].lock \in DOMAIN cache' /\ cache'[req[t].lock] = cache[req[t].lock]
    PROVE  Untouched(t)
<1>1. \A s \in Held(req[t]) : mamba'[s] = mamba[s]
  <2>1. (Held(req[t]) \cap mamba_free)' = {}
    BY DEF SlotInv, Ledger
  <2>2. Held(req[t])' = Held(req[t])
    BY DEF Held, Track, BufferSize, Overlap
  <2>3. Held(req[t]) \subseteq MambaIds
    BY SlotFacts DEF Held
  <2> QED
    BY <2>1, <2>2, <2>3
<1>2. \A k \in 1 .. Len(results') : \E l \in 1 .. Len(results) : results'[k] = results[l]
  BY ResultsLeft
<1>3. \A k \in 1 .. Len(results) : Booking(results[k], t) =>
          \E l \in 1 .. Len(results') : results'[l] = results[k]
  <2> SUFFICES ASSUME NEW k \in 1 .. Len(results), Booking(results[k], t)
               PROVE  \E l \in 1 .. Len(results') : results'[l] = results[k]
    OBVIOUS
  <2>1. CASE UNCHANGED results
    BY <2>1
  <2>2. CASE results # <<>> /\ results' = Tail(results) /\ results' # results
    <3>1. Head(results) = results[1] /\ ~Booking(Head(results), t)
      BY <2>2, HeadOfResults
    <3>2. k # 1
      BY <3>1
    <3> QED
      BY <2>2, <3>2, ResultsLeft
  <2> QED
    BY <2>1, <2>2
<1> QED
  BY <1>1, <1>2, <1>3 DEF Untouched

LEMMA DropStaleContent ==
    ASSUME SlotInv, ContentInv, SlotInv', DropStale
    PROVE  ContentInv'
<1>1. /\ results # <<>> /\ results' = Tail(results) /\ ~Live(Head(results)) /\ Booker
      /\ UNCHANGED <<config, req, cache, mamba, ckpt, mamba_free, ckpt_free>>
  BY DEF DropStale, Booker, poolVars, stateVars
<1>2. CachedTrue'
  <2>1. CachedTrue
    BY DEF ContentInv
  <2> QED
    BY <1>1, <2>1 DEF CachedTrue, Int8
<1>3. \A i \in 1 .. Len(stream) : Writes(stream[i]) \cap CachedSlots' = {}
  <2>1. CachedSlots' = CachedSlots
    BY <1>1 DEF CachedSlots, Int8
  <2> QED
    BY <2>1 DEF ContentInv, Interference
<1>4. ASSUME NEW t \in Reqs
      PROVE  Untouched(t)
  <2>1. ~Booking(Head(results), t)
    BY <1>1 DEF Booking
  <2> QED
    BY <1>1, <2>1, OthersUntouched
<1> QED
  BY <1>1, <1>2, <1>3, <1>4, BookerInv

LEMMA RetractContent ==
    ASSUME SlotInv, ContentInv, SlotInv', NEW r \in Reqs, Retract(r)
    PROVE  ContentInv'
<1>1. /\ mamba' = Scrub(mamba, mamba_free') /\ Booker
      /\ req' = [req EXCEPT ![r] = Idle]
      /\ UNCHANGED <<config, results, cache, ckpt, ckpt_free>>
  BY DEF Retract, Booker, Release
<1>2. req'[r] = Idle /\ \A t \in Reqs : t # r => req'[t] = req[t]
  BY <1>1 DEF SlotInv, Types
<1>3. \A s \in MambaIds : s \notin mamba_free' => mamba'[s] = mamba[s]
  BY <1>1, ScrubFacts DEF SlotInv, Types
<1>4. CachedTrue'
  <2>1. CachedTrue
    BY DEF ContentInv
  <2>2. \A p \in DOMAIN cache : p \in DOMAIN cache' /\ cache'[p] = cache[p] =>
              \A c \in Components : p = (IF Int8' THEN ckpt' ELSE mamba')[cache'[p]][c]
    BY <1>1, <1>3, <2>1, KeptCached
  <2> QED
    BY <1>1, <2>2 DEF CachedTrue
<1>5. \A i \in 1 .. Len(stream) : Writes(stream[i]) \cap CachedSlots' = {}
  <2>1. CachedSlots' = CachedSlots
    BY <1>1 DEF CachedSlots, Int8
  <2> QED
    BY <2>1 DEF ContentInv, Interference
<1>6. ASSUME NEW t \in Reqs, t # r
      PROVE  Untouched(t)
  BY <1>1, <1>2, <1>3, <1>6, OthersUntouched
<1> QED
  BY <1>1, <1>2, <1>4, <1>5, <1>6, GoneSound, BookerInv

LEMMA EvictContent ==
    ASSUME SlotInv, ContentInv, SlotInv', NEW p \in DOMAIN cache, Evict(p)
    PROVE  ContentInv'
<1>1. /\ mamba' = Scrub(mamba, mamba_free') /\ ckpt' = Scrub(ckpt, ckpt_free') /\ Booker
      /\ cache' = [o \in DOMAIN cache \ {p} |-> cache[o]]
      /\ \A r \in Reqs : req[r].lock # p
      /\ UNCHANGED <<config, results, req>>
  BY DEF Evict, Booker
<1>2. /\ \A s \in MambaIds : s \notin mamba_free' => mamba'[s] = mamba[s]
      /\ \A c \in CkptIds : c \notin ckpt_free' => ckpt'[c] = ckpt[c]
  BY <1>1, ScrubFacts DEF SlotInv, Types
<1>3. DOMAIN cache' = DOMAIN cache \ {p} /\ \A o \in DOMAIN cache' : cache'[o] = cache[o]
  BY <1>1
<1>4. CachedTrue'
  <2>1. CachedTrue
    BY DEF ContentInv
  <2>2. \A o \in DOMAIN cache : o \in DOMAIN cache' /\ cache'[o] = cache[o] =>
              \A c \in Components : o = (IF Int8' THEN ckpt' ELSE mamba')[cache'[o]][c]
    BY <1>1, <1>2, <2>1, KeptCached
  <2> QED
    BY <1>3, <2>2 DEF CachedTrue
<1>5. \A i \in 1 .. Len(stream) : Writes(stream[i]) \cap CachedSlots' = {}
  <2>1. CachedSlots' \subseteq CachedSlots
    BY <1>1, <1>3 DEF CachedSlots, Int8
  <2> QED
    BY <2>1 DEF ContentInv, Interference
<1>6. ASSUME NEW t \in Reqs
      PROVE  Untouched(t)
  BY <1>1, <1>2, <1>3, OthersUntouched
<1> QED
  BY <1>1, <1>4, <1>5, <1>6, BookerInv

-----------------------------------------------------------------------------
(* Processing the result of the request itself. *)

\* What is in flight behind the first result of a running request.
LEMMA BehindHead ==
    ASSUME SlotInv, results # <<>>, Live(Head(results))
    PROVE  LET u == Head(results)
           IN  /\ u \in ResultFields /\ u.r \in Reqs /\ Running(u.r) /\ u.idx \in ReqSlots
               /\ \A i \in 1 .. Len(stream) : LiveIn(i, u.r) =>
                     /\ BufferSize = 2 /\ ~stream[i].extend
                     /\ Booking(u, u.r) => ~(stream[i].off > 0)
               /\ \A k \in 1 .. Len(results) : k # 1 /\ Booking(results[k], u.r) =>
                     BufferSize = 2 /\ ~Booking(u, u.r)
               /\ BufferSize = 1 => Len(stream) = 0 /\ Len(results) = 1
<1> DEFINE u == Head(results)
<1>1. u \in ResultFields /\ u = Flight(1) /\ Len(results) > 0 /\ u = results[1]
  BY HeadOfResults
<1>2. u.r \in Reqs /\ u.idx \in ReqSlots
  BY <1>1 DEF ResultFields
<1> HIDE DEF u
<1>3. Live(u)
  BY DEF u
<1>4. Running(u.r)
  BY <1>2, <1>3, LiveRuns
<1>5. ASSUME NEW i \in 1 .. Len(stream), LiveIn(i, u.r)
      PROVE  /\ BufferSize = 2 /\ ~stream[i].extend
             /\ Booking(u, u.r) => ~(stream[i].off > 0)
  <2> DEFINE j == Len(results) + i
  <2>1. /\ 1 \in 1 .. Outstanding /\ j \in 1 .. Outstanding /\ 1 < j /\ Flight(j) = stream[i]
    BY <1>1, FlightNames
  <2> HIDE DEF j
  <2>2. Live(Flight(1)) /\ Live(Flight(j)) /\ Flight(1).r = Flight(j).r
    BY <1>1, <1>3, <1>5, <2>1 DEF LiveIn
  <2>3. /\ BufferSize = 2 /\ ~Flight(j).extend
        /\ ~(~Flight(1).extend /\ Flight(1).off > 0 /\ Flight(j).off > 0)
    BY <2>1, <2>2, TwoFlights
  <2> QED
    BY <1>1, <2>1, <2>3 DEF Booking
<1>6. ASSUME NEW k \in 1 .. Len(results), k # 1, Booking(results[k], u.r)
      PROVE  BufferSize = 2 /\ ~Booking(u, u.r)
  <2>1. /\ 1 \in 1 .. Outstanding /\ k \in 1 .. Outstanding /\ 1 < k /\ Flight(k) = results[k]
    BY <1>1, <1>6, FlightNames
  <2>2. /\ Live(Flight(1)) /\ Live(Flight(k)) /\ Flight(1).r = Flight(k).r
        /\ Flight(k).off > 0
    BY <1>1, <1>3, <1>6, <2>1 DEF Booking
  <2>3. /\ BufferSize = 2
        /\ ~(~Flight(1).extend /\ Flight(1).off > 0 /\ Flight(k).off > 0)
    BY <2>1, <2>2, TwoFlights
  <2> QED
    BY <1>1, <2>2, <2>3 DEF Booking
<1>7. BufferSize = 1 => Len(stream) = 0 /\ Len(results) = 1
  BY <1>1, FlightNames
<1> QED
  BY <1>1, <1>2, <1>4, <1>5, <1>6, <1>7 DEF u

\* Bookkeeping at a track boundary.
LEMMA BookedSound ==
    ASSUME SlotInv, ContentInv, ContinueDecode, Head(results).off > 0,
           NEW r \in Reqs, r = Head(results).r
    PROVE  Sound(r)'
<1> DEFINE u == Head(results)
           b == Booked(u)
<1>1. /\ results # <<>> /\ results' = Tail(results) /\ Live(u) /\ ~u.extend
      /\ req' = [req EXCEPT ![r] = b] /\ Booker /\ r = u.r
      /\ UNCHANGED <<config, cache, mamba, ckpt, stream>>
  BY DEF ContinueDecode, Booker, poolVars, stateVars
<1>2. u \in ResultFields /\ Running(r) /\ u = results[1]
  BY <1>1, BehindHead, HeadOfResults
<1>3. u.off > 0
  OBVIOUS
<1> HIDE DEF u, b
<1>4. /\ b.req_pool_idx = req[r].req_pool_idx /\ b.mamba_pool_idx = req[r].mamba_pool_idx
      /\ b.buffer = req[r].buffer /\ b.pos = req[r].pos
      /\ b.last = req[r].next /\ b.tracked = u.to
  BY <1>1, <1>2, <1>3, BookedFacts DEF u, b
<1>5. req'[r] = b
  BY <1>1, <1>2 DEF SlotInv, Types
<1>6. Booking(u, r)
  BY <1>1, <1>3 DEF Booking
<1>7. /\ \A i : LiveIn(i, r)' <=> LiveIn(i, r)
      /\ \A i : Booking(stream[i], r)' <=> Booking(stream[i], r)
      /\ \A i : Writes(stream[i])' = Writes(stream[i])
  BY <1>1, <1>4, <1>5 DEF LiveIn, Live, Booking, Booker, Writes, Fresh
<1>8. /\ \A i \in 1 .. Len(stream) : LiveIn(i, r) =>
            ~stream[i].extend /\ ~(stream[i].off > 0)
      /\ \A k \in 1 .. Len(results) : k # 1 => ~Booking(results[k], r)
  <2>1. LET w == Head(results)
        IN  /\ \A i \in 1 .. Len(stream) : LiveIn(i, w.r) =>
                  /\ BufferSize = 2 /\ ~stream[i].extend
                  /\ Booking(w, w.r) => ~(stream[i].off > 0)
            /\ \A k \in 1 .. Len(results) : k # 1 /\ Booking(results[k], w.r) =>
                  BufferSize = 2 /\ ~Booking(w, w.r)
    BY <1>1, BehindHead DEF u
  <2> QED
    BY <1>1, <1>6, <2>1 DEF u
<1>9. \A k \in 1 .. Len(results') : ~Booking(results[k], r)'
  <2>1. \A k \in 1 .. Len(results') : k + 1 \in 1 .. Len(results) /\ k + 1 # 1
                                      /\ results'[k] = results[k + 1]
    BY <1>1, ResultsLeft, FlightNames
  <2>2. \A k \in 1 .. Len(results') : Booking(results[k], r)' <=> Booking(results[k + 1], r)
    BY <1>1, <1>4, <1>5, <2>1 DEF Booking, Live, Booker
  <2> QED
    BY <1>8, <2>1, <2>2
<1>10. Settled(r) /\ StreamSound /\ Interference
  BY <1>2 DEF ContentInv
<1>11. 1 \in 1 .. Len(results) /\ Len(stream') = Len(stream)
  BY <1>1, HeadOfResults, SMTT(60)
<1>12. Settled(r)'
  <2>1. (\A i \in 1 .. Len(stream') : ~LiveIn(i, r)') =>
            Holds(mamba', req'[r].mamba_pool_idx, FirstN(r, req'[r].pos))
    BY ONLY <1>1, <1>4, <1>5, <1>7, <1>10 DEF Settled
  <2>2. Holds(mamba', req'[r].buffer[req'[r].last], FirstN(r, req'[r].tracked))
    BY <1>1, <1>2, <1>4, <1>5, <1>6, <1>10, <1>11 DEF Settled
  <2> QED
    BY ONLY <1>9, <2>1, <2>2 DEF Settled
<1>13. ASSUME NEW i \in 1 .. Len(stream'), LiveIn(i, r)'
       PROVE  LiveSound(stream[i])' /\ Ready(i)'
  <2>1. /\ LiveIn(i, r) /\ stream[i].r = r /\ Live(stream[i]) /\ ~stream[i].extend
        /\ ~(stream[i].off > 0)
    BY <1>7, <1>8, <1>11, <1>13 DEF LiveIn
  <2>2. WorkSound(stream[i]) /\ LiveSound(stream[i]) /\ Ready(i)
    BY <1>10, <1>11, <2>1 DEF StreamSound
  <2>3. LiveSound(stream[i])'
    BY <1>1, <1>4, <1>5, <2>1, <2>2 DEF LiveSound, WorkSound, Fresh, Tracking
  <2>4. Ready(i)'
    BY <1>1, <1>4, <1>5, <1>7, <2>1, <2>2 DEF Ready, Fresh
  <2> QED
    BY <2>3, <2>4
<1>14. ASSUME NEW i \in 1 .. Len(stream'), ~LiveIn(i, r)'
       PROVE  Spares(i, r)'
  <2>1. Spares(i, r)
    BY <1>2, <1>7, <1>10, <1>11, <1>14 DEF Interference
  <2>2. req[r].buffer[req[r].next] \notin Writes(stream[i])
    BY <1>2, <1>6, <1>11, <2>1 DEF Spares
  <2>3. \A j \in 1 .. Len(stream) : ~Booking(stream[j], r)
    BY <1>8 DEF Booking, LiveIn
  <2>4. \A j \in 1 .. (i - 1) : j \in 1 .. Len(stream)
    BY <1>11, FlightNames
  <2>5. req'[r].mamba_pool_idx \in Writes(stream[i])' =>
            \E j \in (i + 1) .. Len(stream') : LiveIn(j, r)' /\ Fresh(stream[j])'
    BY <1>1, <1>4, <1>5, <1>7, <2>1 DEF Spares, Fresh
  <2> QED
    BY <1>4, <1>5, <1>7, <1>9, <2>2, <2>3, <2>4, <2>5 DEF Spares
<1> QED
  BY <1>12, <1>13, <1>14 DEF Sound

LEMMA ContinueDecodeContent ==
    ASSUME SlotInv, ContentInv, SlotInv', ContinueDecode
    PROVE  ContentInv'
<1> DEFINE u == Head(results)
           b == Booked(u)
<1>1. /\ results # <<>> /\ results' = Tail(results) /\ Live(u) /\ Booker
      /\ req' = [req EXCEPT ![u.r] = b]
      /\ UNCHANGED <<config, cache, mamba, ckpt, mamba_free, stream>>
  BY DEF ContinueDecode, Booker, poolVars, stateVars
<1>2. u \in ResultFields /\ u.r \in Reqs
  BY <1>1, BehindHead
<1>3. ~(~u.extend /\ u.off > 0) => b = req[u.r]
  BY <1>1, <1>2, BookedFacts
<1> HIDE DEF u, b
<1>4. DOMAIN req = Reqs /\ req'[u.r] = b /\ \A t \in Reqs : t # u.r => req'[t] = req[t]
  BY <1>1, <1>2 DEF SlotInv, Types
<1>5. CachedTrue'
  <2>1. CachedTrue
    BY DEF ContentInv
  <2> QED
    BY <1>1, <2>1 DEF CachedTrue, Int8
<1>6. \A i \in 1 .. Len(stream) : Writes(stream[i]) \cap CachedSlots' = {}
  <2>1. CachedSlots' = CachedSlots
    BY <1>1 DEF CachedSlots, Int8
  <2> QED
    BY <2>1 DEF ContentInv, Interference
<1>7. ASSUME NEW t \in Reqs
      PROVE  Untouched(t) \/ Sound(t)'
  <2>1. CASE Booking(u, t)
    <3>1. t = u.r /\ u.off > 0
      BY <2>1 DEF Booking
    <3> QED
      BY <1>1, <3>1, BookedSound DEF u
  <2>2. CASE ~Booking(u, t)
    <3>1. req'[t] = req[t]
      BY <1>1, <1>3, <1>4, <2>2 DEF Booking
    <3>2. ~Booking(Head(results), t)
      BY <2>2, SMTT(60) DEF u
    <3> QED
      BY <1>1, <3>1, <3>2, OthersUntouched
  <2> QED
    BY <2>1, <2>2
<1> QED
  BY <1>1, <1>5, <1>6, <1>7, BookerInv

-----------------------------------------------------------------------------
(* Handing a checkpoint to the cache. *)

\* When a result is processed the slot of the last tracked state holds the tokens
\* up to the track point, and nothing in flight writes to it.
LEMMA TrackedSlot ==
    ASSUME SlotInv, ContentInv, results # <<>>, Live(Head(results)),
           NEW r \in Reqs, r = Head(results).r, Booked(Head(results)).tracked # 0
    PROVE  LET b == Booked(Head(results))
               x == req[r].buffer[b.last]
           IN  /\ x \in MambaIds /\ x \in Held(req[r]) /\ x # req[r].mamba_pool_idx
               /\ Holds(mamba, x, FirstN(r, b.tracked))
               /\ \A i \in 1 .. Len(stream) : x \notin Writes(stream[i])
<1> DEFINE u == Head(results)
           b == Booked(u)
           x == req[r].buffer[b.last]
<1>1. /\ u \in ResultFields /\ r = u.r /\ Running(r) /\ u = results[1] /\ 1 \in 1 .. Len(results)
      /\ Live(u)
  BY BehindHead, HeadOfResults
<1>2. /\ \A i \in 1 .. Len(stream) : LiveIn(i, r) =>
            /\ BufferSize = 2 /\ ~stream[i].extend
            /\ Booking(u, r) => ~(stream[i].off > 0)
      /\ BufferSize = 1 => Len(stream) = 0 /\ Len(results) = 1
  BY <1>1, BehindHead
<1>3. /\ b \in ReqFields /\ b.buffer = req[r].buffer /\ b.tracked # 0
      /\ b.buffer[b.last] # None
      /\ ~u.extend /\ u.off > 0 => b.last = req[r].next /\ b.tracked = u.to
      /\ ~(~u.extend /\ u.off > 0) => b = req[r]
  BY <1>1, BookedFacts
<1> HIDE DEF u, b
<1>4. Settled(r) /\ StreamSound /\ Interference
  BY <1>1 DEF ContentInv
<1>5. x # None /\ x \in MambaIds /\ b.last \in Track
  BY <1>3 DEF ReqFields
<1>6. x \in Held(req[r]) /\ x # req[r].mamba_pool_idx
  BY <1>1, <1>5, OwnSlots
<1>7. Booking(u, r) <=> ~u.extend /\ u.off > 0
  BY <1>1 DEF Booking
<1>8. Holds(mamba, x, FirstN(r, b.tracked))
  <2>1. CASE Booking(u, r)
    <3>1. Holds(mamba, req[r].buffer[req[r].next], FirstN(r, u.to))
      BY <1>1, <1>4, <2>1 DEF Settled
    <3> QED
      BY <1>3, <1>7, <2>1, <3>1
  <2>2. CASE ~Booking(u, r)
    <3>1. b = req[r] /\ req[r].tracked # 0
      BY <1>3, <1>7, <2>2
    <3>2. \A i \in 1 .. Len(stream) : ~(LiveIn(i, r) /\ Tracking(stream[i]))
      BY <1>2 DEF Tracking
    <3>3. BufferSize = 1 => /\ \A i \in 1 .. Len(stream) : ~Booking(stream[i], r)
                            /\ \A k \in 1 .. Len(results) : ~Booking(results[k], r)
      <4>1. ASSUME BufferSize = 1
            PROVE  /\ \A i \in 1 .. Len(stream) : ~Booking(stream[i], r)
                   /\ \A k \in 1 .. Len(results) : ~Booking(results[k], r)
        <5>1. Len(stream) = 0 /\ Len(results) = 1
          BY <1>2, <4>1
        <5>2. (\A i \in 1 .. Len(stream) : FALSE) /\ \A k \in 1 .. Len(results) : k = 1
          BY ONLY <5>1
        <5> QED
          BY <1>1, <2>2, <5>2
      <4> QED
        BY <4>1
    <3>4. Holds(mamba, req[r].buffer[req[r].last], FirstN(r, req[r].tracked))
      BY <1>4, <3>1, <3>2, <3>3 DEF Settled
    <3> QED
      BY <3>1, <3>4
  <2> QED
    BY <2>1, <2>2
<1>9. ASSUME NEW i \in 1 .. Len(stream)
      PROVE  x \notin Writes(stream[i])
  <2>1. CASE LiveIn(i, r)
    <3>1. BufferSize = 2 /\ ~stream[i].extend /\ Live(stream[i]) /\ stream[i].r = r
      BY <1>2, <2>1 DEF LiveIn
    <3>2. /\ Writes(stream[i]) = {req[r].mamba_pool_idx}
                                   \cup (IF stream[i].off > 0 THEN {stream[i].track} ELSE {})
          /\ stream[i].off > 0 => stream[i].track = req[r].buffer[req[r].next]
      BY <1>4, <3>1, LiveWrites
    <3>3. stream[i].off > 0 => x # stream[i].track
      <4> SUFFICES ASSUME stream[i].off > 0
                   PROVE  x # req[r].buffer[req[r].next]
        BY <3>2
      <4>1. b = req[r]
        BY <1>2, <1>3, <1>7, <2>1
      <4>2. req[r].last # req[r].next /\ req[r].next \in Track
        BY <1>3, <3>1, <4>1, SlotFacts
      <4> QED
        BY <1>1, <1>5, <4>1, <4>2, OwnSlots, SMTT(60)
    <3> QED
      BY <1>6, <3>2, <3>3
  <2>2. CASE ~LiveIn(i, r)
    <3>1. Spares(i, r)
      BY <1>1, <1>4, <2>2 DEF Interference
    <3>2. CASE Booking(u, r)
      <4>1. x = req[r].buffer[req[r].next]
        BY <1>3, <1>7, <3>2
      <4> QED
        BY <1>1, <3>1, <3>2, <4>1 DEF Spares
    <3>3. CASE ~Booking(u, r)
      <4>1. x = req[r].buffer[req[r].last] /\ req[r].tracked # 0
        BY <1>3, <1>7, <3>3
      <4>2. \A j \in (i + 1) .. Len(stream) : ~(LiveIn(j, r) /\ Tracking(stream[j]))
        <5>1. \A j \in (i + 1) .. Len(stream) : j \in 1 .. Len(stream)
          BY FlightNames
        <5> QED
          BY <1>2, <5>1 DEF Tracking
      <4> QED
        BY <3>1, <4>1, <4>2 DEF Spares
    <3> QED
      BY <3>2, <3>3
  <2> QED
    BY <2>1, <2>2
<1> QED
  BY <1>5, <1>6, <1>8, <1>9 DEF u, b

\* The checkpoint the cache takes is true, and the others stay so.
LEMMA InsertTrue ==
    ASSUME SlotInv, ContentInv, SlotInv', NEW p, NEW s \in MambaIds, NEW free,
           Insert(p, s, free), UNCHANGED config,
           free \subseteq MambaIds, s \notin free \cup CachedSlots, free \cap CachedSlots = {},
           Holds(mamba, s, p), \A i \in 1 .. Len(stream) : s \notin Writes(stream[i])
    PROVE  /\ CachedTrue'
           /\ \A i \in 1 .. Len(stream) : Writes(stream[i]) \cap CachedSlots' = {}
           /\ \A t \in MambaIds : t \notin mamba_free' => mamba'[t] = mamba[t]
           /\ DOMAIN cache \subseteq DOMAIN cache' /\ \A o \in DOMAIN cache : cache'[o] = cache[o]
<1>1. /\ mamba_free' \subseteq MambaIds /\ mamba_free' \cap CachedSlots' = {}
      /\ mamba_free' \cup CachedSlots' = free \cup {s} \cup CachedSlots
      /\ mamba' = Scrub(mamba, mamba_free')
      /\ DOMAIN cache \subseteq DOMAIN cache' /\ DOMAIN cache' \subseteq DOMAIN cache \cup {p}
      /\ \A o \in DOMAIN cache : cache'[o] = cache[o]
      /\ free \subseteq mamba_free'
      /\ \A t \in CkptIds : t \notin ckpt_free => ckpt'[t] = ckpt[t]
      /\ p \in DOMAIN cache' /\ p \notin DOMAIN cache =>
            IF Int8 THEN cache'[p] \in CkptIds /\ ckpt'[cache'[p]] = mamba[s]
                    ELSE cache'[p] = s
  BY InsertFacts
<1>2. \A t \in MambaIds : t \notin mamba_free' => mamba'[t] = mamba[t]
  BY <1>1, ScrubFacts DEF SlotInv, Types
<1>3. Int8' = Int8 /\ CachedTrue /\ Interference
  BY DEF Int8, ContentInv
<1>4. ASSUME NEW o \in DOMAIN cache', NEW c \in Components
      PROVE  o = (IF Int8' THEN ckpt' ELSE mamba')[cache'[o]][c]
  <2>1. CASE o \in DOMAIN cache
    <3>1. cache'[o] = cache[o] /\ o = (IF Int8 THEN ckpt ELSE mamba)[cache[o]][c]
      BY <1>1, <1>3, <2>1 DEF CachedTrue
    <3>2. CASE Int8
      <4>1. cache[o] \in CkptIds /\ cache[o] \notin ckpt_free
        BY <2>1, <3>2, CacheRange
      <4> QED
        BY <1>1, <1>3, <3>1, <3>2, <4>1
    <3>3. CASE ~Int8
      <4>1. cache[o] \in MambaIds /\ cache'[o] \in CachedSlots'
        BY <1>3, <2>1, <3>3, CacheRange DEF CachedSlots
      <4> QED
        BY <1>1, <1>2, <1>3, <3>1, <3>3, <4>1
    <3> QED
      BY <3>2, <3>3
  <2>2. CASE o \notin DOMAIN cache
    <3>1. o = p /\ mamba[s][c] = p
      BY <1>1, <2>2 DEF Holds
    <3>2. CASE Int8
      BY <1>1, <1>3, <2>2, <3>1, <3>2
    <3>3. CASE ~Int8
      <4>1. cache'[p] = s /\ cache'[o] \in CachedSlots'
        BY <1>1, <1>3, <2>2, <3>1, <3>3 DEF CachedSlots
      <4> QED
        BY <1>1, <1>2, <1>3, <3>1, <3>3, <4>1
    <3> QED
      BY <3>2, <3>3
  <2> QED
    BY <2>1, <2>2
<1>5. ASSUME NEW i \in 1 .. Len(stream)
      PROVE  Writes(stream[i]) \cap CachedSlots' = {}
  <2>1. CachedSlots' \subseteq {s} \cup CachedSlots
    BY <1>1
  <2> QED
    BY <1>3, <2>1 DEF Interference
<1> QED
  BY <1>1, <1>2, <1>4, <1>5 DEF CachedTrue

LEMMA FinishContent ==
    ASSUME SlotInv, ContentInv, SlotInv', Finish
    PROVE  ContentInv'
<1> DEFINE u == Head(results)
           b == Booked(u)
           p == FirstN(u.r, b.tracked)
           keep == IF b.tracked = 0 THEN None ELSE KeepIdx(b)
<1>1. /\ results # <<>> /\ results' = Tail(results) /\ Live(u) /\ Release(u.r, b)
      /\ UNCHANGED <<config, stream>>
      /\ IF keep = None
         THEN /\ mamba_free' = mamba_free \cup Freed(b, None)
              /\ mamba' = Scrub(mamba, mamba_free')
              /\ UNCHANGED <<ckpt_free, cache, ckpt>>
         ELSE Insert(p, b.buffer[keep], mamba_free \cup Freed(b, keep))
  BY DEF Finish
<1>2. PICK r \in Reqs : r = u.r /\ Running(r) /\ u \in ResultFields
  BY <1>1, BehindHead
<1>3. /\ b \in ReqFields /\ b.req_pool_idx = req[r].req_pool_idx
      /\ b.mamba_pool_idx = req[r].mamba_pool_idx /\ b.buffer = req[r].buffer
      /\ b.tracked # 0 => b.buffer[b.last] # None
  BY <1>1, <1>2, BookedFacts, SMTT(60)
<1>4. b.tracked # 0 =>
         LET x == b.buffer[b.last]
         IN  /\ x \in MambaIds /\ x \in Held(req[r]) /\ x # req[r].mamba_pool_idx
             /\ Holds(mamba, x, p)
             /\ \A i \in 1 .. Len(stream) : x \notin Writes(stream[i])
  BY <1>1, <1>2, <1>3, TrackedSlot
<1> HIDE DEF u, b
<1>5. /\ req'[r] = Idle /\ \A t \in Reqs : t # r => req'[t] = req[t]
      /\ UNCHANGED <<req_generation, mamba_map>>
  BY <1>1, <1>2, <1>3, ReleaseFacts
<1>6. Booker
  BY <1>1, <1>5 DEF Booker
<1>7. /\ Held(b) = Held(req[r]) /\ Held(b) \subseteq MambaIds
      /\ \A k \in Track : b.buffer[k] # None =>
            Freed(b, k) = Held(b) \ {b.buffer[k]} /\ b.buffer[k] \in Held(b)
  BY <1>2, <1>3, FreedFacts
<1>8. /\ Held(b) \cap (mamba_free \cup CachedSlots) = {} /\ mamba_free \cap CachedSlots = {}
      /\ mamba_free \subseteq MambaIds /\ DOMAIN mamba = MambaIds
  BY <1>7 DEF SlotInv, Ledger, Types
<1>9. /\ CachedTrue'
      /\ \A i \in 1 .. Len(stream) : Writes(stream[i]) \cap CachedSlots' = {}
      /\ \A t \in MambaIds : t \notin mamba_free' => mamba'[t] = mamba[t]
      /\ DOMAIN cache \subseteq DOMAIN cache' /\ \A o \in DOMAIN cache : cache'[o] = cache[o]
  <2>1. CASE keep = None
    <3>1. mamba' = Scrub(mamba, mamba_free') /\ UNCHANGED <<config, ckpt_free, cache, ckpt>>
      BY <1>1, <2>1
    <3>2. \A t \in MambaIds : t \notin mamba_free' => mamba'[t] = mamba[t]
      BY <1>8, <3>1, ScrubFacts
    <3>3. CachedTrue'
      <4>1. CachedTrue
        BY DEF ContentInv
      <4>2. \A o \in DOMAIN cache : o \in DOMAIN cache' /\ cache'[o] = cache[o] =>
                \A c \in Components : o = (IF Int8' THEN ckpt' ELSE mamba')[cache'[o]][c]
        BY <3>1, <3>2, <4>1, KeptCached
      <4> QED
        BY <3>1, <4>2 DEF CachedTrue
    <3>4. CachedSlots' = CachedSlots
      BY <3>1 DEF CachedSlots, Int8
    <3> QED
      BY <3>1, <3>2, <3>3, <3>4 DEF ContentInv, Interference
  <2>2. CASE keep # None
    <3> DEFINE x == b.buffer[keep]
               free == mamba_free \cup Freed(b, keep)
    <3>1. keep = b.last /\ b.tracked # 0 /\ b.last \in Track
      BY <1>3, <2>2 DEF KeepIdx, ReqFields
    <3>2. Insert(p, x, free)
      BY <1>1, <2>2
    <3>3. /\ x \in MambaIds /\ Holds(mamba, x, p) /\ x # None
          /\ \A i \in 1 .. Len(stream) : x \notin Writes(stream[i])
      BY <1>3, <1>4, <3>1
    <3>4. Freed(b, keep) = Held(b) \ {x} /\ x \in Held(b)
      BY <1>7, <3>1, <3>3
    <3> HIDE DEF x
    <3>5. /\ free \subseteq MambaIds /\ x \notin free \cup CachedSlots
          /\ free \cap CachedSlots = {}
      BY <1>7, <1>8, <3>4
    <3> HIDE DEF free, p, keep
    <3> QED
      BY <1>1, <3>2, <3>3, <3>5, InsertTrue
  <2> QED
    BY <2>1, <2>2
<1>10. ASSUME NEW t \in Reqs, t # r
       PROVE  Untouched(t)
  <2>1. req'[t] = req[t] /\ ~Booking(Head(results), t)
    BY <1>2, <1>5, <1>10 DEF Booking, u
  <2> QED
    BY <1>1, <1>9, <2>1, OthersUntouched
<1>11. Sound(r)'
  BY <1>5, GoneSound
<1> QED
  BY <1>6, <1>9, <1>10, <1>11, BookerInv

\* A request that has donated its tracked slot goes on with another one.
LEMMA DonatedSound ==
    ASSUME SlotInv, ContentInv, SlotInv', Booker, results # <<>>, results' = Tail(results),
           NEW r \in Reqs, r = Head(results).r, Live(Head(results)), Head(results).extend,
           \A s \in MambaIds : s \notin mamba_free' => mamba'[s] = mamba[s],
           req'[r].req_pool_idx = req[r].req_pool_idx,
           req'[r].mamba_pool_idx = req[r].mamba_pool_idx,
           req'[r].pos = req[r].pos, req'[r].next = req[r].next, req'[r].tracked = 0,
           \A i \in Track : i # req[r].last => req'[r].buffer[i] = req[r].buffer[i],
           req[r].tracked # 0
    PROVE  Sound(r)'
<1> DEFINE u == Head(results)
<1>0. /\ SlotInv /\ ContentInv /\ r \in Reqs /\ req[r].tracked # 0
      /\ \A s \in MambaIds : s \notin mamba_free' => mamba'[s] = mamba[s]
      /\ req'[r].mamba_pool_idx = req[r].mamba_pool_idx
      /\ req'[r].pos = req[r].pos /\ req'[r].next = req[r].next /\ req'[r].tracked = 0
      /\ \A i \in Track : i # req[r].last => req'[r].buffer[i] = req[r].buffer[i]
  OBVIOUS
<1>1. /\ u \in ResultFields /\ Running(r)
      /\ \A i \in 1 .. Len(stream) : LiveIn(i, r) => BufferSize = 2 /\ ~stream[i].extend
      /\ BufferSize = 1 => Len(stream) = 0 /\ Len(results) = 1
  BY ONLY <1>0, results # <<>>, Live(Head(results)), r = Head(results).r, Head(results).extend,
          BehindHead DEF Booking
<1>2. /\ \A i : LiveIn(i, r)' <=> LiveIn(i, r)
      /\ \A i : Booking(stream[i], r)' <=> Booking(stream[i], r)
      /\ \A i : Writes(stream[i])' = Writes(stream[i])
      /\ \A i : stream'[i] = stream[i]
      /\ Len(stream') = Len(stream) /\ config' = config
      /\ Track' = Track /\ BufferSize' = BufferSize
  BY ONLY <1>0, Booker, req'[r].req_pool_idx = req[r].req_pool_idx
     DEF LiveIn, Live, Booking, Booker, Writes, Fresh, Track, BufferSize, Overlap
<1>3. \A k \in 1 .. Len(results') : Booking(results[k], r)' =>
         /\ k + 1 \in 1 .. Len(results) /\ results'[k] = results[k + 1]
         /\ Booking(results[k + 1], r)
  <2>1. \A k \in 1 .. Len(results') : k + 1 \in 1 .. Len(results) /\ results'[k] = results[k + 1]
    BY ONLY <1>0, results # <<>>, results' = Tail(results), ResultsLeft
  <2>2. \A w : Booking(w, r)' <=> Booking(w, r)
    BY ONLY <1>0, Booker, req'[r].req_pool_idx = req[r].req_pool_idx DEF Booking, Live, Booker
  <2>3. ASSUME NEW k \in 1 .. Len(results'), Booking(results[k], r)'
        PROVE  Booking(results[k + 1], r)
    <3>1. results'[k] = results[k + 1]
      BY ONLY <2>1
    <3> QED
      BY ONLY <2>3, <2>2, <3>1 DEF Booking, Live
  <2> QED
    BY ONLY <2>1, <2>3
<1>4. Settled(r) /\ StreamSound /\ Interference
  BY ONLY <1>0, <1>1 DEF ContentInv
<1>5. /\ BufferSize = 2 => req[r].next # req[r].last
      /\ req[r].next \in Track /\ req[r].mamba_pool_idx \in MambaIds
      /\ BufferSize \in {1, 2}
  BY ONLY <1>0, <1>1, SlotFacts
<1>6. BufferSize = 2 => req'[r].buffer[req[r].next] = req[r].buffer[req[r].next]
  BY ONLY <1>0, <1>5, Zenon
<1>7. /\ Held(req[r])' \cap mamba_free' = {}
      /\ req'[r].mamba_pool_idx \in Held(req[r])'
      /\ req'[r].buffer[req[r].next] # None => req'[r].buffer[req[r].next] \in Held(req[r])'
  <2>1. Held(req[r])' \cap mamba_free' = {}
    BY DEF SlotInv, Ledger
  <2>2. req'[r].mamba_pool_idx # None
    BY ONLY <1>0, <1>5, ConstantFacts, Zenon
  <2> QED
    BY <1>2, <1>5, <2>1, <2>2, Zenon DEF Held
<1>8. Settled(r)'
  <2>1. (\A i \in 1 .. Len(stream') : ~LiveIn(i, r)') =>
            Holds(mamba', req'[r].mamba_pool_idx, FirstN(r, req'[r].pos))
    <3>1. mamba'[req[r].mamba_pool_idx] = mamba[req[r].mamba_pool_idx]
      BY ONLY <1>0, <1>5, <1>7
    <3>2. (\A i \in 1 .. Len(stream) : ~LiveIn(i, r)) =>
              Holds(mamba, req[r].mamba_pool_idx, FirstN(r, req[r].pos))
      BY ONLY <1>4 DEF Settled
    <3>3. (\A i \in 1 .. Len(stream') : ~LiveIn(i, r)') =>
              \A i \in 1 .. Len(stream) : ~LiveIn(i, r)
      BY <1>2
    <3>4. Holds(mamba, req[r].mamba_pool_idx, FirstN(r, req[r].pos)) =>
              Holds(mamba', req[r].mamba_pool_idx, FirstN(r, req[r].pos))
      BY ONLY <3>1 DEF Holds
    <3>5. req'[r].mamba_pool_idx = req[r].mamba_pool_idx /\ req'[r].pos = req[r].pos
      OBVIOUS
    <3> QED
      BY ONLY <3>2, <3>3, <3>4, <3>5
  <2>2. /\ Len(results) \in Nat
        /\ Len(results) + Len(stream) = Outstanding /\ Len(stream) \in Nat
        /\ \A k \in 1 .. Len(results) : Flight(k) = results[k]
        /\ \A k \in 1 .. Len(results') : k \in Nat \ {0}
    BY FlightNames, ResultsLeft, SMTT(60)
  <2>3. ASSUME NEW k \in 1 .. Len(results'), Booking(results[k], r)'
        PROVE  Holds(mamba', req'[r].buffer[req'[r].next], FirstN(r, results'[k].to))
    <3> DEFINE y == req[r].buffer[req[r].next]
    <3>1. /\ k + 1 \in 1 .. Len(results) /\ results'[k] = results[k + 1]
          /\ Booking(results[k + 1], r)
      BY ONLY <1>3, <2>3
    <3>2. Holds(mamba, y, FirstN(r, results'[k].to))
      BY ONLY <1>4, <3>1 DEF Settled
    <3>3. BufferSize = 2
      <4>1. Len(results) # 1
        BY ONLY <3>1, <2>2
      <4> QED
        BY ONLY <1>1, <1>5, <4>1
    <3>4. y \in MambaIds
      <4>1. k + 1 \in 1 .. Outstanding /\ Flight(k + 1) = results[k + 1]
        BY ONLY <3>1, <2>2
      <4>2. y # None
        <5>1. FlightTracks
          BY ONLY <1>0 DEF SlotInv
        <5> QED
          BY ONLY <3>1, <4>1, <5>1 DEF FlightTracks, Booking
      <4> QED
        BY ONLY <1>0, <1>5, <4>2, SlotFacts
    <3>5. mamba'[y] = mamba[y]
      <4>1. y # None
        BY ONLY <3>4, ConstantFacts
      <4>2. y \notin mamba_free'
        BY ONLY <1>6, <1>7, <3>3, <4>1, Zenon
      <4> QED
        BY ONLY <1>0, <3>4, <4>2
    <3>6. req'[r].buffer[req'[r].next] = y
      BY <1>6, <3>3
    <3>7. Holds(mamba', y, FirstN(r, results'[k].to))
      BY ONLY <3>2, <3>5 DEF Holds
    <3> QED
      BY ONLY <3>6, <3>7
  <2> QED
    BY <2>1, <2>3 DEF Settled
<1>9. ASSUME NEW i \in 1 .. Len(stream'), LiveIn(i, r)'
      PROVE  LiveSound(stream[i])' /\ Ready(i)'
  <2>1. /\ LiveIn(i, r) /\ stream[i].r = r /\ Live(stream[i]) /\ ~stream[i].extend
        /\ BufferSize = 2
    BY ONLY <1>1, <1>2, <1>9 DEF LiveIn
  <2>2. WorkSound(stream[i]) /\ LiveSound(stream[i]) /\ Ready(i)
    BY <1>2, <1>4, <2>1 DEF StreamSound
  <2>3. ~stream[i].clear /\ stream[i].cow = None
    BY ONLY <2>1, <2>2 DEF WorkSound, Fresh
  <2>4. LiveSound(stream[i])'
    BY ONLY <1>0, <1>2, <1>6, <2>1, <2>2, <2>3, SMTT(60) DEF LiveSound, Tracking
  <2>5. Ready(i)'
    <3>1. mamba'[req[r].mamba_pool_idx] = mamba[req[r].mamba_pool_idx]
      BY ONLY <1>0, <1>5, <1>7
    <3>2. /\ (\A j \in 1 .. (i - 1) : ~LiveIn(j, r)) =>
                Holds(mamba, req[r].mamba_pool_idx, FirstN(r, stream[i].from))
          /\ \A j \in 1 .. (i - 1) : LiveIn(j, r) => stream[j].to = stream[i].from
      BY ONLY <2>1, <2>2, <2>3 DEF Ready, Fresh
    <3>3. Holds(mamba, req[r].mamba_pool_idx, FirstN(r, stream[i].from)) =>
            Holds(mamba', req'[r].mamba_pool_idx, FirstN(r, stream[i].from))
      BY ONLY <1>0, <3>1 DEF Holds
    <3>4. /\ \A j : LiveIn(j, r)' <=> LiveIn(j, r)
          /\ \A j : stream'[j] = stream[j]
      BY ONLY <1>2
    <3> QED
      BY ONLY <2>1, <3>2, <3>3, <3>4 DEF Ready
  <2> QED
    BY ONLY <2>4, <2>5
<1>10. ASSUME NEW i \in 1 .. Len(stream'), ~LiveIn(i, r)'
       PROVE  Spares(i, r)'
  <2>1. Spares(i, r)
    BY ONLY <1>0, <1>1, <1>2, <1>4, <1>10 DEF Interference
  <2>2. BufferSize = 2
    BY ONLY <1>1, <1>2, <1>5, <1>10
  <2>3. req'[r].mamba_pool_idx \in Writes(stream[i])' =>
            \E j \in (i + 1) .. Len(stream') : LiveIn(j, r)' /\ Fresh(stream[j])'
    BY ONLY <1>0, <1>2, <2>1 DEF Spares, Fresh
  <2>4. req'[r].buffer[req'[r].next] \in Writes(stream[i])' =>
            /\ \A k \in 1 .. Len(results') : ~Booking(results[k], r)'
            /\ \A j \in 1 .. (i - 1) : ~Booking(stream[j], r)'
    BY ONLY <1>0, <1>2, <1>3, <1>6, <2>1, <2>2 DEF Spares
  <2> QED
    BY ONLY <1>0, <2>3, <2>4 DEF Spares
<1> QED
  BY ONLY <1>8, <1>9, <1>10 DEF Sound

LEMMA CacheUnfinishedContent ==
    ASSUME SlotInv, ContentInv, SlotInv', CacheUnfinished
    PROVE  ContentInv'
<1> DEFINE u == Head(results)
           q == req[u.r]
           p == FirstN(u.r, q.tracked)
           new == Take(mamba_free, 1)[1]
           x == q.buffer[q.last]
           after == [q EXCEPT !.buffer[q.last] = new, !.tracked = 0,
                              !.lock = IF p \in DOMAIN cache' THEN p ELSE @]
<1>1. /\ results # <<>> /\ results' = Tail(results) /\ Live(u) /\ u.extend
      /\ UNCHANGED <<config, stream>>
      /\ IF q.tracked = 0
         THEN UNCHANGED <<req_generation, mamba_map, mamba_free, ckpt_free, req, cache,
                          mamba, ckpt>>
         ELSE /\ mamba_free # {}
              /\ Insert(p, x, mamba_free \ {new})
              /\ req' = [req EXCEPT ![u.r] = after]
              /\ UNCHANGED <<req_generation, mamba_map>>
  BY DEF CacheUnfinished, KeepIdx, poolVars, stateVars
<1>2. PICK r \in Reqs : r = u.r /\ Running(r) /\ u \in ResultFields
  BY <1>1, BehindHead
<1>3. Booked(u) = q
  BY <1>1, SMTT(60) DEF Booked
<1>4. q.tracked # 0 =>
         /\ x \in MambaIds /\ x \in Held(req[r]) /\ x # req[r].mamba_pool_idx
         /\ Holds(mamba, x, p)
         /\ \A i \in 1 .. Len(stream) : x \notin Writes(stream[i])
  BY <1>1, <1>2, <1>3, TrackedSlot
<1> HIDE DEF u
<1>5. Booker
  BY <1>1 DEF Booker
<1>6. \A t \in Reqs : ~Booking(u, t)
  BY <1>1 DEF Booking
<1>7. CASE q.tracked = 0
  <2>1. UNCHANGED <<config, req, cache, mamba, ckpt>>
    BY <1>1, <1>7
  <2>2. CachedTrue' /\ CachedSlots' = CachedSlots
    BY <2>1 DEF ContentInv, CachedTrue, CachedSlots, Int8
  <2>3. \A i \in 1 .. Len(stream) : Writes(stream[i]) \cap CachedSlots' = {}
    BY <2>2 DEF ContentInv, Interference
  <2>4. ASSUME NEW t \in Reqs
        PROVE  Untouched(t)
    <3>1. ~Booking(Head(results), t)
      BY <1>6 DEF u
    <3> QED
      BY <1>1, <2>1, <3>1, OthersUntouched
  <2> QED
    BY <1>5, <2>2, <2>3, <2>4, BookerInv
<1>8. CASE q.tracked # 0
  <2>1. q = req[r] /\ q \in ReqFields /\ Types /\ Ledger
    BY <1>2 DEF SlotInv, Types
  <2>2. /\ Held(q) \cap (mamba_free \cup CachedSlots) = {} /\ mamba_free \cap CachedSlots = {}
        /\ mamba_free \subseteq MambaIds
    BY <2>1 DEF Ledger, Types
  <2> HIDE DEF q, p, x, new
  <2>3. /\ after.req_pool_idx = q.req_pool_idx /\ after.mamba_pool_idx = q.mamba_pool_idx
        /\ after.next = q.next /\ after.pos = q.pos /\ after.tracked = 0
        /\ \A i \in Track : i # q.last => after.buffer[i] = q.buffer[i]
    BY <2>1 DEF ReqFields
  <2>4. req'[r] = after /\ \A t \in Reqs : t # r => req'[t] = req[t]
    BY <1>1, <1>2, <1>8, <2>1 DEF Types
  <2> HIDE DEF after
  <2>5. /\ CachedTrue'
        /\ \A i \in 1 .. Len(stream) : Writes(stream[i]) \cap CachedSlots' = {}
        /\ \A t \in MambaIds : t \notin mamba_free' => mamba'[t] = mamba[t]
        /\ DOMAIN cache \subseteq DOMAIN cache' /\ \A o \in DOMAIN cache : cache'[o] = cache[o]
    <3> DEFINE free == mamba_free \ {new}
    <3>1. /\ Insert(p, x, free) /\ free \subseteq MambaIds
          /\ x \notin free \cup CachedSlots /\ free \cap CachedSlots = {}
      BY <1>1, <1>4, <1>8, <2>1, <2>2
    <3> HIDE DEF free
    <3> QED
      BY <1>1, <1>4, <1>8, <3>1, InsertTrue
  <2>6. Sound(r)'
    <3>1. /\ results # <<>> /\ results' = Tail(results) /\ r = Head(results).r
          /\ Live(Head(results)) /\ Head(results).extend
      BY <1>1, <1>2 DEF u
    <3>2. /\ req'[r].req_pool_idx = req[r].req_pool_idx
          /\ req'[r].mamba_pool_idx = req[r].mamba_pool_idx
          /\ req'[r].pos = req[r].pos /\ req'[r].next = req[r].next /\ req'[r].tracked = 0
          /\ \A i \in Track : i # req[r].last => req'[r].buffer[i] = req[r].buffer[i]
          /\ req[r].tracked # 0
      BY <1>8, <2>1, <2>3, <2>4
    <3> QED
      BY <1>5, <2>5, <3>1, <3>2, DonatedSound
  <2>7. ASSUME NEW t \in Reqs, t # r
        PROVE  Untouched(t)
    <3>1. ~Booking(Head(results), t) /\ req'[t] = req[t]
      BY <1>6, <2>4, <2>7 DEF u
    <3> QED
      BY <1>1, <2>5, <3>1, OthersUntouched
  <2> QED
    BY <1>5, <2>5, <2>6, <2>7, BookerInv
<1> QED
  BY <1>7, <1>8

-----------------------------------------------------------------------------
(* Executing a forward. *)

\* The head of the stream moves to the end of the results.
LEMMA ExecuteMoves ==
    ASSUME SlotInv, Execute
    PROVE  LET w == Head(stream)
           IN  /\ w = stream[1] /\ 1 \in 1 .. Len(stream) /\ w \in WorkFields
               /\ Len(stream') = Len(stream) - 1 /\ Len(results') = Len(results) + 1
               /\ \A i \in 1 .. Len(stream') : i + 1 \in 1 .. Len(stream) /\ stream'[i] = stream[i + 1]
               /\ \A k \in 1 .. Len(results) : results'[k] = results[k]
               /\ results'[Len(results) + 1] = ResultOf(w)
               /\ UNCHANGED <<config, free_slots, req_generation, mamba_map, track_map,
                              mamba_free, ckpt_free, req, cache, ckpt>>
<1>1. /\ stream # <<>> /\ stream' = Tail(stream) /\ results' = Append(results, ResultOf(Head(stream)))
      /\ UNCHANGED <<config, free_slots, req_generation, mamba_map, track_map,
                     mamba_free, ckpt_free, req, cache, ckpt>>
  BY DEF Execute, poolVars
<1>2. /\ stream \in Seq(WorkFields) /\ results \in Seq(ResultFields) /\ Len(stream) \in Nat
      /\ Len(results) \in Nat
  BY FlightNames DEF SlotInv, Types
<1>3. /\ Head(stream) = stream[1] /\ Len(stream) > 0 /\ Head(stream) \in WorkFields
      /\ Len(stream') = Len(stream) - 1
      /\ \A i \in 1 .. Len(stream') : stream'[i] = stream[i + 1]
  BY <1>1, <1>2, HeadTailProperties, EmptySeq
<1>4. ResultOf(Head(stream)) \in ResultFields
  BY <1>3, ResultOfFacts
<1>5. /\ Len(results') = Len(results) + 1
      /\ \A k \in 1 .. Len(results) : results'[k] = results[k]
      /\ results'[Len(results) + 1] = ResultOf(Head(stream))
  BY <1>1, <1>2, <1>4, AppendProperties
<1> QED
  BY <1>1, <1>2, <1>3, <1>5, SMTT(60)

\* A forward changes nothing but the slots it writes.
LEMMA ExecuteElsewhere ==
    ASSUME SlotInv, Execute, WorkSound(Head(stream)),
           NEW s \in MambaIds, s \notin mamba_free, s \notin Writes(Head(stream))
    PROVE  mamba'[s] = mamba[s]
<1> DEFINE w == Head(stream)
<1>1. DOMAIN mamba = MambaIds
  BY DEF SlotInv, Types
<1>2. mamba'[s] = IF s = w.track /\ w.track # Pad THEN StateAfter(w, w.off)
                  ELSE IF s = mamba_map[w.idx] THEN StateAfter(w, w.to - w.from)
                  ELSE DeferredCowAndClear(w)[s]
  BY <1>1, ExecuteEffect
<1>3. ~(s = w.track /\ w.track # Pad) /\ s # mamba_map[w.idx] /\ (Fresh(w) => s # w.dst)
  BY DEF Writes
<1>4. DeferredCowAndClear(w)[s] = mamba[s]
  <2>1. CASE Fresh(w)
    BY <1>1, <1>3, <2>1, DeferredFacts
  <2>2. CASE ~Fresh(w)
    BY <2>2 DEF DeferredCowAndClear, Fresh
  <2> QED
    BY <2>1, <2>2
<1> QED
  BY <1>2, <1>3, <1>4

\* A live forward finds the tokens before its own in its slot, whether they were
\* there, are cleared away or are copied from a checkpoint.
LEMMA StartsTrue ==
    ASSUME SlotInv, ContentInv, Execute, Live(Head(stream))
    PROVE  LET w == Head(stream)
           IN  \A c \in Components :
                  DeferredCowAndClear(w)[mamba_map[w.idx]][c] = FirstN(w.r, w.from)
<1> DEFINE w == Head(stream)
           q == req[w.r]
           s == mamba_map[w.idx]
<1>1. w = stream[1] /\ 1 \in 1 .. Len(stream)
  BY ExecuteMoves
<1>2. /\ StreamSound /\ WorkSound(w) /\ LiveSound(w) /\ Ready(1) /\ CachedTrue
  BY <1>1 DEF ContentInv, StreamSound
<1>3. /\ w.r \in Reqs /\ Running(w.r) /\ w.dst = q.mamba_pool_idx /\ s = q.mamba_pool_idx
      /\ DOMAIN mamba = MambaIds /\ DOMAIN ckpt = CkptIds /\ q.mamba_pool_idx \in MambaIds
  BY <1>1, <1>2, LiveWrites, SlotFacts DEF SlotInv, Types
<1> HIDE DEF w, s
<1> SUFFICES ASSUME NEW c \in Components
             PROVE  DeferredCowAndClear(w)[s][c] = FirstN(w.r, w.from)
  BY DEF w, s
<1>4. CASE w.clear
  <2>1. w.cow = None /\ w.from = 0
    BY <1>2, <1>4 DEF WorkSound, LiveSound
  <2>2. DeferredCowAndClear(w) = [mamba EXCEPT ![w.dst] = [d \in Components |-> <<>>]]
    BY <1>4, <2>1 DEF DeferredCowAndClear, ClearSlots
  <2> QED
    BY <1>3, <2>1, <2>2, TextFacts
<1>5. CASE ~w.clear /\ w.cow # None
  <2>1. /\ q.lock \in DOMAIN cache /\ cache[q.lock] = w.cow /\ q.lock = FirstN(w.r, w.from)
    BY <1>2, <1>5 DEF LiveSound
  <2>2. (IF Int8 THEN ckpt ELSE mamba)[w.cow][c] = FirstN(w.r, w.from)
    BY <1>2, <2>1 DEF CachedTrue
  <2>3. DeferredCowAndClear(w) = IF Int8 THEN [mamba EXCEPT ![w.dst] = ckpt[w.cow]]
                                         ELSE [mamba EXCEPT ![w.dst] = mamba[w.cow]]
    BY <1>5 DEF DeferredCowAndClear, LoadToActive, CopyFrom
  <2> QED
    BY <1>3, <2>2, <2>3
<1>6. CASE ~w.clear /\ w.cow = None
  <2>1. DeferredCowAndClear(w) = mamba /\ ~Fresh(w)
    BY <1>6 DEF DeferredCowAndClear, Fresh
  <2>2. Holds(mamba, q.mamba_pool_idx, FirstN(w.r, w.from))
    <3>1. \A j \in 1 .. (1 - 1) : ~LiveIn(j, w.r)
      OBVIOUS
    <3> QED
      BY <1>1, <1>2, <2>1, <3>1 DEF Ready
  <2> QED
    BY <1>3, <2>1, <2>2 DEF Holds
<1> QED
  BY <1>4, <1>5, <1>6

\* ... so it leaves the longer prefix there, and the prefix up to the track point
\* in its track slot.
LEMMA ExecutedTrue ==
    ASSUME SlotInv, ContentInv, Execute, Live(Head(stream))
    PROVE  LET w == Head(stream)
               q == req[w.r]
           IN  /\ Holds(mamba', q.mamba_pool_idx, FirstN(w.r, w.to))
               /\ w.off > 0 => Holds(mamba', w.track, FirstN(w.r, w.from + w.off))
<1> DEFINE w == Head(stream)
           q == req[w.r]
<1>1. w = stream[1] /\ 1 \in 1 .. Len(stream) /\ w \in WorkFields
  BY ExecuteMoves
<1>2. StreamSound /\ WorkSound(w) /\ LiveSound(w)
  BY <1>1, SMTT(60) DEF ContentInv, StreamSound
<1>3. /\ w.r \in Reqs /\ Running(w.r) /\ mamba_map[w.idx] = q.mamba_pool_idx
      /\ w.off > 0 => w.track \in MambaIds
      /\ w.off > 0 /\ w.extend => w.track = q.buffer[q.last]
      /\ w.off > 0 /\ ~w.extend => w.track = q.buffer[q.next]
      /\ w.off \in Nat /\ w.from \in Nat /\ w.to \in Nat
      /\ DOMAIN mamba = MambaIds /\ Len(Text[w.r]) \in Nat /\ q.next \in Track /\ q.last \in Track
      /\ q.mamba_pool_idx \in MambaIds
  BY ONLY SlotInv, Live(w), <1>1, <1>2, LiveWrites, SlotFacts, SMTT(60) DEF SlotInv, Types
<1>4. \A c \in Components : DeferredCowAndClear(w)[mamba_map[w.idx]][c] = FirstN(w.r, w.from)
  BY StartsTrue
<1>5. \A s \in MambaIds : s \notin mamba_free =>
         mamba'[s] = IF s = w.track /\ w.track # Pad THEN StateAfter(w, w.off)
                     ELSE IF s = mamba_map[w.idx] THEN StateAfter(w, w.to - w.from)
                     ELSE DeferredCowAndClear(w)[s]
  BY <1>3, ExecuteEffect
<1> HIDE DEF w
<1>6. ASSUME NEW n \in Nat, w.from + n <= Len(Text[w.r]), NEW c \in Components
      PROVE  StateAfter(w, n)[c] = FirstN(w.r, w.from + n)
  <2>1. Fold(FirstN(w.r, w.from), SubSeq(Text[w.r], w.from + 1, w.from + n))
            = FirstN(w.r, w.from + n)
    BY <1>3, <1>6, FoldFacts
  <2> QED
    BY <1>4, <2>1 DEF StateAfter
<1>7. /\ w.from < w.to /\ w.to <= Len(Text[w.r]) /\ w.off <= w.to - w.from
      /\ w.off > 0 <=> w.track # Pad
  BY <1>2 DEF WorkSound
<1>8. q.mamba_pool_idx \in Held(req[w.r]) /\ Held(req[w.r]) \cap mamba_free = {}
  BY <1>3, OwnSlots
<1>9. w.off > 0 => w.track \in Held(req[w.r]) /\ w.track # q.mamba_pool_idx
  BY <1>3, ConstantFacts, OwnSlots
<1>10. ASSUME NEW c \in Components
       PROVE  mamba'[q.mamba_pool_idx][c] = FirstN(w.r, w.to)
  <2>1. w.to - w.from \in Nat /\ w.from + (w.to - w.from) = w.to
    BY <1>3, <1>7
  <2>2. StateAfter(w, w.to - w.from)[c] = FirstN(w.r, w.to)
    BY <1>6, <1>7, <2>1
  <2>3. mamba'[q.mamba_pool_idx] = StateAfter(w, w.to - w.from)
    BY <1>3, <1>5, <1>7, <1>8, <1>9
  <2> QED
    BY <2>2, <2>3
<1>11. ASSUME w.off > 0, NEW c \in Components
       PROVE  mamba'[w.track][c] = FirstN(w.r, w.from + w.off)
  <2>1. StateAfter(w, w.off)[c] = FirstN(w.r, w.from + w.off)
    BY <1>3, <1>6, <1>7
  <2>2. mamba'[w.track] = StateAfter(w, w.off)
    BY <1>3, <1>5, <1>7, <1>8, <1>9, <1>11
  <2> QED
    BY <2>1, <2>2
<1> QED
  BY <1>10, <1>11 DEF Holds, w

\* Forwards and results are the same ones after the step, counted anew.
LEMMA ExecuteShift ==
    ASSUME SlotInv, Execute, NEW t \in Reqs
    PROVE  /\ \A i \in 1 .. Len(stream') :
                 /\ i + 1 \in 1 .. Len(stream)
                 /\ stream'[i] = stream[i + 1]
                 /\ LiveIn(i, t)' <=> LiveIn(i + 1, t)
                 /\ Booking(stream[i], t)' <=> Booking(stream[i + 1], t)
                 /\ Writes(stream[i])' = Writes(stream[i + 1])
           /\ \A i \in 1 .. Len(stream) : i # 1 => i - 1 \in 1 .. Len(stream')
           /\ \A k \in 1 .. Len(results') :
                 \/ /\ k \in 1 .. Len(results) /\ results'[k] = results[k]
                    /\ Booking(results[k], t)' <=> Booking(results[k], t)
                 \/ /\ results'[k].to = stream[1].to
                    /\ Booking(results[k], t)' <=> Booking(stream[1], t)
           /\ \A k \in 1 .. Len(results) :
                 k \in 1 .. Len(results') /\ (Booking(results[k], t)' <=> Booking(results[k], t))
           /\ Booking(stream[1], t) =>
                 \E k \in 1 .. Len(results') : Booking(results[k], t)'
           /\ Len(stream) \in {1, 2} /\ Len(stream') = Len(stream) - 1
<1> DEFINE w == Head(stream)
<1>1. /\ w = stream[1] /\ 1 \in 1 .. Len(stream) /\ w \in WorkFields
      /\ Len(stream') = Len(stream) - 1 /\ Len(results') = Len(results) + 1
      /\ \A i \in 1 .. Len(stream') : i + 1 \in 1 .. Len(stream) /\ stream'[i] = stream[i + 1]
      /\ \A k \in 1 .. Len(results) : results'[k] = results[k]
      /\ results'[Len(results) + 1] = ResultOf(w)
      /\ UNCHANGED <<config, req_generation, mamba_map, req, cache, ckpt>>
  BY ExecuteMoves
<1>2. /\ ResultOf(w).r = w.r /\ ResultOf(w).idx = w.idx /\ ResultOf(w).gen = w.gen
      /\ ResultOf(w).to = w.to /\ ResultOf(w).off = w.off
      /\ ResultOf(w).extend = w.extend
  BY <1>1, ResultOfFacts
<1>3. Len(stream) \in Nat /\ Len(results) \in Nat /\ Len(stream) <= 2
  BY FlightNames, SlotFacts
<1> HIDE DEF w
<1>4. ASSUME NEW i \in 1 .. Len(stream')
      PROVE  /\ i + 1 \in 1 .. Len(stream)
             /\ stream'[i] = stream[i + 1]
             /\ LiveIn(i, t)' <=> LiveIn(i + 1, t)
             /\ Booking(stream[i], t)' <=> Booking(stream[i + 1], t)
             /\ Writes(stream[i])' = Writes(stream[i + 1])
  BY <1>1 DEF LiveIn, Live, Booking, Writes, Fresh
<1>5. \A k \in 1 .. Len(results) :
         k \in 1 .. Len(results') /\ (Booking(results[k], t)' <=> Booking(results[k], t))
  BY <1>1, <1>3 DEF Booking, Live
<1>6. ASSUME NEW k, k = Len(results) + 1
      PROVE  Booking(results[k], t)' <=> Booking(stream[1], t)
  BY <1>1, <1>2, <1>6 DEF Booking, Live
<1>7. ASSUME NEW k \in 1 .. Len(results')
      PROVE  \/ /\ k \in 1 .. Len(results) /\ results'[k] = results[k]
                /\ Booking(results[k], t)' <=> Booking(results[k], t)
             \/ /\ results'[k].to = stream[1].to
                /\ Booking(results[k], t)' <=> Booking(stream[1], t)
  <2>1. k \in 1 .. Len(results) \/ k = Len(results) + 1
    BY <1>1, <1>3
  <2>2. CASE k \in 1 .. Len(results)
    BY <1>1, <1>5, <2>2
  <2>3. CASE k = Len(results) + 1
    BY <1>1, <1>2, <1>6, <2>3
  <2> QED
    BY <2>1, <2>2, <2>3
<1>8. Booking(stream[1], t) => \E k \in 1 .. Len(results') : Booking(results[k], t)'
  <2>1. PICK k : k = Len(results) + 1
    OBVIOUS
  <2>2. k \in 1 .. Len(results')
    BY <1>1, <1>3, <2>1
  <2> QED
    BY <1>6, <2>1, <2>2
<1> QED
  BY <1>1, <1>3, <1>4, <1>5, <1>7, <1>8

\* A forward of another life leaves a running request sound.
LEMMA ExecuteOther ==
    ASSUME SlotInv, ContentInv, Execute, NEW t \in Reqs, Running(t), ~LiveIn(1, t)
    PROVE  Sound(t)'
<1> DEFINE w == Head(stream)
<1>1. /\ w = stream[1] /\ 1 \in 1 .. Len(stream)
      /\ UNCHANGED <<config, req_generation, mamba_map, mamba_free, req, cache, ckpt>>
  BY ExecuteMoves
<1>2. /\ StreamSound /\ Settled(t) /\ Interference /\ WorkSound(w) /\ Spares(1, t)
      /\ Sound(t)
  BY <1>1, ContentParts DEF ContentInv, StreamSound, Interference
<1>3. /\ \A i \in 1 .. Len(stream') :
            /\ i + 1 \in 1 .. Len(stream)
            /\ stream'[i] = stream[i + 1]
            /\ LiveIn(i, t)' <=> LiveIn(i + 1, t)
            /\ Booking(stream[i], t)' <=> Booking(stream[i + 1], t)
            /\ Writes(stream[i])' = Writes(stream[i + 1])
      /\ \A i \in 1 .. Len(stream) : i # 1 => i - 1 \in 1 .. Len(stream')
      /\ \A k \in 1 .. Len(results') :
            \/ /\ k \in 1 .. Len(results) /\ results'[k] = results[k]
               /\ Booking(results[k], t)' <=> Booking(results[k], t)
            \/ /\ results'[k].to = stream[1].to
               /\ Booking(results[k], t)' <=> Booking(stream[1], t)
      /\ \A k \in 1 .. Len(results) :
            k \in 1 .. Len(results') /\ (Booking(results[k], t)' <=> Booking(results[k], t))
      /\ Len(stream) \in {1, 2} /\ Len(stream') = Len(stream) - 1
  BY ExecuteShift
<1> HIDE DEF w
<1>4. ~Booking(stream[1], t)
  BY DEF Booking, LiveIn
<1>5. Track' = Track /\ BufferSize' = BufferSize
  BY <1>1 DEF Track, BufferSize, Overlap
<1>6. \A s \in Held(req[t]) : s \notin Writes(stream[1]) => mamba'[s] = mamba[s]
  <2>1. Held(req[t]) \cap mamba_free = {} /\ Held(req[t]) \subseteq MambaIds
    BY OwnSlots
  <2> QED
    BY <1>1, <1>2, <2>1, ExecuteElsewhere DEF w
<1>7. /\ req[t].mamba_pool_idx \in Held(req[t]) /\ req[t].next \in Track /\ req[t].last \in Track
      /\ \A i \in Track : req[t].buffer[i] # None => req[t].buffer[i] \in Held(req[t])
      /\ req[t].tracked # 0 => req[t].buffer[req[t].last] # None
      /\ \A k \in 1 .. Len(results) : Booking(results[k], t) => req[t].buffer[req[t].next] # None
  <2>1. ASSUME NEW k \in 1 .. Len(results), Booking(results[k], t)
        PROVE  req[t].buffer[req[t].next] # None
    <3>1. k \in 1 .. Outstanding /\ Flight(k) = results[k]
      BY FlightNames
    <3> QED
      BY <2>1, <3>1 DEF SlotInv, FlightTracks, Booking
  <2> QED
    BY <2>1, OwnSlots, SlotFacts, ConstantFacts
<1>8. \A i \in 1 .. Len(stream) : i # 1 => i = 2 /\ i - 1 = 1
  BY <1>3, SMTT(60)
<1>9. (\A i \in 1 .. Len(stream') : ~LiveIn(i, t)') => \A i \in 1 .. Len(stream) : ~LiveIn(i, t)
  <2> SUFFICES ASSUME \A i \in 1 .. Len(stream') : ~LiveIn(i, t)', NEW i \in 1 .. Len(stream)
               PROVE  ~LiveIn(i, t)
    OBVIOUS
  <2>1. CASE i = 1
    BY <2>1
  <2>2. CASE i # 1
    BY <1>3, <1>8, <2>2
  <2> QED
    BY <2>1, <2>2
<1>10. /\ \A j \in (1 + 1) .. Len(stream) : j = 2
       /\ \A j \in (2 + 1) .. Len(stream) : FALSE
  <2>1. Len(stream) \in Nat /\ Len(stream) <= 2
    BY FlightNames, SlotFacts
  <2> QED
    BY <2>1
<1>11. Settled(t)'
  <2>1. (\A i \in 1 .. Len(stream') : ~LiveIn(i, t)') =>
            Holds(mamba', req'[t].mamba_pool_idx, FirstN(t, req'[t].pos))
    <3> SUFFICES ASSUME \A i \in 1 .. Len(stream') : ~LiveIn(i, t)'
                 PROVE  Holds(mamba', req'[t].mamba_pool_idx, FirstN(t, req'[t].pos))
      OBVIOUS
    <3>1. \A i \in 1 .. Len(stream) : ~LiveIn(i, t)
      BY <1>9
    <3>2. req[t].mamba_pool_idx \notin Writes(stream[1])
      <4>1. \A j \in (1 + 1) .. Len(stream) : j \in 1 .. Len(stream)
        BY <1>3
      <4> QED
        BY <1>2, <3>1, <4>1 DEF Spares
    <3> QED
      BY <1>1, <1>2, <1>6, <1>7, <3>1, <3>2 DEF Settled, Holds
  <2>2. ASSUME req'[t].tracked # 0,
               \A i \in 1 .. Len(stream') : ~(LiveIn(i, t)' /\ Tracking(stream'[i])),
               BufferSize' = 1 => /\ \A i \in 1 .. Len(stream') : ~Booking(stream[i], t)'
                                  /\ \A k \in 1 .. Len(results') : ~Booking(results[k], t)'
        PROVE  Holds(mamba', req'[t].buffer[req'[t].last], FirstN(t, req'[t].tracked))
    <3>1. \A i \in 1 .. Len(stream) : ~(LiveIn(i, t) /\ Tracking(stream[i]))
      <4> SUFFICES ASSUME NEW i \in 1 .. Len(stream), i # 1
                   PROVE  ~(LiveIn(i, t) /\ Tracking(stream[i]))
        OBVIOUS
      <4> QED
        BY <1>3, <1>8, <2>2
    <3>2. BufferSize = 1 => /\ \A i \in 1 .. Len(stream) : ~Booking(stream[i], t)
                            /\ \A k \in 1 .. Len(results) : ~Booking(results[k], t)
      <4> SUFFICES ASSUME BufferSize = 1
                   PROVE  /\ \A i \in 1 .. Len(stream) : ~Booking(stream[i], t)
                          /\ \A k \in 1 .. Len(results) : ~Booking(results[k], t)
        OBVIOUS
      <4>1. \A i \in 1 .. Len(stream) : ~Booking(stream[i], t)
        <5> SUFFICES ASSUME NEW i \in 1 .. Len(stream), i # 1
                     PROVE  ~Booking(stream[i], t)
          BY <1>4
        <5> QED
          BY <1>3, <1>5, <1>8, <2>2
      <4>2. \A k \in 1 .. Len(results) : ~Booking(results[k], t)
        BY <1>3, <1>5, <2>2
      <4> QED
        BY <4>1, <4>2
    <3>3. Holds(mamba, req[t].buffer[req[t].last], FirstN(t, req[t].tracked))
      BY <1>1, <1>2, <2>2, <3>1, <3>2 DEF Settled
    <3>4. req[t].buffer[req[t].last] \notin Writes(stream[1])
      <4>1. \A j \in (1 + 1) .. Len(stream) : j \in 1 .. Len(stream)
        BY <1>3
      <4> QED
        BY <1>1, <1>2, <2>2, <3>1, <4>1 DEF Spares
    <3> QED
      BY <1>1, <1>6, <1>7, <2>2, <3>3, <3>4 DEF Holds
  <2>3. ASSUME NEW k \in 1 .. Len(results'), Booking(results[k], t)'
        PROVE  Holds(mamba', req'[t].buffer[req'[t].next], FirstN(t, results'[k].to))
    <3>1. k \in 1 .. Len(results) /\ results'[k] = results[k] /\ Booking(results[k], t)
      BY <1>3, <1>4, <2>3
    <3>2. Holds(mamba, req[t].buffer[req[t].next], FirstN(t, results[k].to))
      BY <1>2, <3>1 DEF Settled
    <3>3. req[t].buffer[req[t].next] \notin Writes(stream[1])
      BY <1>2, <3>1 DEF Spares
    <3> QED
      BY <1>1, <1>6, <1>7, <3>1, <3>2, <3>3 DEF Holds
  <2> QED
    BY <2>1, <2>2, <2>3 DEF Settled
<1>12. ASSUME NEW i \in 1 .. Len(stream'), LiveIn(i, t)'
       PROVE  LiveSound(stream[i])' /\ Ready(i)'
  <2>1. i = 1 /\ LiveIn(2, t) /\ stream'[i] = stream[2] /\ 2 \in 1 .. Len(stream)
        /\ stream[2].r = t
    BY <1>3, <1>12 DEF LiveIn
  <2>2. LiveSound(stream[2]) /\ Ready(2)
    BY <1>2, <2>1 DEF StreamSound, LiveIn
  <2>3. LiveSound(stream[i])'
    BY <1>1, <2>1, <2>2 DEF LiveSound, Tracking
  <2>4. ASSUME ~Fresh(stream[2])
        PROVE  Holds(mamba', req[t].mamba_pool_idx, FirstN(t, stream[2].from))
    <3>1. \A j \in 1 .. (2 - 1) : ~LiveIn(j, t)
      OBVIOUS
    <3>2. Holds(mamba, req[t].mamba_pool_idx, FirstN(t, stream[2].from))
      BY <2>1, <2>2, <2>4, <3>1 DEF Ready
    <3>3. req[t].mamba_pool_idx \notin Writes(stream[1])
      BY <1>2, <1>10, <2>4 DEF Spares
    <3> QED
      BY <1>6, <1>7, <3>2, <3>3 DEF Holds
  <2>5. Ready(i)'
    <3>1. \A j : ~(j \in 1 .. (i - 1))
      BY <2>1
    <3> QED
      BY <1>1, <2>1, <2>4, <3>1 DEF Ready, Fresh
  <2> QED
    BY <2>3, <2>5
<1>13. ASSUME NEW i \in 1 .. Len(stream'), ~LiveIn(i, t)'
       PROVE  Spares(i, t)'
  <2>1. i = 1 /\ ~LiveIn(2, t) /\ stream'[i] = stream[2] /\ 2 \in 1 .. Len(stream)
        /\ Writes(stream[i])' = Writes(stream[2])
    BY <1>3, <1>13
  <2>2. Spares(2, t)
    BY <1>2, <2>1 DEF Interference
  <2>4. \A j : ~(j \in 1 .. (i - 1))
    BY <2>1
  <2>5. req[t].mamba_pool_idx \notin Writes(stream[2])
    BY <1>10, <2>2 DEF Spares
  <2>6. ~(req[t].tracked # 0 /\ req[t].buffer[req[t].last] \in Writes(stream[2]))
    BY <1>10, <2>2 DEF Spares
  <2>7. req[t].buffer[req[t].next] \in Writes(stream[2]) =>
            \A k \in 1 .. Len(results') : ~Booking(results[k], t)'
    BY <1>3, <1>4, <2>2 DEF Spares
  <2> QED
    BY <1>1, <2>1, <2>4, <2>5, <2>6, <2>7 DEF Spares
<1> QED
  BY <1>11, <1>12, <1>13 DEF Sound

\* What else is in flight when the head of the stream is a live forward.
LEMMA AroundHead ==
    ASSUME SlotInv, StreamSound, NEW t \in Reqs, Running(t), 1 \in 1 .. Len(stream), LiveIn(1, t)
    PROVE  /\ \A k \in 1 .. Len(results) : Booking(results[k], t) =>
                 ~stream[1].extend /\ ~(stream[1].off > 0)
           /\ (\A i \in 1 .. Len(stream) : i # 1 => ~LiveIn(i, t)) => stream[1].to = req[t].pos
           /\ \A i \in 1 .. Len(stream) : i # 1 /\ LiveIn(i, t) => i = 2 /\ ~stream[i].extend
<1>1. /\ Len(stream) \in Nat /\ Len(results) \in Nat
      /\ Outstanding = Len(stream) + Len(results) /\ Outstanding <= BufferSize
      /\ \A i \in 1 .. Len(stream) : Flight(Len(results) + i) = stream[i]
      /\ \A k \in 1 .. Len(results) : Flight(k) = results[k]
      /\ BufferSize \in {1, 2}
  BY FlightNames, SlotFacts
<1>2. Live(stream[1]) /\ stream[1].r = t
  BY DEF LiveIn
<1>3. ASSUME NEW k \in 1 .. Len(results), Booking(results[k], t)
      PROVE  ~stream[1].extend /\ ~(stream[1].off > 0)
  <2> DEFINE j == Len(results) + 1
  <2>1. k \in 1 .. Outstanding /\ j \in 1 .. Outstanding /\ k < j
        /\ Flight(k) = results[k] /\ Flight(j) = stream[1]
    BY <1>1
  <2> HIDE DEF j
  <2>2. Live(Flight(k)) /\ Live(Flight(j)) /\ Flight(k).r = Flight(j).r
        /\ ~Flight(k).extend /\ Flight(k).off > 0
    BY <1>2, <1>3, <2>1 DEF Booking
  <2>3. ~Flight(j).extend /\ ~(~Flight(k).extend /\ Flight(k).off > 0 /\ Flight(j).off > 0)
    BY <2>1, <2>2, TwoFlights
  <2> QED
    BY <2>1, <2>2, <2>3
<1>4. ASSUME NEW i \in 1 .. Len(stream), i # 1, LiveIn(i, t)
      PROVE  i = 2 /\ ~stream[i].extend
  <2> DEFINE k == Len(results) + 1
             j == Len(results) + i
  <2>1. k \in 1 .. Outstanding /\ j \in 1 .. Outstanding /\ k < j
        /\ Flight(k) = stream[1] /\ Flight(j) = stream[i]
    BY <1>1, <1>4
  <2>2. k = 1 /\ j = 2 => i = 2
    BY <1>1
  <2> HIDE DEF j, k
  <2>3. Live(Flight(k)) /\ Live(Flight(j)) /\ Flight(k).r = Flight(j).r
    BY <1>2, <1>4, <2>1 DEF LiveIn
  <2>4. k = 1 /\ j = 2 /\ ~Flight(j).extend
    BY <2>1, <2>3, TwoFlights
  <2> QED
    BY <2>1, <2>2, <2>4
<1>5. ASSUME \A i \in 1 .. Len(stream) : i # 1 => ~LiveIn(i, t)
      PROVE  stream[1].to = req[t].pos
  <2>1. CASE Len(stream) = 1
    <3>1. Flight(Outstanding) = stream[1] /\ Outstanding > 0
      BY <1>1, <2>1
    <3> QED
      BY <1>2, <3>1 DEF SlotInv, FlightOrder
  <2>2. CASE Len(stream) # 1
    <3>1. /\ Outstanding = 2 /\ Flight(1) = stream[1] /\ Flight(2) = stream[2]
          /\ 2 \in 1 .. Len(stream)
      <4>1. Len(stream) = 2 /\ Len(results) = 0
        <5> DEFINE m == Len(stream)
                   n == Len(results)
        <5>1. m \in Nat /\ n \in Nat /\ m + n <= 2 /\ m >= 1 /\ m # 1
          BY <1>1, <2>2
        <5> HIDE DEF m, n
        <5>2. m = 2 /\ n = 0
          BY <5>1
        <5> QED
          BY <5>2 DEF m, n
      <4> QED
        BY <1>1, <4>1
    <3>2. ~(Live(Flight(2)) /\ Flight(2).r = Flight(1).r)
      BY <1>2, <1>5, <3>1 DEF LiveIn
    <3> QED
      BY <1>2, <3>1, <3>2 DEF SlotInv, FlightOrder
  <2> QED
    BY <2>1, <2>2
<1> QED
  BY <1>3, <1>4, <1>5

\* A forward of a running request keeps it sound.
LEMMA ExecuteOwn ==
    ASSUME SlotInv, ContentInv, Execute, NEW t \in Reqs, Running(t), LiveIn(1, t)
    PROVE  Sound(t)'
<1> DEFINE w == stream[1]
           q == req[t]
<1>1. /\ Head(stream) = w /\ 1 \in 1 .. Len(stream)
      /\ UNCHANGED <<config, req_generation, mamba_map, mamba_free, req, cache, ckpt>>
  BY ExecuteMoves
<1>2. /\ StreamSound /\ Settled(t) /\ Interference /\ WorkSound(w) /\ LiveSound(w)
      /\ Live(w) /\ w.r = t
  BY <1>1 DEF ContentInv, StreamSound, Interference, LiveIn
<1>3. /\ \A i \in 1 .. Len(stream') :
            /\ i + 1 \in 1 .. Len(stream)
            /\ stream'[i] = stream[i + 1]
            /\ LiveIn(i, t)' <=> LiveIn(i + 1, t)
            /\ Booking(stream[i], t)' <=> Booking(stream[i + 1], t)
            /\ Writes(stream[i])' = Writes(stream[i + 1])
      /\ \A i \in 1 .. Len(stream) : i # 1 => i - 1 \in 1 .. Len(stream')
      /\ \A k \in 1 .. Len(results') :
            \/ /\ k \in 1 .. Len(results) /\ results'[k] = results[k]
               /\ Booking(results[k], t)' <=> Booking(results[k], t)
            \/ /\ results'[k].to = w.to
               /\ Booking(results[k], t)' <=> Booking(w, t)
      /\ \A k \in 1 .. Len(results) :
            k \in 1 .. Len(results') /\ (Booking(results[k], t)' <=> Booking(results[k], t))
      /\ Booking(w, t) => \E k \in 1 .. Len(results') : Booking(results[k], t)'
      /\ Len(stream) \in {1, 2} /\ Len(stream') = Len(stream) - 1
  BY ExecuteShift
<1>4. /\ Holds(mamba', q.mamba_pool_idx, FirstN(t, w.to))
      /\ w.off > 0 => Holds(mamba', w.track, FirstN(t, w.from + w.off))
  BY <1>1, <1>2, ExecutedTrue
<1>5. /\ \A k \in 1 .. Len(results) : Booking(results[k], t) => ~w.extend /\ ~(w.off > 0)
      /\ (\A i \in 1 .. Len(stream) : i # 1 => ~LiveIn(i, t)) => w.to = q.pos
      /\ \A i \in 1 .. Len(stream) : i # 1 /\ LiveIn(i, t) => i = 2 /\ ~stream[i].extend
  BY <1>1, <1>2, AroundHead
<1>6. /\ Writes(w) = {q.mamba_pool_idx} \cup (IF w.off > 0 THEN {w.track} ELSE {})
      /\ w.off > 0 /\ w.extend => w.track = q.buffer[q.last] /\ q.tracked = w.from + w.off
      /\ w.off > 0 /\ ~w.extend => w.track = q.buffer[q.next] /\ w.to = w.from + 1 /\ w.off = 1
  BY <1>1, <1>2, LiveWrites
<1>7. /\ q.next \in Track /\ q.last \in Track /\ BufferSize \in {1, 2}
      /\ q.tracked # 0 => /\ q.buffer[q.last] # None
                          /\ BufferSize = 2 => q.last # q.next
      /\ \A k \in 1 .. Len(results) : Booking(results[k], t) => q.buffer[q.next] # None
  <2>1. ASSUME NEW k \in 1 .. Len(results), Booking(results[k], t)
        PROVE  q.buffer[q.next] # None
    <3>1. k \in 1 .. Outstanding /\ Flight(k) = results[k]
      BY FlightNames
    <3> QED
      BY <2>1, <3>1 DEF SlotInv, FlightTracks, Booking
  <2> QED
    BY <2>1, SlotFacts, ConstantFacts
<1>8. \A i \in Track : q.buffer[i] # None =>
         /\ q.buffer[i] # q.mamba_pool_idx
         /\ \A j \in Track : q.buffer[i] = q.buffer[j] => i = j
         /\ q.buffer[i] \notin Writes(w) => mamba'[q.buffer[i]] = mamba[q.buffer[i]]
  <2> SUFFICES ASSUME NEW i \in Track, q.buffer[i] # None
               PROVE  /\ q.buffer[i] # q.mamba_pool_idx
                      /\ \A j \in Track : q.buffer[i] = q.buffer[j] => i = j
                      /\ q.buffer[i] \notin Writes(w) => mamba'[q.buffer[i]] = mamba[q.buffer[i]]
    OBVIOUS
  <2>1. /\ q.buffer[i] # q.mamba_pool_idx
        /\ \A j \in Track : q.buffer[i] = q.buffer[j] => i = j
        /\ q.buffer[i] \in Held(q) /\ Held(q) \cap mamba_free = {} /\ Held(q) \subseteq MambaIds
    BY OwnSlots
  <2>2. q.buffer[i] \notin Writes(w) => mamba'[q.buffer[i]] = mamba[q.buffer[i]]
    BY <1>1, <1>2, <2>1, ExecuteElsewhere
  <2> QED
    BY <2>1, <2>2
<1> HIDE DEF w, q
<1>9. Track' = Track /\ BufferSize' = BufferSize /\ req'[t] = q
  BY <1>1 DEF Track, BufferSize, Overlap, q
<1>10. \A i \in 1 .. Len(stream') : i = 1 /\ 2 \in 1 .. Len(stream)
  BY <1>3
<1>11. (\A i \in 1 .. Len(stream') : ~LiveIn(i, t)')
           => \A i \in 1 .. Len(stream) : i # 1 => ~LiveIn(i, t)
  <2>1. \A i \in 1 .. Len(stream) : i # 1 => i = 2 /\ i - 1 = 1 /\ 1 \in 1 .. Len(stream')
    BY <1>3, SMTT(60)
  <2> QED
    BY <1>3, <2>1
<1>12. Settled(t)'
  <2>1. (\A i \in 1 .. Len(stream') : ~LiveIn(i, t)') =>
            Holds(mamba', req'[t].mamba_pool_idx, FirstN(t, req'[t].pos))
    BY <1>4, <1>5, <1>9, <1>11
  <2>2. ASSUME q.tracked # 0,
               BufferSize = 1 => \A k \in 1 .. Len(results') : ~Booking(results[k], t)'
        PROVE  Holds(mamba', q.buffer[q.last], FirstN(t, q.tracked))
    <3>1. CASE Tracking(w)
      BY <1>4, <1>6, <3>1 DEF Tracking
    <3>2. CASE ~Tracking(w)
      <4>1. \A i \in 1 .. Len(stream) : ~(LiveIn(i, t) /\ Tracking(stream[i]))
        BY <1>5, <3>2 DEF Tracking, w
      <4>2. BufferSize = 1 => /\ \A i \in 1 .. Len(stream) : ~Booking(stream[i], t)
                              /\ \A k \in 1 .. Len(results) : ~Booking(results[k], t)
        <5> SUFFICES ASSUME BufferSize = 1
                     PROVE  /\ \A i \in 1 .. Len(stream) : ~Booking(stream[i], t)
                            /\ \A k \in 1 .. Len(results) : ~Booking(results[k], t)
          OBVIOUS
        <5>1. Len(stream) = 1
          BY <1>3, FlightNames
        <5>2. \A i \in 1 .. Len(stream) : i = 1
          BY <5>1
        <5>3. ~Booking(w, t)
          BY <1>3, <2>2
        <5> QED
          BY <1>3, <2>2, <5>2, <5>3 DEF w
      <4>3. Holds(mamba, q.buffer[q.last], FirstN(t, q.tracked))
        BY <1>2, <2>2, <4>1, <4>2 DEF Settled, q
      <4>4. q.buffer[q.last] \notin Writes(w)
        <5>1. CASE w.off > 0
          <6>1. ~w.extend /\ w.track = q.buffer[q.next]
            BY <1>6, <3>2, <5>1 DEF Tracking
          <6>2. BufferSize = 2
            <7>1. Booking(w, t)
              BY <1>2, <5>1, <6>1 DEF Booking
            <7> QED
              BY <1>3, <1>7, <2>2, <7>1
          <6> QED
            BY <1>6, <1>7, <1>8, <2>2, <5>1, <6>1, <6>2
        <5>2. CASE ~(w.off > 0)
          BY <1>6, <1>7, <1>8, <2>2, <5>2
        <5> QED
          BY <5>1, <5>2
      <4> QED
        BY <1>7, <1>8, <2>2, <4>3, <4>4 DEF Holds
    <3> QED
      BY <3>1, <3>2
  <2>3. ASSUME NEW k \in 1 .. Len(results'), Booking(results[k], t)'
        PROVE  Holds(mamba', q.buffer[q.next], FirstN(t, results'[k].to))
    <3>1. CASE /\ k \in 1 .. Len(results) /\ results'[k] = results[k]
               /\ Booking(results[k], t)' <=> Booking(results[k], t)
      <4>1. Booking(results[k], t)
        BY <2>3, <3>1
      <4>2. Holds(mamba, q.buffer[q.next], FirstN(t, results[k].to))
        BY <1>2, <3>1, <4>1 DEF Settled, q
      <4>3. q.buffer[q.next] \notin Writes(w) /\ q.buffer[q.next] # None
        BY <1>5, <1>6, <1>7, <1>8, <3>1, <4>1
      <4> QED
        BY <1>7, <1>8, <3>1, <4>2, <4>3 DEF Holds
    <3>2. CASE /\ results'[k].to = w.to
               /\ Booking(results[k], t)' <=> Booking(w, t)
      <4>1. w.off > 0 /\ ~w.extend
        BY <2>3, <3>2 DEF Booking
      <4> QED
        BY <1>4, <1>6, <3>2, <4>1
    <3> QED
      BY <1>3, <3>1, <3>2
  <2> QED
    BY <1>9, <2>1, <2>2, <2>3 DEF Settled
<1>13. ASSUME NEW i \in 1 .. Len(stream'), LiveIn(i, t)'
       PROVE  LiveSound(stream[i])' /\ Ready(i)'
  <2>1. i = 1 /\ LiveIn(2, t) /\ stream'[i] = stream[2] /\ 2 \in 1 .. Len(stream)
        /\ stream[2].r = t
    BY <1>3, <1>10, <1>13 DEF LiveIn
  <2>2. LiveSound(stream[2]) /\ Ready(2)
    BY <1>2, <2>1 DEF StreamSound, LiveIn
  <2>3. LiveSound(stream[i])'
    BY <1>1, <2>1, <2>2 DEF LiveSound, Tracking
  <2>4. ASSUME ~Fresh(stream[2])
        PROVE  Holds(mamba', q.mamba_pool_idx, FirstN(t, stream[2].from))
    <3>1. 1 \in 1 .. (2 - 1)
      OBVIOUS
    <3>2. w.to = stream[2].from
      BY <2>1, <2>2, <2>4, <3>1 DEF Ready, w
    <3> QED
      BY <1>4, <3>2
  <2>5. Ready(i)'
    <3>1. \A j : ~(j \in 1 .. (i - 1))
      BY <2>1
    <3> QED
      BY <1>9, <2>1, <2>4, <3>1 DEF Ready, Fresh
  <2> QED
    BY <2>3, <2>5
<1>14. ASSUME NEW i \in 1 .. Len(stream'), ~LiveIn(i, t)'
       PROVE  Spares(i, t)'
  <2>1. i = 1 /\ ~LiveIn(2, t) /\ stream'[i] = stream[2] /\ 2 \in 1 .. Len(stream)
        /\ Writes(stream[i])' = Writes(stream[2])
    BY <1>3, <1>10, <1>14
  <2>2. Spares(2, t)
    BY <1>2, <2>1 DEF Interference
  <2>3. \A j \in (2 + 1) .. Len(stream) : FALSE
    <3>1. Len(stream) \in Nat /\ Len(stream) <= 2
      BY FlightNames, SlotFacts
    <3> QED
      BY <3>1
  <2>4. \A j : ~(j \in 1 .. (i - 1))
    BY <2>1
  <2>5. q.mamba_pool_idx \notin Writes(stream[2])
    BY <2>2, <2>3 DEF Spares, q
  <2>6. ~(q.tracked # 0 /\ q.buffer[q.last] \in Writes(stream[2]))
    BY <2>2, <2>3 DEF Spares, q
  <2>7. q.buffer[q.next] \in Writes(stream[2]) =>
            \A k \in 1 .. Len(results') : ~Booking(results[k], t)'
    <3>1. 1 \in 1 .. (2 - 1)
      OBVIOUS
    <3> QED
      BY <1>3, <2>2, <3>1 DEF Spares, q, w
  <2> QED
    BY <1>9, <2>1, <2>4, <2>5, <2>6, <2>7 DEF Spares
<1> QED
  BY <1>12, <1>13, <1>14 DEF Sound

LEMMA ExecuteContent ==
    ASSUME SlotInv, ContentInv, SlotInv', Execute
    PROVE  ContentInv'
<1>1. /\ Head(stream) = stream[1] /\ 1 \in 1 .. Len(stream)
      /\ UNCHANGED <<config, req_generation, mamba_map, mamba_free, req, cache, ckpt>>
  BY ExecuteMoves
<1>2. /\ StreamSound /\ Interference /\ CachedTrue /\ WorkSound(stream[1])
  BY <1>1 DEF ContentInv, StreamSound
<1>3. CachedSlots' = CachedSlots /\ Int8' = Int8
  BY <1>1 DEF CachedSlots, Int8
<1>4. CachedTrue'
  <2> SUFFICES ASSUME NEW p \in DOMAIN cache, NEW c \in Components
               PROVE  p = (IF Int8 THEN ckpt ELSE mamba')[cache[p]][c]
    BY <1>1, <1>3 DEF CachedTrue
  <2>1. p = (IF Int8 THEN ckpt ELSE mamba)[cache[p]][c]
    BY <1>2 DEF CachedTrue
  <2>2. ASSUME ~Int8
        PROVE  mamba'[cache[p]] = mamba[cache[p]]
    <3>1. cache[p] \in MambaIds /\ cache[p] \notin mamba_free /\ cache[p] \in CachedSlots
      BY <2>2, CacheRange DEF CachedSlots
    <3>2. cache[p] \notin Writes(stream[1])
      BY <1>1, <1>2, <3>1 DEF Interference
    <3> QED
      BY <1>1, <1>2, <3>1, <3>2, ExecuteElsewhere
  <2> QED
    BY <2>1, <2>2
<1>5. ForwardsSound'
  <2> SUFFICES ASSUME NEW i \in 1 .. Len(stream')
               PROVE  WorkSound(stream[i])' /\ (Writes(stream[i]) \cap CachedSlots)' = {}
    BY DEF ForwardsSound
  <2>1. i + 1 \in 1 .. Len(stream) /\ stream'[i] = stream[i + 1]
    BY ExecuteMoves
  <2>2. WorkSound(stream[i])'
    BY <1>2, <2>1 DEF StreamSound, WorkSound, Fresh
  <2>3. Writes(stream[i])' = Writes(stream[i + 1])
    BY <1>1, <2>1 DEF Writes, Fresh
  <2> QED
    BY <1>2, <1>3, <2>1, <2>2, <2>3 DEF Interference
<1>6. ASSUME NEW t \in Reqs
      PROVE  Sound(t)'
  <2>1. CASE ~Running(t)
    BY <1>1, <2>1 DEF Sound, Running
  <2>2. CASE Running(t) /\ LiveIn(1, t)
    BY <2>2, ExecuteOwn
  <2>3. CASE Running(t) /\ ~LiveIn(1, t)
    BY <2>3, ExecuteOther
  <2> QED
    BY <2>1, <2>2, <2>3
<1>7. SlotInv' => (ContentInv <=> CachedTrue /\ ForwardsSound /\ \A r \in Reqs : Sound(r))'
  BY ContentParts, PTL
<1> QED
  BY <1>4, <1>5, <1>6, <1>7

-----------------------------------------------------------------------------
(* Launching a forward. *)

\* A launch either continues a running request or starts one from the cache.
Continuing(r, q, to, clear, cow, advance) ==
    /\ Running(r) /\ q = req[r] /\ ~clear /\ cow = None
    /\ ~advance => to = q.pos + 1

Starting(r, q, clear, cow, advance) ==
    /\ ~Running(r) /\ advance /\ q.tracked = 0
    /\ q.pos = Len(q.lock) /\ q.lock = FirstN(r, q.pos)
    /\ q.lock # <<>> => q.lock \in DOMAIN cache
    /\ clear <=> q.lock = <<>>
    /\ cow = IF q.lock = <<>> THEN None ELSE cache[q.lock]

\* The new forward is the last of the stream, and the others stay as they were.
LEMMA LaunchShift ==
    ASSUME SlotInv, NEW r \in Reqs, NEW q, NEW free, NEW to, NEW off, NEW clear, NEW cow,
           NEW advance, NEW n, NEW w,
           Launched(r, q, free, to, off, clear, cow, advance, n, w), NEW t \in Reqs
    PROVE  /\ Len(stream) \in Nat /\ Len(stream') = Len(stream) + 1
           /\ stream'[Len(stream) + 1] = w
           /\ \A i \in 1 .. Len(stream') : i \in 1 .. Len(stream) \/ i = Len(stream) + 1
           /\ \A i \in 1 .. Len(stream) :
                 /\ i \in 1 .. Len(stream') /\ stream'[i] = stream[i]
                 /\ LiveIn(i, t)' <=> LiveIn(i, t)
                 /\ Booking(stream[i], t)' <=> Booking(stream[i], t)
           /\ \A m : m = Len(stream) + 1 => (LiveIn(m, t)' <=> t = r)
           /\ \A k \in 1 .. Len(results) : Booking(results[k], t)' <=> Booking(results[k], t)
           /\ req'[r] = n /\ \A s \in Reqs : s # r => req'[s] = req[s]
<1>1. /\ stream' = Append(stream, w) /\ w \in WorkFields /\ w.r = r /\ w.idx = q.req_pool_idx
      /\ w.gen = req_generation'[w.idx] /\ n.req_pool_idx = q.req_pool_idx
      /\ req' = [req EXCEPT ![r] = n] /\ UNCHANGED <<config, results>>
      /\ \A i \in 1 .. Outstanding : Live(Flight(i))' <=> Live(Flight(i))
  BY DEF Launched, LaunchEffect
<1>2. Types /\ stream \in Seq(WorkFields) /\ Len(stream) \in Nat /\ DOMAIN req = Reqs
  BY FlightNames DEF SlotInv, Types
<1>3. /\ Len(stream') = Len(stream) + 1 /\ stream'[Len(stream) + 1] = w
      /\ \A i \in 1 .. Len(stream) : stream'[i] = stream[i]
  BY <1>1, <1>2, AppendProperties
<1>4. req'[r] = n /\ \A s \in Reqs : s # r => req'[s] = req[s]
  BY <1>1, <1>2
<1>5. \A i \in 1 .. Outstanding : Flight(i)' = Flight(i)
  BY <1>1, <1>2, FlightAppend
<1>6. ASSUME NEW i \in 1 .. Len(stream)
      PROVE  /\ LiveIn(i, t)' <=> LiveIn(i, t)
             /\ Booking(stream[i], t)' <=> Booking(stream[i], t)
  <2> DEFINE j == Len(results) + i
  <2>1. j \in 1 .. Outstanding /\ Flight(j) = stream[i]
    BY FlightNames
  <2> HIDE DEF j
  <2>2. PICK k \in 1 .. Outstanding : k = j
    BY <2>1
  <2>3. Flight(k)' = stream[i] /\ Flight(k) = stream[i]
    BY <1>5, <2>1, <2>2
  <2>4. Live(Flight(k))' <=> Live(Flight(k))
    BY <1>1, <2>2
  <2>5. Live(stream[i])' <=> Live(stream[i])
    BY <1>3, <2>3, <2>4 DEF Live
  <2> QED
    BY <1>3, <2>5 DEF LiveIn, Booking
<1>7. ASSUME NEW k \in 1 .. Len(results)
      PROVE  Booking(results[k], t)' <=> Booking(results[k], t)
  <2>1. k \in 1 .. Outstanding /\ Flight(k) = results[k]
    BY FlightNames
  <2>2. Flight(k)' = results[k]
    BY <1>5, <2>1
  <2>3. Live(Flight(k))' <=> Live(Flight(k))
    BY <1>1, <2>1
  <2>4. Live(results[k])' <=> Live(results[k])
    BY <1>1, <2>1, <2>2, <2>3 DEF Live
  <2> QED
    BY <1>1, <2>4 DEF Booking
<1>8. ASSUME NEW m, m = Len(stream) + 1
      PROVE  LiveIn(m, t)' <=> t = r
  BY <1>1, <1>3, <1>4, <1>8 DEF LiveIn, Live
<1> QED
  BY <1>2, <1>3, <1>4, <1>6, <1>7, <1>8

\* Slots in play around a launch.
LEMMA LaunchWrites ==
    ASSUME SlotInv, SlotInv', NEW r \in Reqs, NEW q, NEW free, NEW to, NEW off, NEW clear,
           NEW cow, NEW advance, NEW n, NEW w,
           Launched(r, q, free, to, off, clear, cow, advance, n, w)
    PROVE  /\ Writes(w)' \subseteq Held(n) /\ Held(n)' = Held(n) /\ Held(n) \subseteq MambaIds
           /\ Held(n) \cap CachedSlots = {}
           /\ \A t \in Reqs : t # r => Held(n) \cap Held(req[t]) = {}
           /\ q.mamba_pool_idx \in Held(n) /\ n.mamba_pool_idx = q.mamba_pool_idx
           /\ \A i \in 1 .. Len(stream) :
                 /\ Writes(stream[i])' \subseteq Writes(stream[i]) \cup {q.mamba_pool_idx}
                 /\ Running(r) /\ q = req[r] => Writes(stream[i])' = Writes(stream[i])
           /\ CachedSlots' = CachedSlots /\ Track' = Track /\ BufferSize' = BufferSize
           /\ Int8' = Int8
           /\ UNCHANGED <<config, cache, mamba, ckpt, results, ckpt_free>>
<1>1. /\ n \in ReqFields /\ w \in WorkFields /\ n.mamba_pool_idx = q.mamba_pool_idx
      /\ w.idx = q.req_pool_idx /\ w.dst = q.mamba_pool_idx /\ w.off = off
      /\ w.track = IF off > 0 THEN n.buffer[q.next] ELSE Pad
      /\ off > 0 => n.buffer[q.next] # None
      /\ mamba_map' = [mamba_map EXCEPT ![w.idx] = q.mamba_pool_idx]
      /\ UNCHANGED <<config, cache, mamba, ckpt, results, ckpt_free>>
      /\ q.mamba_pool_idx \in MambaIds /\ q.req_pool_idx \in ReqSlots /\ q \in ReqFields
  BY DEF Launched, LaunchEffect, Launchable
<1>2. /\ CachedSlots' = CachedSlots /\ Track' = Track /\ BufferSize' = BufferSize
      /\ Int8' = Int8
  BY <1>1 DEF CachedSlots, Track, BufferSize, Overlap, Int8
<1>3. req'[r] = n /\ \A s \in Reqs : s # r => req'[s] = req[s]
  BY LaunchShift
<1>4. q.mamba_pool_idx # None /\ q.next \in Track
  BY <1>1, ConstantFacts DEF ReqFields
<1>5. /\ Held(req[r])' = Held(n) /\ Held(n)' = Held(n) /\ Held(n) \subseteq MambaIds
      /\ \A t \in Reqs : t # r => Held(req[t])' = Held(req[t])
  BY <1>1, <1>2, <1>3 DEF Held, ReqFields
<1>6. q.mamba_pool_idx \in Held(n)
  BY <1>1, <1>4 DEF Held
<1>7. /\ Held(n) \cap CachedSlots = {}
      /\ \A t \in Reqs : t # r => Held(n) \cap Held(req[t]) = {}
  <2>1. /\ Held(req[r])' \cap CachedSlots' = {}
        /\ \A t \in Reqs : t # r => Held(req[r])' \cap Held(req[t])' = {}
    BY DEF SlotInv, Ledger
  <2> QED
    BY <1>2, <1>5, <2>1
<1>8. \A i \in ReqSlots : mamba_map'[i] = IF i = w.idx THEN q.mamba_pool_idx ELSE mamba_map[i]
  BY <1>1 DEF SlotInv, Types
<1>9. Writes(w)' \subseteq Held(n)
  <2>1. off > 0 => n.buffer[q.next] \in Held(n)
    BY <1>1, <1>4 DEF Held
  <2> QED
    BY <1>1, <1>6, <1>8, <2>1 DEF Writes, Fresh
<1>10. ASSUME NEW i \in 1 .. Len(stream)
       PROVE  /\ Writes(stream[i])' \subseteq Writes(stream[i]) \cup {q.mamba_pool_idx}
              /\ Running(r) /\ q = req[r] => Writes(stream[i])' = Writes(stream[i])
  <2>1. stream'[i] = stream[i]
    BY LaunchShift
  <2>2. stream[i].idx \in ReqSlots
    <3>1. stream[i] \in WorkFields
      BY SlotFacts
    <3> QED
      BY <3>1 DEF WorkFields
  <2>3. Running(r) /\ q = req[r] => mamba_map[w.idx] = q.mamba_pool_idx
    BY <1>1, SlotFacts
  <2> QED
    BY <1>8, <2>1, <2>2, <2>3 DEF Writes, Fresh
<1> QED
  BY <1>1, <1>2, <1>5, <1>6, <1>7, <1>9, <1>10

\* A launch leaves the other requests sound.
LEMMA LaunchOthers ==
    ASSUME SlotInv, SlotInv', ContentInv, NEW r \in Reqs, NEW q, NEW free, NEW to, NEW off,
           NEW clear, NEW cow, NEW advance, NEW n, NEW w,
           Launched(r, q, free, to, off, clear, cow, advance, n, w),
           NEW t \in Reqs, t # r
    PROVE  Sound(t)'
<1>1. /\ Writes(w)' \subseteq Held(n)
      /\ Held(n) \cap Held(req[t]) = {} /\ q.mamba_pool_idx \in Held(n)
      /\ \A i \in 1 .. Len(stream) :
            Writes(stream[i])' \subseteq Writes(stream[i]) \cup {q.mamba_pool_idx}
      /\ Track' = Track /\ BufferSize' = BufferSize
      /\ UNCHANGED <<config, cache, mamba, ckpt, results>>
  BY LaunchWrites
<1>2. PICK m : m = Len(stream) + 1
  OBVIOUS
<1>3. /\ Len(stream) \in Nat /\ Len(stream') = m /\ stream'[m] = w
      /\ \A i \in 1 .. m : i \in 1 .. Len(stream) \/ i = m
      /\ \A i \in 1 .. Len(stream) :
            /\ i \in 1 .. m /\ stream'[i] = stream[i]
            /\ LiveIn(i, t)' <=> LiveIn(i, t)
            /\ Booking(stream[i], t)' <=> Booking(stream[i], t)
      /\ ~LiveIn(m, t)'
      /\ \A k \in 1 .. Len(results) : Booking(results[k], t)' <=> Booking(results[k], t)
      /\ req'[t] = req[t]
  BY <1>2, LaunchShift
<1> SUFFICES ASSUME Running(t)'
             PROVE  /\ Settled(t)'
                    /\ \A i \in 1 .. m :
                          IF LiveIn(i, t)' THEN LiveSound(stream[i])' /\ Ready(i)' ELSE Spares(i, t)'
  BY <1>3 DEF Sound
<1>4. Running(t) /\ Settled(t) /\ StreamSound /\ Sound(t)
  BY <1>3, ContentParts DEF Running, ContentInv
<1>5. ~Booking(stream[m], t)'
  BY <1>3 DEF Booking, LiveIn
<1>6. Settled(t)'
  <2>1. (\A i \in 1 .. Len(stream') : ~LiveIn(i, t)') =>
            Holds(mamba', req'[t].mamba_pool_idx, FirstN(t, req'[t].pos))
    BY <1>1, <1>3, <1>4 DEF Settled
  <2>2. /\ req'[t].tracked # 0
        /\ \A i \in 1 .. Len(stream') : ~(LiveIn(i, t)' /\ Tracking(stream'[i]))
        /\ BufferSize' = 1 => /\ \A i \in 1 .. Len(stream') : ~Booking(stream[i], t)'
                              /\ \A k \in 1 .. Len(results') : ~Booking(results[k], t)'
        => Holds(mamba', req'[t].buffer[req'[t].last], FirstN(t, req'[t].tracked))
    BY <1>1, <1>3, <1>4 DEF Settled
  <2>3. \A k \in 1 .. Len(results') : Booking(results[k], t)' =>
            Holds(mamba', req'[t].buffer[req'[t].next], FirstN(t, results'[k].to))
    BY <1>1, <1>3, <1>4 DEF Settled
  <2> QED
    BY <2>1, <2>2, <2>3 DEF Settled
<1>7. ASSUME NEW i \in 1 .. Len(stream), LiveIn(i, t)
      PROVE  LiveSound(stream[i])' /\ Ready(i)'
  <2>1. LiveSound(stream[i]) /\ Ready(i) /\ stream[i].r = t /\ stream'[i] = stream[i]
    BY <1>3, <1>4, <1>7 DEF StreamSound, LiveIn
  <2>2. LiveSound(stream[i])'
    BY <1>1, <1>3, <2>1 DEF LiveSound, Tracking
  <2>3. \A j \in 1 .. (i - 1) : j \in 1 .. Len(stream)
    BY <1>3
  <2>4. Ready(i)'
    BY <1>1, <1>3, <2>1, <2>3 DEF Ready, Fresh
  <2> QED
    BY <2>2, <2>4
<1>8. /\ req[t].mamba_pool_idx \in Held(req[t])
      /\ \A i \in Track : req[t].buffer[i] # None => req[t].buffer[i] \in Held(req[t])
      /\ req[t].next \in Track /\ req[t].last \in Track
      /\ req[t].tracked # 0 => req[t].buffer[req[t].last] # None
      /\ None \notin Held(n) /\ q.mamba_pool_idx # None
  BY <1>1, <1>4, OwnSlots, SlotFacts, ConstantFacts DEF Held
<1>9. ASSUME NEW i \in 1 .. Len(stream), ~LiveIn(i, t)
      PROVE  Spares(i, t)'
  <2>1. Spares(i, t)
    BY <1>4, <1>9 DEF Sound
  <2>2. /\ req[t].mamba_pool_idx \in Writes(stream[i])' => req[t].mamba_pool_idx \in Writes(stream[i])
        /\ \A j \in Track : req[t].buffer[j] \in Writes(stream[i])' =>
              req[t].buffer[j] \in Writes(stream[i])
    <3>1. Writes(stream[i])' \subseteq Writes(stream[i]) \cup {q.mamba_pool_idx}
      BY <1>1
    <3> QED
      BY <1>1, <1>8, <3>1
  <2>3. /\ \A j \in (i + 1) .. Len(stream) : j \in 1 .. Len(stream) /\ j \in (i + 1) .. m
        /\ \A j \in 1 .. (i - 1) : j \in 1 .. Len(stream)
    BY <1>2, <1>3
  <2>4. req'[t].mamba_pool_idx \in Writes(stream[i])' =>
            \E j \in (i + 1) .. Len(stream') : LiveIn(j, t)' /\ Fresh(stream[j])'
    <3>1. \A j \in 1 .. Len(stream) : Fresh(stream[j])' <=> Fresh(stream[j])
      BY <1>3 DEF Fresh
    <3> QED
      BY <1>3, <2>1, <2>2, <2>3, <3>1 DEF Spares
  <2>5. req'[t].tracked # 0 /\ req'[t].buffer[req'[t].last] \in Writes(stream[i])' =>
            \E j \in (i + 1) .. Len(stream') : LiveIn(j, t)' /\ Tracking(stream[j])'
    <3>1. \A j \in 1 .. Len(stream) : Tracking(stream[j])' <=> Tracking(stream[j])
      BY <1>3 DEF Tracking
    <3> QED
      BY <1>3, <1>8, <2>1, <2>2, <2>3, <3>1 DEF Spares
  <2>6. req'[t].buffer[req'[t].next] \in Writes(stream[i])' =>
              /\ \A k \in 1 .. Len(results') : ~Booking(results[k], t)'
              /\ \A j \in 1 .. (i - 1) : ~Booking(stream[j], t)'
    BY <1>1, <1>3, <1>8, <2>1, <2>2, <2>3 DEF Spares
  <2> QED
    BY <2>4, <2>5, <2>6 DEF Spares
<1>10. Spares(m, t)'
  <2>1. Writes(stream[m])' = Writes(w)'
    BY <1>3 DEF Writes, Fresh
  <2>2. /\ req[t].mamba_pool_idx \notin Writes(stream[m])'
        /\ \A j \in Track : req[t].buffer[j] \notin Writes(stream[m])'
    BY <1>1, <1>8, <2>1
  <2> QED
    BY <1>3, <1>8, <2>2 DEF Spares
<1> QED
  BY <1>3, <1>6, <1>7, <1>9, <1>10

\* What the launched forward and its request look like.
NewForwardFields(r, q, free, off, clear, cow, advance, n, w) ==
    /\ WorkSound(w)
    /\ Tracking(w) <=> off > 0 /\ advance
    /\ ~w.extend /\ w.off > 0 => w.track = n.buffer[n.next]
    /\ Tracking(w) => w.track = n.buffer[n.last] /\ n.tracked = w.from + w.off
    /\ ~Tracking(w) => n.last = q.last /\ n.next = q.next /\ n.tracked = q.tracked
    /\ w.dst = n.mamba_pool_idx /\ w.from = q.pos /\ w.r = r
    /\ w.clear = clear /\ w.cow = cow /\ w.extend = advance /\ w.off = off
    /\ q.next \in Track /\ q.last \in Track /\ n.lock = q.lock /\ w.to = n.pos
    /\ n.mamba_pool_idx = q.mamba_pool_idx
    /\ \A i \in Track : q.buffer[i] # None => n.buffer[i] = q.buffer[i]
    /\ \A i \in Track : q.buffer[i] = None => n.buffer[i] \in free \cup {None}

LEMMA NewForward ==
    ASSUME SlotInv, SlotInv', NEW r \in Reqs, NEW q, NEW free, NEW to, NEW off, NEW clear,
           NEW cow, NEW advance \in BOOLEAN, NEW n, NEW w,
           Launched(r, q, free, to, off, clear, cow, advance, n, w),
           \/ Continuing(r, q, to, clear, cow, advance)
           \/ Starting(r, q, clear, cow, advance)
    PROVE  NewForwardFields(r, q, free, off, clear, cow, advance, n, w)
<1>1. /\ n \in ReqFields /\ w \in WorkFields /\ q \in ReqFields
      /\ n.mamba_pool_idx = q.mamba_pool_idx /\ n.pos = to /\ n.lock = q.lock
      /\ \A i \in Track : \/ n.buffer[i] = q.buffer[i]
                          \/ q.buffer[i] = None /\ n.buffer[i] \in free
      /\ ~(off > 0 /\ advance) => n.last = q.last /\ n.next = q.next /\ n.tracked = q.tracked
      /\ off > 0 /\ advance => n.last = q.next /\ n.tracked = q.pos + off
      /\ off > 0 => n.buffer[q.next] # None
      /\ w.r = r /\ w.from = q.pos /\ w.to = to /\ w.off = off
      /\ w.track = IF off > 0 THEN n.buffer[q.next] ELSE Pad
      /\ w.clear = clear /\ w.cow = cow /\ w.dst = q.mamba_pool_idx /\ w.extend = advance
      /\ to \in Nat /\ q.pos < to /\ to <= Len(Text[r]) /\ off \in Nat /\ off <= to - q.pos
  BY DEF Launched, LaunchEffect, Launchable
<1>2. q.next \in Track /\ q.last \in Track /\ \A i \in Track : n.buffer[i] \in MambaIds \cup {None}
  BY <1>1 DEF ReqFields
<1>3. off > 0 <=> w.track # Pad
  BY <1>1, <1>2, ConstantFacts
<1>4. Tracking(w) <=> off > 0 /\ advance
  BY <1>1 DEF Tracking
<1>5. WorkSound(w)
  <2>1. ~advance => to = q.pos + 1 /\ ~clear /\ cow = None
    BY DEF Continuing, Starting
  <2>2. ~(clear /\ cow # None)
    BY DEF Continuing, Starting
  <2> QED
    BY <1>1, <1>3, <2>1, <2>2 DEF WorkSound, Fresh
<1> QED
  BY <1>1, <1>2, <1>4, <1>5 DEF NewForwardFields

\* A launch for a running request keeps it sound.
LEMMA LaunchContinued ==
    ASSUME SlotInv, SlotInv', ContentInv, NEW r \in Reqs, NEW q, NEW free, NEW to, NEW off,
           NEW clear, NEW cow, NEW advance \in BOOLEAN, NEW n, NEW w,
           Launched(r, q, free, to, off, clear, cow, advance, n, w),
           Continuing(r, q, to, clear, cow, advance)
    PROVE  Sound(r)'
<1>1. /\ \A i \in 1 .. Len(stream) : Writes(stream[i])' = Writes(stream[i])
      /\ Track' = Track /\ BufferSize' = BufferSize
      /\ UNCHANGED <<config, cache, mamba, ckpt, results>>
  BY LaunchWrites DEF Continuing
<1>2. PICK m : m = Len(stream) + 1
  OBVIOUS
<1>3. /\ Len(stream) \in Nat /\ Len(stream') = m /\ stream'[m] = w
      /\ \A i \in 1 .. m : i \in 1 .. Len(stream) \/ i = m
      /\ \A i \in 1 .. Len(stream) :
            /\ i \in 1 .. m /\ stream'[i] = stream[i]
            /\ LiveIn(i, r)' <=> LiveIn(i, r)
            /\ Booking(stream[i], r)' <=> Booking(stream[i], r)
      /\ LiveIn(m, r)' /\ m \in 1 .. m
      /\ \A k \in 1 .. Len(results) : Booking(results[k], r)' <=> Booking(results[k], r)
      /\ req'[r] = n
  BY <1>2, LaunchShift
<1>4. /\ Tracking(w) <=> off > 0 /\ advance
      /\ ~w.extend /\ w.off > 0 => w.track = n.buffer[n.next]
      /\ Tracking(w) => w.track = n.buffer[n.last] /\ n.tracked = w.from + w.off
      /\ ~Tracking(w) => n.last = q.last /\ n.next = q.next /\ n.tracked = q.tracked
      /\ w.dst = n.mamba_pool_idx /\ w.from = q.pos /\ w.r = r
      /\ w.clear = clear /\ w.cow = cow /\ w.extend = advance /\ w.off = off
      /\ n.mamba_pool_idx = q.mamba_pool_idx
      /\ \A i \in Track : q.buffer[i] # None => n.buffer[i] = q.buffer[i]
      /\ n.lock = q.lock
  <2>1. NewForwardFields(r, q, free, off, clear, cow, advance, n, w)
    BY NewForward, Zenon
  <2> QED
    BY <2>1 DEF NewForwardFields
<1>5. Running(r) /\ q = req[r] /\ ~clear /\ cow = None
  BY DEF Continuing
<1>6. Settled(r) /\ StreamSound /\ Sound(r)
  BY <1>5, ContentParts DEF ContentInv
<1>7. /\ q.next \in Track /\ q.last \in Track
      /\ q.tracked # 0 => q.buffer[q.last] # None
  BY <1>5, SlotFacts, ConstantFacts
<1>8. /\ \A k \in 1 .. Len(results) : Booking(results[k], r) => q.buffer[q.next] # None /\ ~advance
      /\ \A i \in 1 .. Len(stream) : LiveIn(i, r) => ~advance
      /\ \A i \in 1 .. Len(stream) : Booking(stream[i], r) => q.buffer[q.next] # None /\ ~advance
  <2>1. \A i \in 1 .. Outstanding : Live(Flight(i)) /\ Flight(i).r = r => ~advance
    BY DEF Launched
  <2>2. \A i \in 1 .. Outstanding : Booking(Flight(i), r) => q.buffer[q.next] # None
    BY <1>5 DEF SlotInv, FlightTracks, Booking
  <2>3. ASSUME NEW k \in 1 .. Len(results), Booking(results[k], r)
        PROVE  q.buffer[q.next] # None /\ ~advance
    <3>1. k \in 1 .. Outstanding /\ Flight(k) = results[k]
      BY FlightNames
    <3> QED
      BY <2>1, <2>2, <2>3, <3>1 DEF Booking
  <2>4. ASSUME NEW i \in 1 .. Len(stream), LiveIn(i, r)
        PROVE  ~advance /\ (Booking(stream[i], r) => q.buffer[q.next] # None)
    <3> DEFINE j == Len(results) + i
    <3>1. j \in 1 .. Outstanding /\ Flight(j) = stream[i]
      BY FlightNames
    <3> HIDE DEF j
    <3> QED
      BY <2>1, <2>2, <2>4, <3>1 DEF LiveIn
  <2> QED
    BY <2>3, <2>4 DEF Booking, LiveIn
<1>9. Settled(r)'
  <2>1. ~(\A i \in 1 .. Len(stream') : ~LiveIn(i, r)')
    BY <1>3
  <2>2. ASSUME n.tracked # 0,
               \A i \in 1 .. m : ~(LiveIn(i, r)' /\ Tracking(stream'[i])),
               BufferSize = 1 => /\ \A i \in 1 .. m : ~Booking(stream[i], r)'
                                 /\ \A k \in 1 .. Len(results) : ~Booking(results[k], r)'
        PROVE  Holds(mamba, n.buffer[n.last], FirstN(r, n.tracked))
    <3>1. ~Tracking(w)
      BY <1>3, <2>2
    <3>2. n.tracked = q.tracked /\ n.buffer[n.last] = q.buffer[q.last]
      BY <1>4, <1>7, <2>2, <3>1
    <3> QED
      BY <1>3, <1>5, <1>6, <2>2, <3>2 DEF Settled
  <2>3. ASSUME NEW k \in 1 .. Len(results), Booking(results[k], r)'
        PROVE  Holds(mamba, n.buffer[n.next], FirstN(r, results[k].to))
    <3>1. Booking(results[k], r)
      BY <1>3, <2>3
    <3>2. n.buffer[n.next] = q.buffer[q.next]
      BY <1>4, <1>7, <1>8, <3>1
    <3> QED
      BY <1>5, <1>6, <3>1, <3>2 DEF Settled
  <2> QED
    BY <1>1, <1>3, <2>1, <2>2, <2>3 DEF Settled
<1>10. ASSUME NEW i \in 1 .. Len(stream), LiveIn(i, r)
       PROVE  LiveSound(stream[i])' /\ Ready(i)'
  <2>1. LiveSound(stream[i]) /\ Ready(i) /\ stream[i].r = r /\ stream'[i] = stream[i]
    BY <1>3, <1>6, <1>10 DEF StreamSound, LiveIn
  <2>2. ~Tracking(w) /\ n.last = q.last /\ n.next = q.next /\ n.tracked = q.tracked
    BY <1>4, <1>8, <1>10
  <2>3. Tracking(stream[i]) => n.buffer[n.last] = q.buffer[q.last]
    <3>1. Tracking(stream[i]) => q.tracked # 0
      <4>1. stream[i].from \in Nat /\ stream[i].off \in Nat
        <5>1. stream[i] \in WorkFields
          BY SlotFacts
        <5> QED
          BY <5>1 DEF WorkFields
      <4> QED
        BY <1>5, <2>1, <4>1 DEF Tracking, LiveSound
    <3> QED
      BY <1>4, <1>7, <2>2, <3>1
  <2>4. ~stream[i].extend /\ stream[i].off > 0 => n.buffer[n.next] = q.buffer[q.next]
    <3>1. ~stream[i].extend /\ stream[i].off > 0 => Booking(stream[i], r)
      BY <1>10 DEF Booking, LiveIn
    <3> QED
      BY <1>4, <1>7, <1>8, <2>2, <3>1
  <2>5. LiveSound(stream[i])'
    BY <1>1, <1>3, <1>4, <1>5, <2>1, <2>2, <2>3, <2>4 DEF LiveSound, Tracking
  <2>6. \A j \in 1 .. (i - 1) : j \in 1 .. Len(stream)
    BY <1>3
  <2>7. Ready(i)'
    BY <1>1, <1>3, <1>4, <1>5, <2>1, <2>6 DEF Ready, Fresh
  <2> QED
    BY <2>5, <2>7
<1>11. LiveSound(stream[m])' /\ Ready(m)'
  <2>1. LiveSound(stream[m])'
    BY <1>3, <1>4, <1>5 DEF LiveSound, Tracking
  <2>2. \A j \in 1 .. (m - 1) : j \in 1 .. Len(stream)
    BY <1>2, <1>3
  <2>3. (\A j \in 1 .. (m - 1) : ~LiveIn(j, r)') =>
            Holds(mamba, q.mamba_pool_idx, FirstN(r, w.from))
    <3>1. \A j \in 1 .. Len(stream) : j \in 1 .. (m - 1)
      BY <1>2, <1>3
    <3> QED
      BY <1>3, <1>4, <1>5, <1>6, <3>1 DEF Settled
  <2>4. ASSUME NEW j \in 1 .. (m - 1), LiveIn(j, r)'
        PROVE  stream'[j].to = w.from
    <3>1. j \in 1 .. Len(stream) /\ LiveIn(j, r) /\ stream'[j] = stream[j]
      BY <1>3, <2>2, <2>4
    <3>2. Outstanding = 1 /\ Flight(1) = stream[j]
      <4>1. Outstanding < Depth
        BY DEF Launched
      <4>2. Outstanding \in Nat /\ Outstanding < 2
        BY <4>1, FlightNames, SlotFacts
      <4>3. Len(results) + j \in 1 .. Outstanding /\ Flight(Len(results) + j) = stream[j]
        BY <3>1, FlightNames
      <4>4. Outstanding = 1
        BY <4>2, <4>3
      <4>5. Len(results) + j = 1
        BY <4>3, <4>4
      <4> QED
        BY <4>3, <4>4, <4>5
    <3>3. stream[j].to = req[r].pos
      BY <3>1, <3>2 DEF SlotInv, FlightOrder, LiveIn
    <3> QED
      BY <1>4, <1>5, <3>1, <3>3
  <2>5. Ready(m)'
    BY <1>1, <1>3, <1>4, <2>3, <2>4 DEF Ready
  <2> QED
    BY <2>1, <2>5
<1>12. ASSUME NEW i \in 1 .. Len(stream), ~LiveIn(i, r)
       PROVE  Spares(i, r)'
  <2>1. Spares(i, r) /\ Writes(stream[i])' = Writes(stream[i])
    BY <1>1, <1>5, <1>6, <1>12 DEF Sound
  <2>2. /\ \A j \in (i + 1) .. Len(stream) : j \in 1 .. Len(stream) /\ j \in (i + 1) .. m
        /\ \A j \in 1 .. (i - 1) : j \in 1 .. Len(stream)
        /\ m \in (i + 1) .. m
    BY <1>2, <1>3
  <2>3. \A j \in 1 .. Len(stream) :
            /\ Fresh(stream[j])' <=> Fresh(stream[j])
            /\ Tracking(stream[j])' <=> Tracking(stream[j])
    BY <1>3 DEF Fresh, Tracking
  <2>4. req'[r].mamba_pool_idx \in Writes(stream[i])' =>
            \E j \in (i + 1) .. Len(stream') : LiveIn(j, r)' /\ Fresh(stream[j])'
    BY <1>3, <1>4, <1>5, <2>1, <2>2, <2>3 DEF Spares
  <2>5. req'[r].tracked # 0 /\ req'[r].buffer[req'[r].last] \in Writes(stream[i])' =>
            \E j \in (i + 1) .. Len(stream') : LiveIn(j, r)' /\ Tracking(stream[j])'
    <3>1. CASE Tracking(w)
      <4>1. Tracking(stream[m])'
        BY <1>3, <3>1 DEF Tracking
      <4> QED
        BY <1>3, <2>2, <4>1
    <3>2. CASE ~Tracking(w)
      <4>1. /\ n.tracked = q.tracked
            /\ n.tracked # 0 => n.buffer[n.last] = q.buffer[q.last]
        BY <1>4, <1>7, <3>2
      <4> QED
        BY <1>3, <1>5, <2>1, <2>2, <2>3, <4>1 DEF Spares
    <3> QED
      BY <3>1, <3>2
  <2>6. ASSUME \/ \E k \in 1 .. Len(results) : Booking(results[k], r)
               \/ \E j \in 1 .. (i - 1) : Booking(stream[j], r)
        PROVE  n.buffer[n.next] \notin Writes(stream[i])
    <3>1. q.buffer[q.next] # None /\ ~advance
      BY <1>8, <2>2, <2>6
    <3>2. n.buffer[n.next] = q.buffer[q.next]
      BY <1>4, <1>7, <3>1
    <3> QED
      BY <1>5, <2>1, <2>6, <3>2 DEF Spares
  <2>7. req'[r].buffer[req'[r].next] \in Writes(stream[i])' =>
              /\ \A k \in 1 .. Len(results') : ~Booking(results[k], r)'
              /\ \A j \in 1 .. (i - 1) : ~Booking(stream[j], r)'
    BY <1>1, <1>3, <2>1, <2>2, <2>6
  <2> QED
    BY <2>4, <2>5, <2>7 DEF Spares
<1> QED
  <2>1. \A i \in 1 .. Len(stream') :
            IF LiveIn(i, r)' THEN LiveSound(stream[i])' /\ Ready(i)' ELSE Spares(i, r)'
    BY <1>3, <1>10, <1>11, <1>12
  <2> QED
    BY <1>9, <2>1 DEF Sound


\* A launch that starts a request makes it sound: its forward sets the state slot,
\* by a clear or by the copy of the checkpoint its prefix hit.
LEMMA LaunchStarted ==
    ASSUME SlotInv, SlotInv', ContentInv, NEW r \in Reqs, NEW q, NEW free, NEW to, NEW off,
           NEW clear, NEW cow, NEW advance \in BOOLEAN, NEW n, NEW w,
           Launched(r, q, free, to, off, clear, cow, advance, n, w),
           Starting(r, q, clear, cow, advance)
    PROVE  Sound(r)'
<1>1. /\ Track' = Track /\ BufferSize' = BufferSize
      /\ UNCHANGED <<config, cache, mamba, ckpt, results>>
  BY LaunchWrites
<1>2. PICK m : m = Len(stream) + 1
  OBVIOUS
<1>3. /\ Len(stream) \in Nat /\ Len(stream') = m /\ stream'[m] = w
      /\ \A i \in 1 .. m : i \in 1 .. Len(stream) \/ i = m
      /\ \A i \in 1 .. Len(stream) :
            /\ i \in 1 .. m /\ stream'[i] = stream[i]
            /\ LiveIn(i, r)' <=> LiveIn(i, r)
            /\ Booking(stream[i], r)' <=> Booking(stream[i], r)
      /\ LiveIn(m, r)' /\ m \in 1 .. m
      /\ \A k \in 1 .. Len(results) : Booking(results[k], r)' <=> Booking(results[k], r)
      /\ req'[r] = n
  BY <1>2, LaunchShift
<1>4. /\ Tracking(w) <=> off > 0 /\ advance
      /\ Tracking(w) => w.track = n.buffer[n.last] /\ n.tracked = w.from + w.off
      /\ ~Tracking(w) => n.tracked = q.tracked
      /\ w.dst = n.mamba_pool_idx /\ w.from = q.pos /\ w.r = r
      /\ w.clear = clear /\ w.cow = cow /\ w.extend = advance
      /\ n.lock = q.lock
  <2>1. NewForwardFields(r, q, free, off, clear, cow, advance, n, w)
    BY NewForward, Zenon
  <2> QED
    BY <2>1 DEF NewForwardFields
<1>5. /\ ~Running(r) /\ advance /\ q.tracked = 0
      /\ q.pos = Len(q.lock) /\ q.lock = FirstN(r, q.pos)
      /\ q.lock # <<>> => q.lock \in DOMAIN cache
      /\ clear <=> q.lock = <<>>
      /\ cow = IF q.lock = <<>> THEN None ELSE cache[q.lock]
  BY DEF Starting
<1>6. Fresh(w) /\ (w.clear => w.from = 0)
  <2>1. q.lock # <<>> => cow # None
    BY <1>5, CacheRange, ConstantFacts
  <2>2. q.lock = <<>> => q.pos = 0
    BY <1>5, EmptySeq
  <2> QED
    BY <1>4, <1>5, <2>1, <2>2 DEF Fresh
<1>7. /\ \A i \in 1 .. Len(stream) : ~LiveIn(i, r) /\ ~Booking(stream[i], r)
      /\ \A k \in 1 .. Len(results) : ~Booking(results[k], r)
  <2>1. ASSUME NEW x, x.idx \in ReqSlots, x.r = r
        PROVE  ~Live(x)
    BY <1>5, <2>1, ConstantFacts DEF Live, Running
  <2>2. /\ \A i \in 1 .. Len(stream) : stream[i].idx \in ReqSlots
        /\ \A k \in 1 .. Len(results) : results[k].idx \in ReqSlots
    BY SlotFacts DEF WorkFields, ResultFields
  <2> QED
    BY <2>1, <2>2 DEF LiveIn, Booking
<1>8. Settled(r)'
  <2>1. ~(\A i \in 1 .. Len(stream') : ~LiveIn(i, r)')
    BY <1>3
  <2>2. ~(/\ req'[r].tracked # 0
          /\ \A i \in 1 .. Len(stream') : ~(LiveIn(i, r)' /\ Tracking(stream'[i])))
    BY <1>3, <1>4, <1>5
  <2>3. \A k \in 1 .. Len(results') : ~Booking(results[k], r)'
    BY <1>1, <1>3, <1>7
  <2> QED
    BY <2>1, <2>2, <2>3 DEF Settled
<1>9. LiveSound(stream[m])' /\ Ready(m)'
  <2>1. w.cow # None => /\ n.lock \in DOMAIN cache /\ cache[n.lock] = w.cow
                        /\ n.lock = FirstN(r, w.from)
    BY <1>4, <1>5
  <2>2. ~(~w.extend /\ w.off > 0)
    BY <1>4, <1>5
  <2>3. LiveSound(stream[m])'
    BY <1>1, <1>3, <1>4, <1>6, <2>1, <2>2 DEF LiveSound, Tracking
  <2>4. Ready(m)'
    BY <1>3, <1>6 DEF Ready, Fresh
  <2> QED
    BY <2>3, <2>4
<1>10. ASSUME NEW i \in 1 .. Len(stream)
       PROVE  ~LiveIn(i, r)' /\ Spares(i, r)'
  <2>1. m \in (i + 1) .. m /\ \A j \in 1 .. (i - 1) : j \in 1 .. Len(stream)
    BY <1>2, <1>3
  <2>2. Fresh(stream[m])' /\ LiveIn(m, r)'
    BY <1>3, <1>6 DEF Fresh
  <2>3. req'[r].tracked # 0 => Tracking(stream[m])'
    BY <1>3, <1>4, <1>5 DEF Tracking
  <2>4. /\ \A k \in 1 .. Len(results') : ~Booking(results[k], r)'
        /\ \A j \in 1 .. (i - 1) : ~Booking(stream[j], r)'
    BY <1>1, <1>3, <1>7, <2>1
  <2> QED
    BY <1>3, <1>7, <2>1, <2>2, <2>3, <2>4 DEF Spares
<1> QED
  <2>1. \A i \in 1 .. Len(stream') :
            IF LiveIn(i, r)' THEN LiveSound(stream[i])' /\ Ready(i)' ELSE Spares(i, r)'
    BY <1>3, <1>9, <1>10
  <2> QED
    BY <1>8, <2>1 DEF Sound

\* The invariant after a step, from its parts.
LEMMA ContentAfter ==
    ASSUME SlotInv', CachedTrue', ForwardsSound', \A t \in Reqs : Sound(t)'
    PROVE  ContentInv'
<1>1. (SlotInv => (ContentInv <=> CachedTrue /\ ForwardsSound /\ \A r \in Reqs : Sound(r)))'
  BY ContentParts, PTL
<1> QED
  BY <1>1

\* A launch keeps the invariant.
LEMMA LaunchContent ==
    ASSUME SlotInv, SlotInv', ContentInv, NEW r \in Reqs, NEW q, NEW free, NEW to, NEW off,
           NEW clear, NEW cow, NEW advance \in BOOLEAN, NEW n, NEW w,
           Launched(r, q, free, to, off, clear, cow, advance, n, w),
           \/ Continuing(r, q, to, clear, cow, advance)
           \/ Starting(r, q, clear, cow, advance)
    PROVE  ContentInv'
<1>1. CachedTrue /\ ForwardsSound
  BY ContentParts
<1>2. /\ Writes(w)' \subseteq Held(n) /\ Held(n) \cap CachedSlots = {}
      /\ q.mamba_pool_idx \in Held(n)
      /\ \A i \in 1 .. Len(stream) :
            Writes(stream[i])' \subseteq Writes(stream[i]) \cup {q.mamba_pool_idx}
      /\ CachedSlots' = CachedSlots /\ Int8' = Int8
      /\ UNCHANGED <<config, cache, mamba, ckpt, results>>
  BY LaunchWrites
<1>3. CachedTrue'
  BY <1>1, <1>2 DEF CachedTrue
<1>4. ForwardsSound'
  <2>1. /\ Len(stream) \in Nat /\ Len(stream') = Len(stream) + 1
        /\ stream'[Len(stream) + 1] = w
        /\ \A i \in 1 .. Len(stream') : i \in 1 .. Len(stream) \/ i = Len(stream) + 1
        /\ \A i \in 1 .. Len(stream) : stream'[i] = stream[i]
    BY LaunchShift
  <2>2. WorkSound(w)
    <3>1. NewForwardFields(r, q, free, off, clear, cow, advance, n, w)
      BY NewForward, Zenon
    <3> QED
      BY <3>1 DEF NewForwardFields
  <2>3. ASSUME NEW i \in 1 .. Len(stream)
        PROVE  WorkSound(stream[i])' /\ Writes(stream[i])' \cap CachedSlots' = {}
    <3>1. WorkSound(stream[i])'
      BY <1>1, <2>1 DEF ForwardsSound, WorkSound, Fresh
    <3>2. /\ Writes(stream[i]) \cap CachedSlots = {}
          /\ Writes(stream[i])' \subseteq Writes(stream[i]) \cup {q.mamba_pool_idx}
      BY <1>1, <1>2 DEF ForwardsSound
    <3> QED
      BY <1>2, <3>1, <3>2
  <2>4. ASSUME NEW i, i = Len(stream) + 1
        PROVE  WorkSound(stream[i])' /\ Writes(stream[i])' \cap CachedSlots' = {}
    <3>1. stream'[i] = w
      BY <2>1, <2>4
    <3>2. WorkSound(stream[i])'
      BY <2>2, <3>1 DEF WorkSound, Fresh
    <3>3. Writes(stream[i])' = Writes(w)'
      BY <3>1 DEF Writes, Fresh
    <3> QED
      BY <1>2, <3>2, <3>3
  <2> QED
    BY <2>1, <2>3, <2>4 DEF ForwardsSound
<1>5. ASSUME NEW t \in Reqs
      PROVE  Sound(t)'
  <2>1. CASE t = r
    BY <2>1, LaunchContinued, LaunchStarted, Zenon
  <2>2. CASE t # r
    BY <2>2, LaunchOthers, Zenon
  <2> QED
    BY <2>1, <2>2
<1> QED
  BY <1>3, <1>4, <1>5, ContentAfter


LEMMA LaunchFirstContent ==
    ASSUME SlotInv, ContentInv, SlotInv', NEW r \in Reqs, LaunchFirst(r)
    PROVE  ContentInv'
<1>1. PICK q, free, to, off, clear, cow, n, w :
         /\ Launched(r, q, free, to, off, clear, cow, TRUE, n, w)
         /\ ~Running(r) /\ free \cup Held(q) = mamba_free
         /\ q.pos = Len(q.lock) /\ q.lock = FirstN(r, q.pos)
         /\ clear <=> q.lock = <<>>
         /\ cow = IF q.lock = <<>> THEN None ELSE cache[q.lock]
         /\ q.lock # <<>> => q.lock \in DOMAIN cache
         /\ q.req_pool_idx = free_slots[Len(free_slots)]
         /\ q.tracked = 0
  BY FirstLaunched, Zenon
<1> DEFINE advance == TRUE
<1>2. advance \in BOOLEAN /\ advance
  OBVIOUS
<1>3. Launched(r, q, free, to, off, clear, cow, advance, n, w)
  BY <1>1
<1> HIDE DEF advance
<1>4. Starting(r, q, clear, cow, advance)
  BY <1>1, <1>2 DEF Starting
<1> QED
  BY ONLY SlotInv, ContentInv, SlotInv', r \in Reqs, <1>2, <1>3, <1>4, LaunchContent, Zenon

LEMMA LaunchLaterContent ==
    ASSUME SlotInv, ContentInv, SlotInv', NEW r \in Reqs, LaunchChunk(r) \/ LaunchDecode(r)
    PROVE  ContentInv'
<1> DEFINE clear == FALSE
<1>0. ~clear
  OBVIOUS
<1>1. \E q, to, off, advance, n, w :
         /\ Launched(r, q, mamba_free, to, off, clear, None, advance, n, w)
         /\ q = req[r] /\ Running(r) /\ advance \in BOOLEAN
         /\ ~advance => to = q.pos + 1
  <2>1. CASE LaunchChunk(r)
    <3> DEFINE advance == TRUE
    <3>1. Running(r) /\ \E to, off, n, w :
             Launched(r, req[r], mamba_free, to, off, clear, None, advance, n, w)
      BY <2>1, ChunkLaunched
    <3>2. advance \in BOOLEAN /\ advance
      OBVIOUS
    <3> HIDE DEF advance, clear
    <3> QED
      BY <3>1, <3>2
  <2>2. CASE LaunchDecode(r)
    <3> DEFINE advance == FALSE
    <3>1. Running(r) /\ \E to, off, n, w :
             /\ Launched(r, req[r], mamba_free, to, off, clear, None, advance, n, w)
             /\ to = req[r].pos + 1
      BY <2>2, DecodeLaunched
    <3>2. advance \in BOOLEAN
      OBVIOUS
    <3> HIDE DEF advance, clear
    <3> QED
      BY <3>1, <3>2
  <2> QED
    BY <2>1, <2>2
<1> HIDE DEF clear
<1>2. PICK q, to, off, advance, n, w :
         /\ Launched(r, q, mamba_free, to, off, clear, None, advance, n, w)
         /\ q = req[r] /\ Running(r) /\ advance \in BOOLEAN
         /\ ~advance => to = q.pos + 1
  BY <1>1
<1>3. Continuing(r, q, to, clear, None, advance)
  BY <1>0, <1>2 DEF Continuing
<1>4. /\ Launched(r, q, mamba_free, to, off, clear, None, advance, n, w)
      /\ advance \in BOOLEAN
  BY <1>2
<1> QED
  BY ONLY SlotInv, ContentInv, SlotInv', r \in Reqs, <1>3, <1>4, LaunchContent, Zenon

-----------------------------------------------------------------------------
(* The contents of the slots are right in every behaviour. *)

\* No request runs, nothing is cached and no forward is in flight.
LEMMA EmptyContent ==
    SlotInv /\ stream = <<>> /\ results = <<>> /\ cache = <<>> /\ (\A r \in Reqs : ~Running(r))
      => ContentInv
<1> SUFFICES ASSUME SlotInv, stream = <<>>, results = <<>>, cache = <<>>,
                    \A r \in Reqs : ~Running(r)
             PROVE  ContentInv
  OBVIOUS
<1>1. Len(stream) = 0 /\ DOMAIN cache = {}
  OBVIOUS
<1> QED
  BY <1>1 DEF ContentInv, CachedTrue, StreamSound, Interference

LEMMA ContentInit == Init => ContentInv
<1> SUFFICES ASSUME Init PROVE ContentInv
  OBVIOUS
<1>1. SlotInv /\ stream = <<>> /\ results = <<>> /\ cache = <<>>
  BY SlotInvInit DEF Init
<1>2. \A r \in Reqs : ~Running(r)
  BY DEF Init, Running, Idle
<1> QED
  BY <1>1, <1>2, EmptyContent

LEMMA FlushContent ==
    ASSUME SlotInv, SlotInv', Flush
    PROVE  ContentInv'
<1>1. stream' = <<>> /\ results' = <<>> /\ cache' = <<>>
  <2>1. Len(stream) = 0 /\ Len(results) = 0
    BY FlightTypes DEF SlotInv, Flush
  <2> QED
    BY <2>1, EmptySeq DEF SlotInv, Types, Flush
<1>2. (\A r \in Reqs : ~Running(r))'
  BY DEF Flush, Running, Idle
<1>3. (SlotInv /\ stream = <<>> /\ results = <<>> /\ cache = <<>> /\ (\A r \in Reqs : ~Running(r))
          => ContentInv)'
  BY EmptyContent, PTL
<1> QED
  BY <1>1, <1>2, <1>3

LEMMA StutterContent ==
    ASSUME SlotInv, ContentInv, UNCHANGED vars
    PROVE  ContentInv'
<1>1. UNCHANGED <<config, req, req_generation, mamba_map, cache, mamba, ckpt, stream, results>>
  BY DEF vars, poolVars, stateVars
<1>2. /\ Int8' = Int8 /\ BufferSize' = BufferSize /\ CachedSlots' = CachedSlots
      /\ \A w : (Live(w)' <=> Live(w)) /\ (Fresh(w)' <=> Fresh(w)) /\ (Tracking(w)' <=> Tracking(w))
      /\ \A w : Writes(w)' = Writes(w)
      /\ \A r : Running(r)' <=> Running(r)
  BY <1>1 DEF Int8, BufferSize, Overlap, CachedSlots, Live, Fresh, Tracking, Writes, Running
<1>3. /\ \A i, r : LiveIn(i, r)' <=> LiveIn(i, r)
      /\ \A w, r : Booking(w, r)' <=> Booking(w, r)
  BY <1>1, <1>2 DEF LiveIn, Booking
<1>4. CachedTrue'
  BY <1>1, <1>2 DEF ContentInv, CachedTrue
<1>5. StreamSound'
  <2>1. \A i : Ready(i)' <=> Ready(i)
    BY <1>1, <1>2, <1>3 DEF Ready, Holds, Fresh
  <2>2. \A w : (WorkSound(w)' <=> WorkSound(w)) /\ (LiveSound(w)' <=> LiveSound(w))
    BY <1>1 DEF WorkSound, LiveSound, Fresh, Tracking
  <2> QED
    BY <1>1, <1>2, <2>1, <2>2 DEF ContentInv, StreamSound, Live
<1>6. \A r : Settled(r)' <=> Settled(r)
  BY <1>1, <1>2, <1>3, SMTT(60) DEF Settled, Holds, Tracking, Booking, Live
<1>7. \A i, r : Spares(i, r)' <=> Spares(i, r)
  BY ONLY <1>1, <1>2, <1>3, SMTT(60) DEF Spares, Fresh, Tracking, Booking, Live, Writes
<1>8. Interference'
  BY <1>1, <1>2, <1>3, <1>7 DEF ContentInv, Interference, Writes, Fresh
<1> QED
  BY <1>2, <1>4, <1>5, <1>6, <1>8 DEF ContentInv

LEMMA ContentStep == SlotInv /\ SlotInv' /\ ContentInv /\ [Next]_vars => ContentInv'
<1> SUFFICES ASSUME SlotInv, SlotInv', ContentInv, [Next]_vars PROVE ContentInv'
  OBVIOUS
<1>1. CASE \E r \in Reqs : LaunchFirst(r)
  BY <1>1, LaunchFirstContent
<1>2. CASE \E r \in Reqs : LaunchChunk(r) \/ LaunchDecode(r)
  BY <1>2, LaunchLaterContent
<1>3. CASE Execute
  BY <1>3, ExecuteContent
<1>4. CASE DropStale
  BY <1>4, DropStaleContent
<1>5. CASE CacheUnfinished
  BY <1>5, CacheUnfinishedContent
<1>6. CASE ContinueDecode
  BY <1>6, ContinueDecodeContent
<1>7. CASE Finish
  BY <1>7, FinishContent
<1>8. CASE \E r \in Reqs : Retract(r)
  BY <1>8, RetractContent
<1>9. CASE \E p \in DOMAIN cache : Evict(p)
  BY <1>9, EvictContent
<1>10. CASE Flush
  BY <1>10, FlushContent
<1>11. CASE UNCHANGED vars
  BY <1>11, StutterContent
<1> QED
  BY <1>1, <1>2, <1>3, <1>4, <1>5, <1>6, <1>7, <1>8, <1>9, <1>10, <1>11 DEF Next

LEMMA ContentInvAlways == Spec => [](SlotInv /\ ContentInv)
<1>1. Init => ContentInv
  BY ContentInit
<1>2. SlotInv /\ SlotInv' /\ ContentInv /\ [Next]_vars => ContentInv'
  BY ContentStep
<1> QED
  BY <1>1, <1>2, SlotInvAlways, PTL DEF Spec

\* A cached checkpoint of a prefix holds exactly that prefix, in the recurrent
\* state and in the side states, whoever owned its slot before and whatever stale
\* forward still runs (donate_mamba_ping_pong_slot, store_from_active, the track
\* targets of the PLE layers).
THEOREM CachedTrueAlways == Spec => []CachedTrue
<1>1. SlotInv /\ ContentInv => CachedTrue
  BY DEF ContentInv
<1> QED
  BY <1>1, ContentInvAlways, PTL

\* A running request whose forwards have all executed has exactly its tokens in its
\* slot: the deferred clear or copy came after the last write of the owner before
\* (_maybe_execute_deferred_mamba_cow_and_clear).
THEOREM RunningTrueAlways == Spec => []RunningTrue
<1>1. SlotInv /\ ContentInv => RunningTrue
  <2> SUFFICES ASSUME SlotInv, ContentInv, NEW r \in Reqs,
                      req[r].req_pool_idx # None, ~WorkOf(r, stream), NEW c \in Components
               PROVE  mamba[req[r].mamba_pool_idx][c] = FirstN(r, req[r].pos)
    BY DEF RunningTrue
  <2>1. Settled(r)
    BY DEF ContentInv, Running
  <2>2. \A i \in 1 .. Len(stream) : ~LiveIn(i, r)
    BY DEF WorkOf, LiveIn
  <2> QED
    BY <2>1, <2>2 DEF Settled, Holds
<1> QED
  BY <1>1, ContentInvAlways, PTL

\* No forward in flight, stale or not, has its track slot in the cache: what it
\* snapshots never overwrites a checkpoint (get_mamba_ping_pong_keep_idx keeps the
\* index that is not being written).
THEOREM PingPongAlways == Spec => []PingPong
<1>1. SlotInv /\ ContentInv => PingPong
  <2> SUFFICES ASSUME SlotInv, ContentInv, ~Int8, NEW i \in 1 .. Len(stream),
                      NEW p \in DOMAIN cache, cache[p] = stream[i].track
               PROVE  FALSE
    BY DEF PingPong
  <2>1. cache[p] \in MambaIds /\ cache[p] \in CachedSlots
    BY CacheRange DEF CachedSlots
  <2>2. stream[i].track # Pad
    BY <2>1, ConstantFacts
  <2>3. stream[i].track \in Writes(stream[i])
    BY <2>2 DEF Writes
  <2> QED
    BY <2>1, <2>3 DEF ContentInv, Interference
<1> QED
  BY <1>1, ContentInvAlways, PTL
=============================================================================
