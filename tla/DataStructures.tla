--------------------------- MODULE DataStructures ---------------------------
(*******************************************************************************)
(* Values and where they are kept: packages id, collections and probabilistic. *)
(*******************************************************************************)
EXTENDS Integers, Sequences, SequencesExt, FiniteSets

VARIABLES store, proc, seen   \* what they hold is said in each part

vars == <<store, proc, seen>>

-----------------------------------------------------------------------------
(***************************************************************************)
(* )                                                                       *)
(***************************************************************************)
CONSTANTS
    Generators,              \* a function to [kind, machine]
    MachineBits, SequenceBits, TimeBits, TickBits,
    Fractions,               \* clock readings per millisecond
    Epoch, Clock,            \* what the clock may read, in fractions
    Payloads,                \* what the entropy source gives
    CodeBits, ByteBits, TimeBytes, TotalBytes,
    MaxIssued                \* bound

(* Package id: generators that share a clock which other programs may set    *)
(* back, and an entropy source that may fail. A call holds its generator's   *)
(* mutex, so it is one step. Bit widths are scaled down: the arithmetic of   *)
(* the shifts and masks is kept.                                             *)
(***************************************************************************)

Kinds == {"snowflake", "uuidv7", "ulid", "ksuid", "ksuidMillis"}
Of(kind) == {g \in DOMAIN Generators : Generators[g].kind = kind}
NoId == [id |-> -1, at |-> -1]

maxOf(bits) == 2^bits - 1

\* NewSnowflakeGenerator: a machine id beyond its bits is refused.
NewSnowflakeGenerator(machine) == machine \in 0 .. maxOf(MachineBits)

InitIds ==
    /\ store = [g \in DOMAIN Generators |-> [last |-> -1, sequence |-> 0]]
    /\ proc = 0
    /\ seen = [last |-> [g \in DOMAIN Generators |-> NoId], calls |-> 0, parsed |-> TRUE]

TypeOKIds == \A g \in DOMAIN Generators : store[g].last \in -1 .. maxOf(TimeBits + TickBits) /\ store[g].sequence \in 0 .. maxOf(SequenceBits)

\* The clock is set, forwards or backwards.
SetClock(t) == t # proc /\ proc' = t /\ UNCHANGED <<store, seen>>

milli(t) == t \div Fractions

Issued(g, id) ==
    seen' = [seen EXCEPT !.calls = @ + 1, !.last[g] = [id |-> id, at |-> proc]]
Failed == seen' = [seen EXCEPT !.calls = @ + 1]

-----------------------------------------------------------------------------
(* Snowflake                                                               *)

\* The new last millisecond and sequence, or none: before the epoch, out of range, set back, sequence exhausted.
nextSequenceWrapped(s, now) ==
    IF now < 0 \/ now > maxOf(TimeBits) \/ now < s.last THEN {}
    ELSE IF now = s.last THEN {[s EXCEPT !.sequence = (@ + 1) % 2^SequenceBits]}
    ELSE {[last |-> now, sequence |-> 0]}

nextSequence(s, now) ==
    IF now < 0 \/ now > maxOf(TimeBits) \/ now < s.last THEN {}
    ELSE IF now = s.last THEN (IF s.sequence = maxOf(SequenceBits) THEN {} ELSE {[s EXCEPT !.sequence = @ + 1]})
    ELSE {[last |-> now, sequence |-> 0]}

snowflake(s, machine) == s.last * 2^(MachineBits + SequenceBits) + machine * 2^SequenceBits + s.sequence

DecodeSnowflake(id) ==
    [time |-> id \div 2^(MachineBits + SequenceBits), machine |-> (id \div 2^SequenceBits) % 2^MachineBits, sequence |-> id % 2^SequenceBits]

NextInt64(g) ==
    LET next == nextSequence(store[g], milli(proc) - Epoch)
    IN  /\ IF next = {} THEN Failed /\ UNCHANGED store
           ELSE \E s \in next : store' = [store EXCEPT ![g] = s] /\ Issued(g, snowflake(s, Generators[g].machine))

-----------------------------------------------------------------------------
(* UUID v7                                                                 *)

uuidV7Tick(t) == IF milli(t) < 0 \/ milli(t) > maxOf(TimeBits) THEN -1 ELSE milli(t) * 2^TickBits + (t % Fractions)

\* A tick that is not after the last one is moved on from it; it is kept only when entropy could be read.
nextTickAtLeast(g) == IF uuidV7Tick(proc) < store[g].last THEN store[g].last ELSE uuidV7Tick(proc)
nextTick(g) == IF uuidV7Tick(proc) <= store[g].last THEN store[g].last + 1 ELSE uuidV7Tick(proc)

nextV7(g, entropy) ==
    IF uuidV7Tick(proc) = -1 \/ nextTick(g) > maxOf(TimeBits + TickBits) \/ entropy = -1 THEN Failed /\ UNCHANGED store
    ELSE store' = [store EXCEPT ![g].last = nextTick(g)] /\ Issued(g, nextTick(g))

-----------------------------------------------------------------------------
(* ULID, KSUID and KSUID with milliseconds                                 *)

\* The monotonic entropy of the ulid library: within one millisecond the entropy grows, up to its limit.
monotonic(s, ms, entropy) ==
    IF ms = s.last THEN (IF s.sequence = maxOf(SequenceBits) THEN {} ELSE {[s EXCEPT !.sequence = @ + 1]})
    ELSE {[last |-> ms, sequence |-> entropy]}

NextULID(g, entropy) ==
    LET next == IF entropy = -1 \/ milli(proc) < 0 THEN {} ELSE monotonic(store[g], milli(proc), entropy)
    IN  IF next = {} THEN Failed /\ UNCHANGED store
        ELSE \E s \in next : store' = [store EXCEPT ![g] = s] /\ Issued(g, s.last * 2^SequenceBits + s.sequence)

\* An id without state: its time, and a payload that need not differ.
NextKSUID(g, entropy) ==
    /\ UNCHANGED store
    /\ IF entropy = -1 \/ milli(proc) - Epoch < 0 \/ milli(proc) - Epoch > maxOf(TimeBits) THEN Failed
       ELSE Issued(g, (milli(proc) - Epoch) * 2^SequenceBits + entropy)

bitsOf(n, width) == [i \in 1 .. width |-> (n \div 2^(i - 1)) % 2]
numberOf(bits) == FoldLeft(LAMBDA acc, i : acc + bits[i] * 2^(i - 1), 0, [i \in DOMAIN bits |-> i])

\* A group whose middle bits are all ones takes one bit less, so that no code needs more than the alphabet has.
compact(code) == \A i \in 2 .. CodeBits - 1 : code[i] = 1

\* Bits that lie past the end of the data read as zero.
readBits(data, offset) == [i \in 1 .. CodeBits |-> IF offset + i <= Len(data) THEN data[offset + i] ELSE 0]

encodedLen == (TotalBytes * ByteBits + CodeBits - 1) \div CodeBits

encodeBase62(data) ==
    LET chars[n \in 0 .. encodedLen] ==
            IF n = 0 THEN [out |-> <<>>, offset |-> 0]
            ELSE LET before == chars[n - 1]
                     raw == readBits(data, before.offset)
                 IN  IF before.offset >= Len(data) THEN before
                     ELSE IF compact(raw) THEN [out |-> Append(before.out, Append(SubSeq(raw, 1, CodeBits - 1), 0)), offset |-> before.offset + CodeBits - 1]
                     ELSE [out |-> Append(before.out, raw), offset |-> before.offset + CodeBits]
    IN  chars[encodedLen].out

upToByte(bits) == (ByteBits - (Len(bits) % ByteBits)) % ByteBits

decodeFull(value) == FoldLeft(LAMBDA out, code : out \o code, <<>>, value)

\* The last code only fills the byte that is open; a compact one always gives all its bits.
decodeBase62(value) ==
    FoldLeft(LAMBDA out, i : out \o SubSeq(value[i], 1, IF compact(value[i]) THEN CodeBits - 1
                                                        ELSE IF i = Len(value) THEN upToByte(out) ELSE CodeBits),
             <<>>, [i \in DOMAIN value |-> i])

KSUIDMillisTime(value) == numberOf(SubSeq(decodeBase62(value), 1, TimeBytes * ByteBits))

\* The time may be before the epoch: its offset is then a large number of the width of the timestamp.
NextKSUIDMillis(g, entropy) ==
    /\ UNCHANGED store
    /\ IF entropy = -1 THEN Failed
       ELSE LET stamp == (milli(proc) - Epoch) % 2^(TimeBytes * ByteBits)
                value == encodeBase62(bitsOf(stamp, TimeBytes * ByteBits) \o bitsOf(entropy, (TotalBytes - TimeBytes) * ByteBits))
            IN  seen' = [seen EXCEPT !.calls = @ + 1, !.parsed = Len(value) <= encodedLen /\ KSUIDMillisTime(value) = stamp]

NextIds ==
    \/ \E t \in Clock : SetClock(t)
    \/ /\ seen.calls < MaxIssued /\ proc' = proc
       /\ \/ \E g \in Of("snowflake") : NextInt64(g)
          \/ \E g \in Of("uuidv7"), e \in {-1, 0} : nextV7(g, e)
          \/ \E g \in Of("ulid"), e \in {-1, 0, 1} : NextULID(g, e)
          \/ \E g \in Of("ksuid"), e \in {-1, 0} : NextKSUID(g, e)
          \/ \E g \in Of("ksuidMillis"), e \in Payloads : NextKSUIDMillis(g, e)

-----------------------------------------------------------------------------
(* Properties                                                              *)

\* However the clock is moved and entropy fails, a snowflake or UUID v7 generator never gives an id that is not larger
\* than its last one; a monotonic ULID generator gives larger ones within a millisecond.
Grows ==
    \A g \in Of("snowflake") \cup Of("uuidv7") \cup Of("ulid") :
        seen'.last[g] # seen.last[g] => \/ seen'.last[g].id > seen.last[g].id
                                        \/ Generators[g].kind = "ulid" /\ milli(seen'.last[g].at) # milli(seen.last[g].at)

\* An id carries its time: a snowflake decodes to the clock that it was made at and its machine, a UUID v7 is never
\* behind the clock, and a KSUID with milliseconds that was cut to its length still decodes to its timestamp.
TimesCarried ==
    /\ \A g \in Of("snowflake") : seen.last[g] # NoId =>
           DecodeSnowflake(seen.last[g].id).time = milli(seen.last[g].at) - Epoch /\ DecodeSnowflake(seen.last[g].id).machine = Generators[g].machine
    /\ \A g \in Of("uuidv7") : seen.last[g] # NoId => seen.last[g].id >= uuidV7Tick(seen.last[g].at)
    /\ seen.parsed

\* Two machines never give the same snowflake.
MachinesApart == \A g, h \in Of("snowflake") : g # h /\ seen.last[g] # NoId => seen.last[g].id # seen.last[h].id

-----------------------------------------------------------------------------
(***************************************************************************)
(* )                                                                       *)
(***************************************************************************)
CONSTANTS
    Values, Capacity, MaxCalls, Sizes,
    MaxInt                   \* stands for math.MaxInt64

\* store: the stack's slice; the ring's array, start and length.
\* proc: the number of calls so far.
\* seen: history: the values added to both, and the ring's content as a plain sequence.

(* Package collections: BoundedStack and RingBuffer as the slices and        *)
(* indexes that the code keeps, driven by the same calls, and the functions  *)
(* on slices, applied to the sequence of all values added so far.            *)
(***************************************************************************)

Zero == 0

InitBuffers ==
    /\ store = [stack |-> <<>>, ring |-> [i \in 0 .. Capacity - 1 |-> Zero], start |-> 0, length |-> 0]
    /\ proc = 0
    /\ seen = [added |-> <<>>, stack |-> <<>>, ring |-> <<>>]

\* The ring's indexes lie in its array, and slots outside its content hold no value (so that none is kept alive).
TypeOKBuffers ==
    /\ store.start \in 0 .. Capacity - 1 /\ store.length \in 0 .. Capacity /\ Len(store.stack) <= Capacity
    /\ \A i \in store.length .. Capacity - 1 : store.ring[(store.start + i) % Capacity] = Zero

-----------------------------------------------------------------------------
LastOf(s) == IF Len(s) > Capacity THEN SubSeq(s, Len(s) - Capacity + 1, Len(s)) ELSE s

(* BoundedStack                                                            *)

\* A full stack forgets its oldest value.
pushed(stack, v) == LastOf(Append(stack, v))

popped(stack) == IF stack = <<>> THEN stack ELSE SubSeq(stack, 1, Len(stack) - 1)

\* At counts from the top, as Values does.
stackAt(stack, index) == stack[Len(stack) - index]
stackValues(stack) == [i \in 1 .. Len(stack) |-> stackAt(stack, i - 1)]

-----------------------------------------------------------------------------
(* RingBuffer                                                              *)

ringAddAtStart(s, v) == [s EXCEPT !.ring[s.start] = v]

\* Add to a ring that is full overwrites the oldest value and moves the start.
ringAddFull(s, v) == [s EXCEPT !.ring[s.start] = v, !.start = (s.start + 1) % Capacity]

ringAdd(s, v) ==
    IF s.length < Capacity
    THEN [s EXCEPT !.ring[(s.start + s.length) % Capacity] = v, !.length = @ + 1]
    ELSE ringAddFull(s, v)

ringAt(s, index) == s.ring[(s.start + index) % Capacity]
ringValues(s) == [i \in 1 .. s.length |-> ringAt(s, i - 1)]

\* The first n slots from the start are zeroed.
ringZeroed(s, n) == [i \in 0 .. Capacity - 1 |-> IF \E k \in 0 .. n - 1 : i = (s.start + k) % Capacity THEN Zero ELSE s.ring[i]]

ringClear(s) == [s EXCEPT !.ring = ringZeroed(s, s.length), !.start = 0, !.length = 0]

ringDrop(s, n) ==
    IF n >= s.length THEN ringClear(s)
    ELSE [s EXCEPT !.ring = ringZeroed(s, n), !.start = (s.start + n) % Capacity, !.length = @ - n]

-----------------------------------------------------------------------------
Called == proc < MaxCalls /\ proc' = proc + 1

Add(v) ==
    /\ Called
    /\ store' = ringAdd([store EXCEPT !.stack = pushed(@, v)], v)
    /\ seen' = [added |-> Append(seen.added, v), stack |-> Append(seen.stack, v), ring |-> Append(seen.ring, v)]

Pop ==
    /\ Called /\ store.stack # <<>>
    /\ store' = [store EXCEPT !.stack = popped(@)]
    /\ seen' = [seen EXCEPT !.stack = Front(LastOf(@))]

\* Drop n of the ring and clear the stack.
Drop(n) ==
    /\ Called
    /\ store' = ringDrop([store EXCEPT !.stack = <<>>], n)
    /\ seen' = [seen EXCEPT !.stack = <<>>, !.ring = SubSeq(LastOf(@), n + 1, Len(LastOf(@)))]

NextBuffers == (\E v \in Values : Add(v)) \/ Pop \/ \E n \in 1 .. Capacity : Drop(n)

-----------------------------------------------------------------------------
(* Slices                                                                  *)

min(a, b) == IF a < b THEN a ELSE b

chunkFull(values, size) == [k \in 1 .. Len(values) \div size |-> SubSeq(values, (k - 1) * size + 1, k * size)]

Chunk(values, size) == [k \in 1 .. (Len(values) + size - 1) \div size |-> SubSeq(values, (k - 1) * size + 1, min(k * size, Len(values)))]

Sliding(values, size, partial) ==
    [start \in 1 .. (IF partial THEN Len(values) ELSE Len(values) - size + 1) |-> SubSeq(values, start, min(start + size - 1, Len(values)))]

\* A chunk ends before each value that starts a new one; the first value always does.
ChunkBy(values, starting) ==
    LET starts == SetToSortSeq({i \in DOMAIN values : i = 1 \/ values[i] \in starting}, <)
    IN  [k \in DOMAIN starts |-> SubSeq(values, starts[k], IF k = Len(starts) THEN Len(values) ELSE starts[k + 1] - 1)]

SafeSubslice(values, from, to) ==
    LET f == min(IF from < 0 THEN 0 ELSE from, Len(values))
        t == min(IF to < f THEN f ELSE to, Len(values))
    IN  SubSeq(values, f + 1, t)

PadTo(values, size, item) == values \o [i \in 1 .. (IF size > Len(values) THEN size - Len(values) ELSE 0) |-> item]

DistinctBy(values, key) == FoldLeft(LAMBDA acc, v : IF key[v] \in {key[acc[i]] : i \in DOMAIN acc} THEN acc ELSE Append(acc, v), <<>>, values)

GroupBy(values, key) == [k \in {key[values[i]] : i \in DOMAIN values} |-> SelectSeq(values, LAMBDA v : key[v] = k)]
CountBy(values, key) == [k \in DOMAIN GroupBy(values, key) |-> Len(GroupBy(values, key)[k])]

ZipWithIndex(values) == [i \in DOMAIN values |-> <<i - 1, values[i]>>]

\* A callback is the set of values it is true of or fails on, or the function it computes.
\* MapErr and FilterErr give nothing when one value fails; ForEachErr has then gone through the values before it.
failing(values, fails) == {i \in DOMAIN values : values[i] \in fails}
ForEachErr(values, fails) == SubSeq(values, 1, IF failing(values, fails) = {} THEN Len(values) ELSE Min(failing(values, fails)))
MapErr(values, fails, f) == IF failing(values, fails) = {} THEN [i \in DOMAIN values |-> f[values[i]]] ELSE <<>>
FilterErr(values, fails, keeps) == IF failing(values, fails) = {} THEN SelectSeq(values, LAMBDA v : v \in keeps) ELSE <<>>
FilterMap(values, keeps, f) == LET kept == SelectSeq(values, LAMBDA v : v \in keeps) IN [i \in DOMAIN kept |-> f[kept[i]]]

\* Swapping each later value into place, with the swap undone afterwards: generate[k] for the last k places.
swap(w, i, j) == [w EXCEPT ![i] = w[j], ![j] = w[i]]

PermutationsOf(values) ==
    LET n == Len(values)
        generate[k \in 0 .. n, w \in [1 .. n -> ToSet(values)]] ==
            IF k = 0 THEN <<w>>
            ELSE FlattenSeq([i \in 1 .. k |-> generate[k - 1, swap(w, n - k + 1, n - k + i)]])
    IN  generate[n, values]

-----------------------------------------------------------------------------
(* Pages                                                                   *)

\* PageOf refuses an offset that would overflow.
PageOf(page, size, total) == page >= 0 /\ size > 0 /\ total >= 0 /\ page <= MaxInt \div size
Offset(page, size) == page * size
totalPagesFull(size, total) == total \div size + 1

TotalPages(size, total) == total \div size + (IF total % size # 0 THEN 1 ELSE 0)

HasNext(page, size, total) == TotalPages(size, total) > 0 /\ page < TotalPages(size, total) - 1

-----------------------------------------------------------------------------
(* Properties                                                              *)

\* Through any sequence of calls, the ring is the last Capacity values of a plain queue, and the stack those of a plain
\* stack, although the code wraps around an array and shifts a slice.
BuffersKept == ringValues(store) = LastOf(seen.ring) /\ stackValues(store.stack) = Reverse(LastOf(seen.stack))

\* Cutting a slice up loses nothing: chunks join to the slice and are full but for the last, windows have the length
\* asked for, groups hold every value once, every order of the values is among the permutations.
SlicesPreserve ==
    LET s == seen.added
        same == [v \in ToSet(s) |-> v]
        next == [v \in ToSet(s) |-> v + 1]
        parity == [v \in ToSet(s) |-> v % 2]
    IN  /\ \A n \in Sizes : /\ FlattenSeq(Chunk(s, n)) = s
                            /\ \A k \in 1 .. Len(Chunk(s, n)) - 1 : Len(Chunk(s, n)[k]) = n
                            /\ (n <= Len(s) => Len(Sliding(s, n, FALSE)) = Len(s) - n + 1 /\ \A k \in DOMAIN Sliding(s, n, FALSE) : Len(Sliding(s, n, FALSE)[k]) = n)
                            /\ Len(Sliding(s, n, TRUE)) = Len(s)
                            /\ SubSeq(PadTo(s, n, Zero), 1, Len(s)) = s /\ Len(PadTo(s, n, Zero)) >= n
        /\ FlattenSeq(ChunkBy(s, {1})) = s
        /\ \A from, to \in -1 .. Len(s) + 1 : \E a, b \in 0 .. Len(s) : SafeSubslice(s, from, to) = SubSeq(s, a + 1, b)
        /\ IsInjective(DistinctBy(s, same)) /\ ToSet(DistinctBy(s, same)) = ToSet(s)
        /\ \A k \in DOMAIN CountBy(s, parity) : CountBy(s, parity)[k] = Cardinality({i \in DOMAIN s : parity[s[i]] = k})
        /\ Len(FilterErr(s, {3}, {1})) = IF 3 \in ToSet(s) THEN 0 ELSE Cardinality({i \in DOMAIN s : s[i] = 1})
        /\ MapErr(s, {3}, next) = IF Len(ForEachErr(s, {3})) < Len(s) \/ 3 \in ToSet(s) THEN <<>> ELSE FilterMap(s, ToSet(s), next)
        /\ \A i \in DOMAIN s : ZipWithIndex(s)[i] = <<i - 1, s[i]>>
        /\ Len(s) <= 3 => ToSet(PermutationsOf(s)) = {[i \in 1 .. Len(s) |-> s[p[i]]] : p \in {q \in [1 .. Len(s) -> 1 .. Len(s)] : IsInjective(q)}}

\* An accepted page's offset fits the integers, and a page has a next one exactly when items lie beyond it.
PagesFit ==
    \A size, total \in Sizes, page \in 0 .. 3 :
        PageOf(page, size, total) => /\ Offset(page, size) <= MaxInt
                                     /\ HasNext(page, size, total) <=> (page + 1) * size < total

-----------------------------------------------------------------------------
(***************************************************************************)
(* )                                                                       *)
(***************************************************************************)
CONSTANTS
    Items, Hash,             \* Hash[item]: the two halves of its digest
    HashSize, Fallback,      \* the range of a hash, and what replaces a second half of zero
    Filters,                 \* filters in memory, to their configuration [size, count, hasher]
    Handles,                 \* handles on the Redis namespace, to their configuration
    Callers,                 \* goroutines that call PutAll or the cuckoo filter
    CuckooCapacity, MaxBits

(* Packages probabilistic and probabilistic/redis: Bloom filters in memory   *)
(* behind a lock, Bloom filters of several handles on one Redis namespace    *)
(* through scripts that compare a fingerprint, HyperLogLogs, and a cuckoo    *)
(* filter whose answers may be lost or malformed.                            *)
(***************************************************************************)

NoConfig == [size |-> 0, count |-> 0, hasher |-> 0]
Idle == [pc |-> "idle", op |-> "", item |-> 0, from |-> 0, words |-> {}, reply |-> "", cancelled |-> FALSE, applied |-> FALSE, outcome |-> ""]

\* normalizeConfig and normalizeOptions: what a constructor accepts.
validConfig(c) == c.size > 0 /\ c.count > 0 /\ c.hasher # 0
validOptions(c) == validConfig(c) /\ c.size < MaxBits

hash2(item) == IF Hash[item][2] = 0 THEN Fallback ELSE Hash[item][2]

\* (hash1 + i * hash2) wraps before it is reduced to the filter's size.
Indexes(item, c) == {((Hash[item][1] + i * hash2(item)) % HashSize) % c.size : i \in 0 .. c.count - 1}

InitFilters ==
    /\ store \in [kind : {"memory", "redis", "hll", "cuckoo"}, words : {[f \in DOMAIN Filters |-> {}]}, bitCount : {[f \in DOMAIN Filters |-> 0]},
                  config : {NoConfig}, bits : {{}}, open : {[h \in DOMAIN Handles |-> FALSE]},
                  hll : {[h \in DOMAIN Handles |-> {}]}, reserved : {FALSE}, cuckoo : {[i \in Items |-> 0]}]
    /\ proc = [c \in Callers |-> Idle]
    /\ seen = [memory |-> [f \in DOMAIN Filters |-> {}], redis |-> {}, hll |-> [h \in DOMAIN Handles |-> {}]]

\* The count of set bits that Put keeps up is the number of set bits.
TypeOKFilters ==
    /\ \A f \in DOMAIN Filters : store.words[f] \subseteq 0 .. Filters[f].size - 1 /\ store.bitCount[f] = Cardinality(store.words[f])
    /\ store.config \in {NoConfig} \cup {Handles[h] : h \in DOMAIN Handles}

-----------------------------------------------------------------------------
(* In memory                                                               *)

Put(f, item) ==
    /\ validConfig(Filters[f])
    /\ LET new == Indexes(item, Filters[f]) \ store.words[f]
       IN  store' = [store EXCEPT !.words[f] = @ \cup new, !.bitCount[f] = @ + Cardinality(new)]
    /\ seen' = [seen EXCEPT !.memory[f] = @ \cup {item}]
    /\ UNCHANGED proc

MightContain(f, item) == Indexes(item, Filters[f]) \subseteq store.words[f]

Clear(f) ==
    /\ store.words[f] # {}
    /\ store' = [store EXCEPT !.words[f] = {}, !.bitCount[f] = 0]
    /\ seen' = [seen EXCEPT !.memory[f] = {}]
    /\ UNCHANGED proc

\* PutAll copies the source under its own lock and merges later: a filter merged into itself is left alone.
Snapshot(c, f, source) ==
    /\ proc[c] = Idle /\ f # source
    /\ proc' = [proc EXCEPT ![c] = [Idle EXCEPT !.pc = "merge", !.item = f, !.from = source, !.words = store.words[source]]]
    /\ UNCHANGED <<store, seen>>

compatibleBySize(c, d) == c.size = d.size
compatible(c, d) == c = d

Merge(c) ==
    /\ proc[c].pc = "merge"
    /\ LET f == proc[c].item
           merged == store.words[f] \cup proc[c].words
           ok == compatible(Filters[f], Filters[proc[c].from])
       IN  /\ store' = IF ok THEN [store EXCEPT !.words[f] = merged, !.bitCount[f] = Cardinality(merged)] ELSE store
           /\ seen' = IF ok THEN [seen EXCEPT !.memory[f] = @ \cup {i \in seen.memory[proc[c].from] : Indexes(i, Filters[proc[c].from]) \subseteq proc[c].words}] ELSE seen
    /\ proc' = [proc EXCEPT ![c] = Idle]

-----------------------------------------------------------------------------
(* Redis Bloom filter and HyperLogLog                                      *)

\* The script that writes the configuration first, or compares it with the one that is there.
initializeConfig(h) ==
    /\ validOptions(Handles[h]) /\ ~store.open[h]
    /\ IF store.config = NoConfig
       THEN store.bits = {} /\ store' = [store EXCEPT !.config = Handles[h], !.open[h] = TRUE]
       ELSE store.config = Handles[h] /\ store' = [store EXCEPT !.open[h] = TRUE]
    /\ UNCHANGED <<proc, seen>>

matchesAny(h) == store.config # NoConfig

\* Every script compares the stored fingerprint with the handle's before it does anything.
matches(h) == store.config = Handles[h]

putScript(h, item) ==
    /\ store.open[h] /\ matches(h)
    /\ store' = [store EXCEPT !.bits = @ \cup Indexes(item, Handles[h])]
    /\ seen' = [seen EXCEPT !.redis = @ \cup {item}]
    /\ UNCHANGED proc

mightContainScript(h, item) == Indexes(item, Handles[h]) \subseteq store.bits

clearScript(h) ==
    /\ store.open[h] /\ matches(h) /\ store.bits # {}
    /\ store' = [store EXCEPT !.bits = {}] /\ seen' = [seen EXCEPT !.redis = {}]
    /\ UNCHANGED proc

\* Keys may disappear from the server: the bitmap with the configuration, or the configuration alone.
Evict(both) ==
    /\ store.config # NoConfig
    /\ store' = [store EXCEPT !.config = NoConfig, !.bits = IF both THEN {} ELSE @]
    /\ seen' = [seen EXCEPT !.redis = IF both THEN {} ELSE @]
    /\ UNCHANGED proc

\* PFADD and PFMERGE (the target is among its own sources).
AddFilters(h, item) ==
    /\ store' = [store EXCEPT !.hll[h] = @ \cup {item}] /\ seen' = [seen EXCEPT !.hll[h] = @ \cup {item}]
    /\ item \notin store.hll[h] /\ UNCHANGED proc

MergeHLL(h, sources) ==
    /\ sources # {}
    /\ store' = [store EXCEPT !.hll[h] = UNION {store.hll[s] : s \in sources \cup {h}}]
    /\ seen' = [seen EXCEPT !.hll[h] = @ \cup UNION {seen.hll[s] : s \in sources}]
    /\ UNCHANGED proc

-----------------------------------------------------------------------------
(* Cuckoo                                                                  *)

mutation(op) == op \in {"reserve", "add", "delete"}

\* The module's commands on the server.
effect(op, item) ==
    CASE op = "reserve" /\ ~store.reserved -> [store EXCEPT !.reserved = TRUE]
      [] op = "add" /\ store.reserved /\ store.cuckoo[item] < CuckooCapacity -> [store EXCEPT !.cuckoo[item] = @ + 1]
      [] op = "delete" /\ store.reserved /\ store.cuckoo[item] > 0 -> [store EXCEPT !.cuckoo[item] = @ - 1]
      [] OTHER -> store

serverReply(op, item) ==
    CASE op = "reserve" -> IF store.reserved THEN "error" ELSE "ok"
      [] ~store.reserved -> "error"
      [] op = "add"     -> IF store.cuckoo[item] = CuckooCapacity THEN "full" ELSE "ok"
      [] OTHER          -> "ok"

\* The command reaches a server that has the module or does not; its answer may be lost or not be understood.
Do(c, op, item, fate) ==
    /\ proc[c] = Idle
    /\ LET runs == fate # "unsupported" /\ fate # "unsent"
       IN  /\ store' = IF runs THEN effect(op, item) ELSE store
           /\ proc' = [proc EXCEPT ![c] = [Idle EXCEPT !.pc = "execute", !.op = op, !.item = item, !.applied = runs /\ effect(op, item) # store,
                                                       !.reply = IF fate = "answered" THEN serverReply(op, item) ELSE fate]]
    /\ UNCHANGED seen

Reserve(c, fate) == Do(c, "reserve", CHOOSE i \in Items : TRUE, fate)
AddCuckoo(c, item, fate) == Do(c, "add", item, fate)
Boolean(c, op, item, fate) == op \in {"delete", "exists"} /\ Do(c, op, item, fate)
Count(c, item, fate) == Do(c, "count", item, fate)

outcomeTrusting(p) ==
    IF p.cancelled THEN (IF p.reply = "ok" THEN "failed" ELSE IF mutation(p.op) THEN "unknown" ELSE "failed")
    ELSE IF p.reply \in {"ok", "full", "unsupported"} THEN p.reply
    ELSE IF mutation(p.op) THEN "unknown" ELSE "failed"

\* An error of a mutation is a commit that may have happened, unless the server said full or does not know the command.
outcome(p) ==
    IF p.cancelled THEN (IF mutation(p.op) THEN "unknown" ELSE "failed")
    ELSE IF p.reply \in {"ok", "full", "unsupported"} THEN p.reply
    ELSE IF mutation(p.op) THEN "unknown" ELSE "failed"

execute(c) ==
    /\ proc[c].pc = "execute"
    /\ proc' = [proc EXCEPT ![c].pc = "returned", ![c].outcome = outcome(proc[c])]
    /\ UNCHANGED <<store, seen>>

Cancel(c) ==
    /\ proc[c].pc = "execute" /\ ~proc[c].cancelled
    /\ proc' = [proc EXCEPT ![c].cancelled = TRUE]
    /\ UNCHANGED <<store, seen>>

Again(c) == proc[c].pc = "returned" /\ proc' = [proc EXCEPT ![c] = Idle] /\ UNCHANGED <<store, seen>>

\* The four kinds share nothing: each behaviour uses one.
NextFilters ==
    \/ /\ store.kind = "memory"
       /\ \/ \E f \in DOMAIN Filters : Clear(f) \/ \E i \in Items : Put(f, i)
          \/ \E c \in Callers : Merge(c) \/ \E f, s \in DOMAIN Filters : Snapshot(c, f, s)
    \/ /\ store.kind = "redis"
       /\ \/ \E h \in DOMAIN Handles : initializeConfig(h) \/ clearScript(h) \/ \E i \in Items : putScript(h, i)
          \/ \E both \in BOOLEAN : Evict(both)
    \/ /\ store.kind = "hll"
       /\ \E h \in DOMAIN Handles : (\E i \in Items : AddFilters(h, i)) \/ \E s \in SUBSET DOMAIN Handles : MergeHLL(h, s)
    \/ /\ store.kind = "cuckoo"
       /\ \E c \in Callers : \/ execute(c) \/ Cancel(c) \/ Again(c)
                             \/ \E fate \in {"answered", "lost", "malformed", "unsent", "unsupported"} :
                                    \/ Reserve(c, fate)
                                    \/ \E i \in Items : AddCuckoo(c, i, fate) \/ Count(c, i, fate) \/ \E op \in {"delete", "exists"} : Boolean(c, op, i, fate)

-----------------------------------------------------------------------------
(* Properties                                                              *)

\* No false negatives: an item put, or merged from a compatible filter, since the last clear might be contained; and
\* what handles with different configurations wrote never mixes in one Redis bitmap.
NoFalseNegatives ==
    /\ \A f \in DOMAIN Filters : \A i \in seen.memory[f] : MightContain(f, i)
    /\ \A h \in DOMAIN Handles : store.open[h] /\ matches(h) => \A i \in seen.redis : mightContainScript(h, i)
    /\ \A h \in DOMAIN Handles : seen.hll[h] \subseteq store.hll[h]

\* A cuckoo mutation that did not return success or an unknown commit left the filter as it was.
CommitKnown == \A c \in Callers : proc[c].pc = "returned" /\ proc[c].applied => proc[c].outcome \in {"ok", "unknown"}

=============================================================================
