------------------------------ MODULE EngineCalls ------------------------------
(***************************************************************************)
(* What the calls of the C interface answer, and what the metrics sink is   *)
(* told (src/engine.cpp, src/include/chronosv/metrics_sink.h): the checks   *)
(* of each call in their order, the rows of the queries and their warnings, *)
(* the overwrite counter every thread keeps for itself, and what becomes of *)
(* an entry and its payload on the way through a slot into a block.         *)
(*                                                                          *)
(* Calls are whole here: SensorRing, EngineThreads and ColdTier interleave  *)
(* their steps.  How long a prefix a windowed pass takes is HotWindow's     *)
(* subject; here it may be any.  on_append, on_query and the totals that    *)
(* are one relaxed add each are left out; get_stats is EngineThreads'.       *)
(***************************************************************************)
EXTENDS Kernels, SequencesExt, Functions, TLC

CONSTANTS
    Sensors,
    Capacity,       \* ring_capacity
    Setups,         \* configurations, whether Open is how the engine got them,
                    \* and the producer thread of each sensor:
                    \* [int8, cosine, limit, opened, producer]; no limit is 0
    Recovered,      \* sensors Open finds: with a slot and no ring
    Traffic,        \* what producers append: [s, ts, vec, payload]
    Targets,        \* vectors to query for
    Counts,         \* the n and max of queries
    Ranges,         \* time ranges <<from, to>>
    Thresholds,     \* of detect_anomaly, natural numbers
    MaxAppends,     \* bound on entries
    MaxFailures,    \* bound on failed calls of the store and allocations
    MaxDrops        \* bound on drop_sensor calls that succeed

ASSUME SlotsAssumption ==
    Capacity \in Nat \ {0} /\ IsFiniteSet(Sensors) /\ Recovered \subseteq Sensors
ASSUME SetupsAssumption ==
    \A setup \in Setups :
        /\ {setup.int8, setup.cosine, setup.opened} \subseteq BOOLEAN
        /\ setup.limit \in Nat /\ (setup.opened => setup.limit = 0)
        /\ setup.producer = [s \in Sensors |-> setup.producer[s]]
ASSUME TrafficAssumption == Traffic \subseteq [s : Sensors, ts : Int, vec : Seq(Int), payload : BOOLEAN]
\* Every vector has the configured dim, which is not 0.
ASSUME VectorsAssumption ==
    LET vectors == {entry.vec : entry \in Traffic} \cup Targets
    IN \A v \in vectors : HasNorm(v) /\ \A w \in vectors : Len(w) = Len(v)
\* An n or max of 0 is the fault "arg".
ASSUME QueriesAssumption == Ranges \subseteq Int \X Int /\ Counts \subseteq Nat \ {0}
ASSUME CallBoundsAssumption == {MaxAppends, MaxFailures, MaxDrops} \subseteq Nat

VARIABLES
    int8, cosine,   \* storage_dtype, distance_metric
    limit,          \* max_sensors
    sink,           \* there is a metrics sink
    producer,       \* the thread that appends to each sensor
    closed,
    slots,          \* sensors in the map
    rings,          \* the rings of those that have one
    lastSeen,       \* last_overwrites_seen of each thread
    failures, drops,
    log,            \* what was appended to each ring, in order
    stored,         \* the rows in a sensor's blocks, in order
    unstored,       \* those whose WriteBlock failed
    told,           \* the sum of the entries_lost of a ring's on_overwrite calls
    dropped,        \* sensors that were dropped
    answer          \* of the call that has just ended

configVars == <<int8, cosine, limit, sink, producer>>
storeVars  == <<stored, unstored, failures>>
vars == <<configVars, closed, slots, rings, lastSeen, drops, log, storeVars, told, dropped, answer>>

Threads == UNION {Range(setup.producer) : setup \in Setups}
Garbage == [garbage |-> TRUE]   \* memory nothing was written to, or read as another type

NewRing ==
    [head |-> 0, tail |-> 0, lost |-> 0,
     slots |-> [i \in 0 .. Capacity - 1 |->
        [ts |-> 0, vec |-> Garbage, max |-> 0, norm |-> 0, payload |-> Garbage]]]

Answer(call, code) == [call |-> call, code |-> code]
NoAnswer == Answer("none", "OK")

\* Create, with a sink: an empty map. Open: the sensors found, and neither limit nor
\* sink, which are not in the metadata.
Init ==
    /\ \E setup \in Setups :
        /\ int8 = setup.int8 /\ cosine = setup.cosine
        /\ limit = setup.limit /\ producer = setup.producer
        /\ sink = ~setup.opened
        /\ slots = IF setup.opened THEN Recovered ELSE {}
    /\ closed = FALSE
    /\ rings = <<>>
    /\ lastSeen = [t \in Threads |-> 0]
    /\ failures = 0 /\ drops = 0
    /\ log = [s \in Sensors |-> <<>>]
    /\ stored = [s \in Sensors |-> <<>>] /\ unstored = [s \in Sensors |-> <<>>]
    /\ told = [s \in Sensors |-> 0]
    /\ dropped = {}
    /\ answer = NoAnswer

HasRing(s) == s \in DOMAIN rings

\* Snapshot
Begin(r) == IF r.head - r.tail > Capacity THEN r.head - Capacity ELSE r.tail
Window(r) == Begin(r) .. r.head - 1
At(r, i) == r.slots[i % Capacity]

-----------------------------------------------------------------------------
(* Refusals *)

\* What each call checks, in this order; the last three need the map.
Checks(call) ==
    CASE call = "append"           -> <<"arg", "id", "closed", "dim", "limit", "memory">>
      [] call = "append_batch"     -> <<"dim0", "id", "empty", "arg", "closed", "dim", "limit", "memory">>
      [] call = "preallocate"      -> <<"id", "closed", "limit", "memory">>
      [] call = "query_nearest_n"  -> <<"id", "closed", "dim", "arg", "unknown">>
      [] call = "query_range"      -> <<"id", "closed", "arg", "unknown">>
      [] call = "detect_anomaly"   -> <<"id", "closed", "dim", "arg", "unknown">>
      [] call = "maintain"         -> <<"closed", "arg">>
      [] call = "flush"            -> <<"closed">>
      [] call = "drop_sensor"      -> <<"id", "closed", "unknown">>

Calls == {"append", "append_batch", "preallocate", "query_nearest_n", "query_range",
          "detect_anomaly", "maintain", "flush", "drop_sensor"}

CodeOf ==
    [arg |-> "INVALID_ARG", dim0 |-> "INVALID_ARG", id |-> "INVALID_ARG", empty |-> "OK",
     closed |-> "CLOSED", dim |-> "DIM_MISMATCH", unknown |-> "NOT_FOUND",
     limit |-> "CAPACITY", memory |-> "OOM"]

\* What is wrong whatever the arguments are: the engine is closed, the sensor
\* is not in the map, or it is not and there is no room for another.
Standing(s) ==
    {fault \in {"closed", "unknown", "limit"} :
        CASE fault = "closed"  -> closed
          [] fault = "unknown" -> s \notin slots
          [] fault = "limit"   -> s \notin slots /\ limit > 0 /\ Cardinality(slots) >= limit}

\* A call with these faults in its arguments goes through.
Passes(call, s, faults) == ToSet(Checks(call)) \cap (faults \cup Standing(s)) = {}

\* The first check that fails decides.
Failing(call, s, faults) ==
    Min({k \in DOMAIN Checks(call) : Checks(call)[k] \in faults \cup Standing(s)})

Refused(call, s, faults) ==
    /\ ~Passes(call, s, faults)
    /\ "memory" \in faults => ~HasRing(s)
    /\ answer' = Answer("refused", CodeOf[Checks(call)[Failing(call, s, faults)]])
    /\ UNCHANGED <<configVars, closed, slots, rings, lastSeen, drops, log, storeVars, told, dropped>>

-----------------------------------------------------------------------------
(* Ingest *)

RingOf(s) == IF HasRing(s) THEN rings[s] ELSE NewRing

\* The payload of an entry is told from others by the entry's number. Without
\* one the slot keeps what it has.
SlotPayload(slot, entry, n) == IF entry.payload THEN [of |-> n] ELSE slot.payload

SlotWith(slot, entry, n) ==
    [ts |-> entry.ts,
     vec |-> IF int8 THEN Quantized(entry.vec).q ELSE entry.vec,
     max |-> IF int8 THEN MaxAbs(entry.vec) ELSE 0,
     norm |-> Norm(entry.vec),
     payload |-> SlotPayload(slot, entry, n)]

Appended_OnlyBeyondCapacity(r, entry) ==
    [r EXCEPT !.lost = IF r.head - r.tail > Capacity THEN @ + 1 ELSE @,
              !.slots[r.head % Capacity] = SlotWith(@, entry, r.head),
              !.head = @ + 1]

\* SensorRing::Append. A full ring loses its oldest entry; tail stays.
Appended(r, entry) ==
    [r EXCEPT !.lost = IF r.head - r.tail >= Capacity THEN @ + 1 ELSE @,
              !.slots[r.head % Capacity] = SlotWith(@, entry, r.head),
              !.head = @ + 1]

\* last_overwrites_seen is set, and on_overwrite called, if this ring's counter
\* is above what the thread has seen last, on whatever ring that was.
Report_Whole(s, lost) ==
    /\ sink
    /\ lost > lastSeen[producer[s]]
    /\ told' = [told EXCEPT ![s] = @ + lost]
    /\ lastSeen' = [lastSeen EXCEPT ![producer[s]] = lost]

Report(s, lost) ==
    /\ sink
    /\ lost > lastSeen[producer[s]]
    /\ told' = [told EXCEPT ![s] = @ + lost - lastSeen[producer[s]]]
    /\ lastSeen' = [lastSeen EXCEPT ![producer[s]] = lost]

Total == FoldFunction(LAMBDA entries, n : Len(entries) + n, 0, log)

With(s, r) == [q \in DOMAIN rings \cup {s} |-> IF q = s THEN r ELSE rings[q]]

Register_RingOnly(s, r) == UNCHANGED slots /\ rings' = With(s, r)
Register(s, r) == slots' = slots \cup {s} /\ rings' = With(s, r)

AppendOne(entry) ==
    LET s == entry.s
        r == Appended(RingOf(s), entry)
    IN /\ Passes("append", s, {})
       /\ Total < MaxAppends
       /\ Register(s, r)
       /\ log' = [log EXCEPT ![s] = Append(@, entry)]
       /\ \/ Report(s, r.lost)
          \/ ~(sink /\ r.lost > lastSeen[producer[s]]) /\ UNCHANGED <<told, lastSeen>>
       /\ answer' = [call |-> "append", code |-> "OK", s |-> s]
       /\ UNCHANGED <<configVars, closed, drops, storeVars, dropped>>

\* Two entries of one sensor. No on_overwrite.
AppendBatch(first, second) ==
    /\ first.s = second.s
    /\ Passes("append_batch", first.s, {})
    /\ Total + 1 < MaxAppends
    /\ Register(first.s, Appended(Appended(RingOf(first.s), first), second))
    /\ log' = [log EXCEPT ![first.s] = Append(Append(@, first), second)]
    /\ answer' = Answer("append_batch", "OK")
    /\ UNCHANGED <<configVars, closed, lastSeen, drops, storeVars, told, dropped>>

PreallocateSensor(s) ==
    /\ Passes("preallocate", s, {})
    /\ Register(s, RingOf(s))
    /\ answer' = Answer("preallocate", "OK")
    /\ UNCHANGED <<configVars, closed, lastSeen, drops, log, storeVars, told, dropped>>

\* A producer's int8 scratch cannot be grown, after the ring has been made. How
\* much scratch a thread has had before is not tracked.
IngestNoScratch(call, s) ==
    /\ int8
    /\ Passes(call, s, {})
    /\ Register(s, RingOf(s))
    /\ answer' = Answer("no_scratch", "OOM")
    /\ UNCHANGED <<configVars, closed, lastSeen, drops, log, storeVars, told, dropped>>

-----------------------------------------------------------------------------
(* Queries *)

ScoresFrom(r, first, count, q) ==
    [k \in 1 .. count |-> Score(int8, cosine, r.slots[first + k - 1], q, Norm(q))]

\* FillScoresForRange: up to two runs of slots, the second from slot 0.
FillScores_OneRun(r, q) == ScoresFrom(r, 0, Cardinality(Window(r)), q)
FillScores(r, q) ==
    LET count == Cardinality(Window(r))
        start == Begin(r) % Capacity
        firstLen == Min({count, Capacity - start})
    IN ScoresFrom(r, start, firstLen, q) \o ScoresFrom(r, 0, count - firstLen, q)

Better(a, b) == IF cosine THEN a > b ELSE a < b

\* The k-th score comes to the heap of the best `take`: if it is full and the
\* score better than the worst of them, it takes its place.
KeptWith(scores, take, kept, k) ==
    LET worst == CHOOSE w \in kept : \A j \in kept : ~Better(scores[w], scores[j])
    IN IF Cardinality(kept) < take THEN kept \cup {k}
       ELSE IF Better(scores[k], scores[worst]) THEN (kept \ {worst}) \cup {k} ELSE kept

Kept(scores, take) ==
    LET kept[k \in 0 .. Len(scores)] ==
            IF k = 0 THEN {} ELSE KeptWith(scores, take, kept[k - 1], k)
    IN kept[Len(scores)]

\* Sorted best first; equal scores in any order.
BestFirst(scores, kept) ==
    {order \in SetToSeqs(kept) :
        \A j, k \in DOMAIN order : j < k => ~Better(scores[order[k]], scores[order[j]])}

queryOnly == <<configVars, closed, slots, rings, lastSeen, drops, log, storeVars, told, dropped>>

\* Scores, the heap or the mean need scratch, if there is anything in the window.
QueryNoScratch(call, s) ==
    /\ Passes(call, s, {})
    /\ Window(RingOf(s)) # {}
    /\ answer' = Answer("no_scratch", "OOM")
    /\ UNCHANGED queryOnly

QueryNearestN(s, q, n) ==
    LET r == RingOf(s)
        count == Cardinality(Window(r))
        scores == FillScores(r, q)
        take == Min({n, count})
    IN /\ Passes("query_nearest_n", s, {})
       /\ \E order \in BestFirst(scores, Kept(scores, take)) :
            answer' = [call |-> "query_nearest_n",
                       code |-> IF take < n THEN "PARTIAL_RESULT" ELSE "OK",
                       s |-> s, target |-> q, n |-> n,
                       rows |-> [k \in 1 .. take |->
                            [ts |-> At(r, Begin(r) + order[k] - 1).ts, score |-> scores[order[k]]]]]
       /\ UNCHANGED queryOnly

\* The entries looked at: from the oldest on, until `max` rows are out.
Scanned(r, range, max) ==
    {i \in Window(r) :
        Cardinality({j \in Begin(r) .. i - 1 : At(r, j).ts \in range[1] .. range[2]}) < max}

\* The row of an INT8 slot is read as floats, from it and the slots after it.
RangeRow(slot) == [ts |-> slot.ts, vec |-> IF int8 THEN Garbage ELSE slot.vec]

Truncated_ByEnd(r, range, max) ==
    Window(r) # {} /\ range[2] < Min({At(r, i).ts : i \in Scanned(r, range, max)})

\* The range starts before everything that was looked at.
Truncated(r, range, max) ==
    Window(r) # {} /\ range[1] < Min({At(r, i).ts : i \in Scanned(r, range, max)})

QueryRange(s, range, max) ==
    LET r == RingOf(s)
        hits == {i \in Scanned(r, range, max) : At(r, i).ts \in range[1] .. range[2]}
    IN /\ Passes("query_range", s, {})
       /\ answer' = [call |-> "query_range",
                     code |-> IF Truncated(r, range, max) THEN "RANGE_TRUNCATED" ELSE "OK",
                     s |-> s, range |-> range, max |-> max,
                     rows |-> [k \in 1 .. Cardinality(hits) |->
                        RangeRow(At(r, CHOOSE i \in hits :
                            Cardinality({j \in hits : j < i}) = k - 1))]]
       /\ UNCHANGED queryOnly

SumOf(r, first, count, i) ==
    MapThenSumSet(LAMBDA k : r.slots[k].vec[i], first .. first + count - 1)

\* dot < factor * sqrt(square)
BelowRoot(dot, factor, square) ==
    IF factor >= 0 THEN dot < 0 \/ dot * dot < factor * factor * square
                   ELSE dot < 0 /\ dot * dot > factor * factor * square

\* Whether the distance between v and the mean of `count` vectors is above the
\* threshold, from their sum.
Exceeds(sum, count, v, threshold) ==
    IF cosine
      THEN LET square == Dot(sum, sum) * Dot(v, v)
           IN IF square = 0 THEN threshold < 1
                            ELSE BelowRoot(Dot(sum, v), 1 - threshold, square)
      ELSE Dot(sum, sum) + count * count * Dot(v, v) - 2 * count * Dot(sum, v)
                > (count * threshold) * (count * threshold)

\* The mean of a window is summed in two runs too. An INT8 ring's bytes are
\* taken for floats: anything may come out.
DetectAnomaly(s, v, threshold) ==
    LET r == RingOf(s)
        count == Cardinality(Window(r))
        start == Begin(r) % Capacity
        firstLen == Min({count, Capacity - start})
        sum == [i \in DOMAIN v |->
                    SumOf(r, start, firstLen, i) + SumOf(r, 0, count - firstLen, i)]
    IN /\ Passes("detect_anomaly", s, {})
       /\ \E anomalous \in BOOLEAN :
            /\ count = 0 => ~anomalous
            /\ count > 0 /\ ~int8 => anomalous = Exceeds(sum, count, v, threshold)
            /\ answer' = [call |-> "detect_anomaly", code |-> "OK", s |-> s,
                          v |-> v, threshold |-> threshold, anomalous |-> anomalous]
       /\ UNCHANGED queryOnly

-----------------------------------------------------------------------------
(* Eviction *)

\* The row EvictSensor copies out of slot i.
RowAt_NextPayload(r, i) == [n |-> i, ts |-> At(r, i).ts, payload |-> At(r, i + 1).payload]
RowAt(r, i) == [n |-> i, ts |-> At(r, i).ts, payload |-> At(r, i).payload]

Rows(s, taken) ==
    LET r == rings[s] IN [k \in 1 .. taken[s] |-> RowAt(r, Begin(r) + k - 1)]

\* The numbers of entries a pass may take from each ring: none of one for which
\* the scratch cannot be grown.
Takes(all) ==
    {taken \in [DOMAIN rings -> 0 .. Capacity] :
        \A s \in DOMAIN rings :
            LET count == Cardinality(Window(rings[s]))
            IN IF all THEN taken[s] \in {0, count} ELSE taken[s] <= count}

\* EvictOnce: each ring in turn is copied, its tail advanced, its block written.
\* A block whose WriteBlock fails is dropped.
EvictOnce(taken, fails) ==
    LET from == {s \in DOMAIN rings : taken[s] > 0}
    IN /\ fails \subseteq from
       /\ failures + Cardinality(fails) <= MaxFailures
       /\ failures' = failures + Cardinality(fails)
       /\ rings' = [s \in DOMAIN rings |->
                        [rings[s] EXCEPT !.tail = IF s \in from THEN Begin(rings[s]) + taken[s] ELSE @]]
       /\ stored' = [s \in Sensors |->
                        IF s \in from \ fails THEN stored[s] \o Rows(s, taken) ELSE stored[s]]
       /\ unstored' = [s \in Sensors |->
                        IF s \in fails THEN unstored[s] \o Rows(s, taken) ELSE unstored[s]]
       /\ UNCHANGED <<configVars, closed, slots, lastSeen, drops, log, told, dropped>>

\* Flush answers what the backend's Flush does.
Flush ==
    /\ Passes("flush", CHOOSE s \in Sensors : TRUE, {})
    /\ \E taken \in Takes(TRUE), fails \in SUBSET DOMAIN rings : EvictOnce(taken, fails)
    /\ \E code \in {"OK", "IO"} : answer' = Answer("flush", code)

\* Also the pass of the background thread, which runs until Close.
MaintainSlidingWindow ==
    /\ Passes("maintain", CHOOSE s \in Sensors : TRUE, {})
    /\ \E taken \in Takes(FALSE), fails \in SUBSET DOMAIN rings : EvictOnce(taken, fails)
    /\ answer' = Answer("maintain", "OK")

-----------------------------------------------------------------------------
(* The rest *)

\* The ring's counters go to the engine's totals, its blocks from the store;
\* whether DeleteSensor fails is ColdTier's subject.
DropSensor(s) ==
    /\ Passes("drop_sensor", s, {})
    /\ drops < MaxDrops
    /\ drops' = drops + 1
    /\ slots' = slots \ {s}
    /\ rings' = RestrictDomain(rings, LAMBDA q : q # s)
    /\ log' = [log EXCEPT ![s] = <<>>]
    /\ stored' = [stored EXCEPT ![s] = <<>>]
    /\ unstored' = [unstored EXCEPT ![s] = <<>>]
    /\ told' = [told EXCEPT ![s] = 0]
    /\ dropped' = dropped \cup {s}
    /\ answer' = Answer("drop_sensor", "OK")
    /\ UNCHANGED <<configVars, closed, lastSeen, failures>>

\* Any `max` of the ids, in the order of a hash map, or no memory to copy one;
\* closed or not.
ListSensors(max) ==
    /\ \E ids \in SUBSET slots :
        /\ Cardinality(ids) = Min({max, Cardinality(slots)})
        /\ \/ answer' = [call |-> "list_sensors", code |-> "OK", ids |-> ids]
           \/ ids # {} /\ answer' = Answer("list_sensors", "OOM")
    /\ UNCHANGED queryOnly

\* A second Close answers OK as well.
Close ==
    /\ closed' = TRUE
    /\ answer' = Answer("close", "OK")
    /\ UNCHANGED <<configVars, slots, rings, lastSeen, drops, log, storeVars, told, dropped>>

Faults == {{}} \cup {{fault} : fault \in {"arg", "dim0", "id", "empty", "dim", "memory"}}

Call ==
    \/ \E entry \in Traffic : AppendOne(entry)
    \/ \E first, second \in Traffic : AppendBatch(first, second)
    \/ \E s \in Sensors :
        \/ PreallocateSensor(s)
        \/ DropSensor(s)
        \/ \E q \in Targets, n \in Counts : QueryNearestN(s, q, n)
        \/ \E range \in Ranges, max \in Counts : QueryRange(s, range, max)
        \/ \E v \in Targets, threshold \in Thresholds : DetectAnomaly(s, v, threshold)
        \/ \E call \in Calls, faults \in Faults : Refused(call, s, faults)
        \/ \E call \in {"append", "append_batch"} : IngestNoScratch(call, s)
        \/ \E call \in {"query_nearest_n", "detect_anomaly"} : QueryNoScratch(call, s)
    \/ Flush
    \/ MaintainSlidingWindow
    \/ \E max \in Counts : ListSensors(max)
    \/ Close

\* The caller goes on.
Return == answer' = NoAnswer /\ UNCHANGED queryOnly

Next ==
    \/ answer = NoAnswer /\ Call
    \/ answer # NoAnswer /\ Return

Spec == Init /\ [][Next]_vars

-----------------------------------------------------------------------------
(* Properties *)

Codes == {"OK", "PARTIAL_RESULT", "RANGE_TRUNCATED", "INVALID_ARG", "NOT_FOUND",
          "DIM_MISMATCH", "IO", "OOM", "CLOSED", "CAPACITY"}
Payloads == [of : Nat] \cup {Garbage}

\* The state of the engine and of the sink.
TypeOK ==
    /\ {int8, cosine, sink, closed} \subseteq BOOLEAN
    /\ limit \in Nat /\ producer \in [Sensors -> Threads]
    /\ slots \subseteq Sensors /\ DOMAIN rings \subseteq slots
    /\ \A s \in DOMAIN rings :
        /\ rings[s].head \in Nat /\ rings[s].lost \in Nat
        /\ rings[s].tail \in 0 .. rings[s].head
        /\ \A i \in 0 .. Capacity - 1 : rings[s].slots[i].payload \in Payloads
    /\ lastSeen \in [Threads -> Nat] /\ told \in [Sensors -> Nat]
    /\ failures \in 0 .. MaxFailures /\ drops \in 0 .. MaxDrops
    /\ dropped \subseteq Sensors
    /\ answer.code \in Codes

\* The entries a ring is to hold are the last that were appended to it.
Held(s) ==
    LET r == RingOf(s) IN SubSeq(log[s], Begin(r) + 1, r.head)

\* query_nearest_n returns the best of the window, best first, each entry once,
\* by the distance computed directly and up to what quantization loses; fewer
\* than n only if there are no more (engine.cpp:681-731, kernels.cpp:35-220).
\* The matching of rows to entries is by timestamp and score.
NearestAreBest ==
    answer.call = "query_nearest_n" =>
        LET held == Held(answer.s)
            ref == [i \in DOMAIN held |-> Reference(int8, cosine, held[i].vec, answer.target)]
            rows == answer.rows
            fits(k, i) == /\ rows[k].ts = held[i].ts
                          /\ Abs(rows[k].score - ref[i].score) <= ref[i].off
            worse(i, j) == IF cosine THEN ref[i].score + ref[i].off < ref[j].score - ref[j].off
                                     ELSE ref[i].score - ref[i].off > ref[j].score + ref[j].off
        IN /\ Len(rows) = Min({answer.n, Len(held)})
           /\ answer.code = "PARTIAL_RESULT" <=> Len(rows) < answer.n
           /\ \E match \in [DOMAIN rows -> DOMAIN held] :
                /\ IsInjective(match)
                /\ \A k \in DOMAIN rows :
                    /\ fits(k, match[k])
                    /\ \A j \in DOMAIN held :
                        worse(match[k], j) => \E m \in 1 .. k - 1 : match[m] = j

\* detect_anomaly compares with the mean of the whole window and nothing else,
\* for float32 (engine.cpp:800-838).
AnomalyIsOfTheWindow ==
    answer.call = "detect_anomaly" /\ ~int8 =>
        LET held == Held(answer.s)
            sum == [i \in DOMAIN answer.v |->
                        MapThenSumSet(LAMBDA k : held[k].vec[i], DOMAIN held)]
        IN answer.anomalous <=>
            held # <<>> /\ Exceeds(sum, Len(held), answer.v, answer.threshold)

\* What the queries that compute on vectors answer is about the entries of the
\* window: the slots in two runs, each with its own norm and scale.
AnswersAreOfTheWindow == NearestAreBest /\ AnomalyIsOfTheWindow

\* A query_range that answers OK with fewer rows than asked for has left out
\* nothing that was ever appended, and repeats nothing: neither evicted nor
\* overwritten (chronos_vector.h:278-280, "Silent truncation would be the worst
\* possible outcome"); as long as the ring is not empty and its timestamps ascend.
\* The vectors are the entries' if they are float32.
RangeOkIsComplete ==
    answer.call = "query_range" /\ answer.code = "OK" /\ Len(answer.rows) < answer.max =>
        LET all == log[answer.s]
            inRange == {n \in 0 .. Len(all) - 1 :
                            all[n + 1].ts \in answer.range[1] .. answer.range[2]}
        IN Held(answer.s) # <<>> /\ (\A i \in 2 .. Len(all) : all[i - 1].ts < all[i].ts) =>
            /\ Len(answer.rows) = Cardinality(inRange)
            /\ \A n \in inRange :
                answer.rows[Cardinality({m \in inRange : m < n}) + 1] =
                    [ts |-> all[n + 1].ts, vec |-> IF int8 THEN Garbage ELSE all[n + 1].vec]

\* on_overwrite never reports a loss that did not happen, and after an append it
\* has reported every one of the ring's, if there is a sink, its producer feeds no
\* other sensor and it was never dropped (engine.cpp:581-588).
SinkKnowsTheLosses ==
    /\ \A s \in DOMAIN rings : told[s] <= rings[s].lost
    /\ answer.call = "append" =>
        LET s == answer.s
            alone == \A q \in Sensors \ {s} : producer[q] # producer[s]
        IN sink /\ alone /\ s \notin dropped => told[s] = rings[s].lost

\* Every entry is in the ring, in a block, in a block that could not be written,
\* or counted as overwritten, and in one of them only; blocks are in the order
\* of the appends (engine.cpp:1125-1193, ring_buffer.h:168-176).
EveryEntryIsAccountedFor ==
    \A s \in DOMAIN rings :
        LET moved == stored[s] \o unstored[s]
            ns == {moved[k].n : k \in DOMAIN moved}
        IN /\ Len(log[s]) = Cardinality(Window(rings[s])) + Cardinality(ns) + rings[s].lost
           /\ ns \cap Window(rings[s]) = {} /\ Cardinality(ns) = Len(moved)
           /\ \A k \in 2 .. Len(stored[s]) : stored[s][k - 1].n < stored[s][k].n
           /\ \A k \in DOMAIN moved : moved[k].ts = log[s][moved[k].n + 1].ts

\* A stored payload is the entry's own; that of the latest entry before it in
\* the same slot that had one, if the append had none (ring_buffer.h:208-210);
\* or what the memory held before any.
PayloadIsOwnOrStale ==
    \A s \in DOMAIN rings : \A row \in ToSet(stored[s]) :
        LET given == {n \in 0 .. row.n : (row.n - n) % Capacity = 0 /\ log[s][n + 1].payload}
        IN row.payload = IF given = {} THEN Garbage ELSE [of |-> Max(given)]

=============================================================================
