----------------------------- MODULE Telemetry -----------------------------
(***************************************************************************)
(* What the proxy measures of a flow (proxy/timing.py, metrics_math.py),   *)
(* the counters it keeps of it in memory (proxy/metrics.py), and the same  *)
(* figures read back from the wire log when it is down                     *)
(* (metrics/aggregation.py).                                               *)
(*                                                                         *)
(* 0 stands for what is not measured.  A rate is kept as its two operands, *)
(* a sum with its count and its latest value as the sequence of samples.   *)
(* How a record reaches the log is in WireLog; here it does, or not.       *)
(***************************************************************************)
EXTENDS Integers, Sequences, FiniteSets, SequencesExt

CONSTANTS
    Epoch,         \* the wall clock's reading at perf_counter's zero
    MaxTime,       \* bound on the length of a flow
    Floor,         \* MIN_STREAMING_WINDOW_SEC
    Saved,         \* numbers of characters the cleaner saves
    MaxRequests    \* bound on requests

ASSUME TelemetryAssumption ==
    /\ Epoch \in Nat /\ MaxTime \in Nat /\ Epoch > MaxTime + 1
    /\ Floor \in Nat \ {0} /\ Saved \subseteq Nat /\ MaxRequests \in Nat

VARIABLES
    live,          \* CumulativeMetrics of the running proxy
    journal,       \* the wire log: records, and lines that do not parse
    earlier        \* what the live counters of the proxies before it had come to
telemetryVars == <<live, journal, earlier>>
-----------------------------------------------------------------------------
(* Stamps.  A flow begins at 1 on the proxy's monotonic clock; each clock  *)
(* reads its own time.                                                     *)

Moments == [headers : 1..MaxTime, first : 1..MaxTime, last : 1..MaxTime, done : 1..MaxTime]
InOrder(m) == m.headers <= m.first /\ m.first <= m.last /\ m.last <= m.done

\* What the hooks stamped: those of this process if it saw the request, the
\* chunks if the reply streams and had any, and mitmproxy's own stamps.
Stamped(m, seen, reply, wall) ==
    [start     |-> IF seen THEN 1 ELSE 0,
     headers   |-> m.headers,
     first     |-> IF reply = "chunks" THEN m.first ELSE 0,
     last      |-> IF reply = "chunks" THEN m.last ELSE 0,
     completed |-> m.done,
     wallStart |-> IF "start" \in wall THEN Epoch + 1 ELSE 0,
     wallFirst |-> IF "first" \in wall THEN Epoch + m.headers ELSE 0,
     wallEnd   |-> IF "end" \in wall THEN Epoch + m.done ELSE 0,
     streaming |-> reply # "whole"]

Flows ==
    {Stamped(m, seen, reply, wall) :
        m \in {n \in Moments : InOrder(n)}, seen \in BOOLEAN,
        reply \in {"whole", "no_chunks", "chunks"},
        wall \in SUBSET {"start", "first", "end"}}

\* Those the response hook accounts: it has seen the request, or the provider
\* is unknown, and a stream without a chunk has no reply.
Accounted == {f \in Flows : f.start # 0 /\ (f.streaming <=> f.first # 0)}

\* positive_seconds, of a difference
Positive(seconds) == IF seconds > 0 THEN seconds ELSE 0

\* From one stamp to another, if both were taken.
Between(from, to) == IF from # 0 /\ to # 0 THEN Positive(to - from) ELSE 0

\* Mutant: the completion stands in for a start that was not stamped.
MutantTiming(f) ==
    LET seen  == f.start # 0
        start == IF seen THEN f.start ELSE IF f.wallStart # 0 THEN f.wallStart ELSE f.completed
        heads == IF seen THEN f.headers ELSE f.wallFirst
        first == IF seen THEN f.first ELSE heads
        end   == IF seen THEN f.completed ELSE f.wallEnd
    IN  [ttft  |-> Between(start, IF first # 0 THEN first ELSE heads),
         total |-> Between(start, end),
         generation |-> IF f.streaming THEN Between(first, end) ELSE 0,
         streaming  |-> f.streaming]

\* resolve_flow_timing
Timing(f) ==
    LET seen  == f.start # 0
        start == IF seen THEN f.start ELSE f.wallStart
        heads == IF seen THEN f.headers ELSE f.wallFirst
        first == IF seen THEN f.first ELSE heads
        end   == IF ~seen THEN f.wallEnd
                 ELSE IF f.streaming /\ f.last # 0 THEN f.last ELSE f.completed
        ttft  == Between(start, IF first # 0 THEN first ELSE heads)
        total == Between(start, end)
    IN  [ttft  |-> ttft,
         total |-> total,
         generation |-> IF ~f.streaming THEN 0
                        ELSE IF first # 0 /\ end # 0 THEN Positive(end - first)
                        ELSE IF total # 0 /\ ttft # 0 THEN Positive(total - ttft) ELSE 0,
         streaming  |-> f.streaming]
-----------------------------------------------------------------------------
(* Rates. *)

NoRate == [tokens |-> 0, seconds |-> 0]
Rate(tokens, seconds) ==
    IF tokens > 0 /\ seconds > 0 THEN [tokens |-> tokens, seconds |-> seconds] ELSE NoRate

\* compute_decode_tps; compute_prefill_tps and compute_tail_prefill_tps are Rate.
DecodeRate(tokens, window, streaming) ==
    IF streaming /\ window >= Floor THEN Rate(tokens, window) ELSE NoRate

Uncached(usage) == Positive(usage.input - usage.cached)

\* compute_telemetry
TelemetryOf(usage, t) ==
    [prefill |-> Rate(usage.input, t.ttft),
     tail    |-> Rate(Uncached(usage), t.ttft),
     decode  |-> DecodeRate(usage.output, t.generation, t.streaming)]

Unmeasured == [prefill |-> NoRate, tail |-> NoRate, decode |-> NoRate]

Usages == {[input |-> 1, cached |-> 1, output |-> 0],
           [input |-> 2, cached |-> 1, output |-> 1]}
-----------------------------------------------------------------------------
(* The live counters. *)

NoSamples == [ttft |-> <<>>, prefill |-> <<>>, tail |-> <<>>, decode |-> <<>>]
NoMetrics == [requests |-> 0, turns |-> 0, hits |-> 0, chars |-> 0, reduced |-> 0,
              input |-> 0, cached |-> 0, output |-> 0, samples |-> NoSamples]

Sampled(samples, value, none) == IF value = none THEN samples ELSE Append(samples, value)

SampleAll(samples, ttft, rates) ==
    [ttft    |-> Sampled(samples.ttft, ttft, 0),
     prefill |-> Sampled(samples.prefill, rates.prefill, NoRate),
     tail    |-> Sampled(samples.tail, rates.tail, NoRate),
     decode  |-> Sampled(samples.decode, rates.decode, NoRate)]

\* record_request and record_cleaner, with the tokens of each request rounded down.
Requested(m, saved) ==
    [m EXCEPT !.requests = @ + 1, !.chars = @ + saved, !.reduced = @ + saved \div 4]

\* record_response
Recorded(m, usage, ttft, rates) ==
    [m EXCEPT !.turns = @ + 1, !.input = @ + usage.input, !.cached = @ + usage.cached,
              !.output = @ + usage.output, !.samples = SampleAll(@, ttft, rates)]

NoUsage == [input |-> 0, cached |-> 0, output |-> 0]
-----------------------------------------------------------------------------
(* The wire record, and how it is read back. *)

\* Mutant: a record without a time to first token has the total for one.
MutantRecord(hit, status, usage, t, rates, saved) ==
    [hit |-> hit, status |-> status, saved |-> saved, rates |-> rates, streaming |-> t.streaming,
     usage |-> IF hit THEN [usage EXCEPT !.cached = usage.input] ELSE usage,
     ttft |-> IF t.ttft # 0 THEN t.ttft ELSE t.total, total |-> t.total, generation |-> t.generation]

\* build_wire_record: of a hit all the input was read from a cache.  The
\* milliseconds' and rates' two decimals are left out.
Record(hit, status, usage, t, rates, saved) ==
    [hit |-> hit, status |-> status, saved |-> saved, rates |-> rates, streaming |-> t.streaming,
     usage |-> IF hit THEN [usage EXCEPT !.cached = usage.input] ELSE usage,
     ttft |-> t.ttft, total |-> t.total, generation |-> t.generation]

\* _stored_rate: the stored one, else one derived again.
StoredRate(stored, derived) == IF stored # NoRate THEN stored ELSE derived

\* _process_record_timing: decode_tps is in every record, and is not derived again.
RatesOf(r) ==
    [prefill |-> StoredRate(r.rates.prefill, Rate(r.usage.input, r.ttft)),
     tail    |-> StoredRate(r.rates.tail, Rate(Uncached(r.usage), r.ttft)),
     decode  |-> r.rates.decode]

\* One line of read_offline_metrics; of a request's turn only that it had one.
ReadRecord(m, r) ==
    [m EXCEPT !.requests = @ + 1, !.turns = @ + 1, !.hits = @ + (IF r.hit THEN 1 ELSE 0),
              !.chars = @ + r.saved, !.input = @ + r.usage.input, !.cached = @ + r.usage.cached,
              !.output = @ + r.usage.output, !.samples = SampleAll(@, r.ttft, RatesOf(r))]

\* A line that was torn: inside a character or not, and without an end until a
\* record is written onto it.
Damaged(decodes, ended) == [decodes |-> decodes, ended |-> ended]
Torn == Damaged(TRUE, FALSE)
Cut == Damaged(FALSE, FALSE)
Readable(r) == r \notin [decodes : BOOLEAN, ended : BOOLEAN]
Decodes(r) == r \notin [decodes : {FALSE}, ended : BOOLEAN]

\* The loop of read_offline_metrics: the lines one after the other, without those
\* that do not parse.
ReadLines(j) ==
    LET read[n \in 0..Len(j)] ==
            IF n = 0 THEN NoMetrics
            ELSE IF Readable(j[n]) THEN ReadRecord(read[n - 1], j[n]) ELSE read[n - 1]
    IN  read[Len(j)]

NoFigures == [figures |-> "none"]

\* _compute_metrics_summary: the tokens of the whole rounded down.
Summary(m) == [m EXCEPT !.reduced = m.chars \div 4]

\* read_offline_metrics: a line that does not decode ends the reading with nothing,
\* wherever it is.
Offline(j) ==
    IF (\E i \in DOMAIN j : ~Decodes(j[i])) \/ ReadLines(j).requests = 0 THEN NoFigures
    ELSE Summary(ReadLines(j))
-----------------------------------------------------------------------------
\* What is on the last line stays there: it is damaged for good.
Written(j, line) ==
    IF j = <<>> \/ Last(j) \notin {Torn, Cut} THEN Append(j, line)
    ELSE Append(Front(j), Damaged(Decodes(Last(j)) /\ Decodes(line), Readable(line)))

\* The record is written whole, or torn, or not at all.
Logs(r) == journal' \in {Written(journal, r), Written(journal, Torn), Written(journal, Cut), journal}

Room == live.requests + earlier.requests < MaxRequests

Timings == {Timing(f) : f \in Accounted}

\* A reply of status 200: dump_miss_transaction, record_response_metrics.
Reply(t, usage, saved) ==
    LET rates == TelemetryOf(usage, t)
    IN  /\ live' = Recorded(Requested(live, saved), usage, t.ttft, rates)
        /\ Logs(Record(FALSE, 200, usage, t, rates, saved))
        /\ UNCHANGED earlier

NotTimed == [ttft |-> 0, total |-> 0, generation |-> 0, streaming |-> FALSE]

\* record_failure: an empty sample; the record has the tokens estimated from the
\* request, and the time it took.
Failure(usage, saved, took) ==
    /\ live' = Recorded(Requested(live, saved), NoUsage, 0, Unmeasured)
    /\ Logs(Record(FALSE, 500, usage, [NotTimed EXCEPT !.total = took], Unmeasured, saved))
    /\ UNCHANGED earlier

\* serve_cached
Hit(usage, saved) ==
    /\ live' = LET m == Requested(live, saved) IN [m EXCEPT !.hits = @ + 1, !.turns = @ + 1]
    /\ Logs(Record(TRUE, 200, usage, NotTimed, Unmeasured, saved))
    /\ UNCHANGED earlier

\* A request whose connection breaks, or whose reply is empty.
NoReply(saved) ==
    /\ live' = Requested(live, saved)
    /\ UNCHANGED <<journal, earlier>>

Joined2(a, b) ==
    [requests |-> a.requests + b.requests, turns |-> a.turns + b.turns, hits |-> a.hits + b.hits,
     chars |-> a.chars + b.chars, reduced |-> a.reduced + b.reduced, input |-> a.input + b.input,
     cached |-> a.cached + b.cached, output |-> a.output + b.output,
     samples |-> [k \in DOMAIN NoSamples |-> a.samples[k] \o b.samples[k]]]

Restart ==
    /\ live # NoMetrics
    /\ live' = NoMetrics /\ earlier' = Joined2(earlier, live)
    /\ UNCHANGED journal

TelemetryInit == live = NoMetrics /\ journal = <<>> /\ earlier = NoMetrics
TelemetryNext ==
    \/ /\ Room
       /\ \E saved \in Saved :
             \/ \E t \in Timings, usage \in Usages : Reply(t, usage, saved)
             \/ \E usage \in Usages, took \in 1..MaxTime : Failure(usage, saved, took)
             \/ \E usage \in Usages : Hit(usage, saved)
             \/ NoReply(saved)
    \/ Restart
TelemetrySpec == TelemetryInit /\ [][TelemetryNext]_telemetryVars
-----------------------------------------------------------------------------
(* Properties. *)

Ever == Joined2(earlier, live)
Undamaged == \A i \in DOMAIN journal : Readable(journal[i])
IsReply(r) == Readable(r) /\ r.status = 200 /\ ~r.hit
Total(j, field) ==
    LET sum[n \in 0..Len(j)] ==
            IF n = 0 THEN 0
            ELSE IF IsReply(j[n]) THEN sum[n - 1] + j[n].usage[field] ELSE sum[n - 1]
    IN  sum[Len(j)]

(* The log tells what the proxies measured, and nothing else: with every     *)
(* answered request's record in it, the offline figures have the same        *)
(* requests, hits and samples, in the same order, as the live counters of    *)
(* all the processes that wrote it together; an unmeasured value is not      *)
(* measured again on the way back, and no hit or failure is a sample         *)
(* (aggregation.py:61-160).  The tokens agree for the replies only: those of *)
(* hits and failures are counted offline and not live.                       *)
OfflineAgreesWithLive ==
    Undamaged /\ Len(journal) = Ever.turns /\ Ever.turns > 0 =>
        LET read == Offline(journal) IN
        /\ read.requests = Ever.turns /\ read.hits = Ever.hits
        /\ read.samples = Ever.samples
        /\ \A field \in {"input", "cached", "output"} : Total(journal, field) = Ever[field]

\* a is b without some of its elements, in the same order.
MeetsNext(a, met, x) == met < Len(a) /\ a[met + 1] = x
IsWithin(a, b) ==
    LET met[n \in 0..Len(b)] ==
            IF n = 0 THEN 0
            ELSE LET before == met[n - 1] IN
                 IF MeetsNext(a, before, b[n]) THEN before + 1 ELSE before
    IN  met[Len(b)] = Len(a)

(* The figures are of every whole record in the log, wherever it is, in      *)
(* order, or there are none: a line that does not parse, torn or with a      *)
(* record written onto it, costs its own requests and no other               *)
(* (aggregation.py:222-226), and there are none only if no record is whole   *)
(* or a line was torn inside a character, of the text that is not escaped    *)
(* (wire_log.py:125): that costs the whole log (aggregation.py:215, 229-233).*)
FiguresAreOfAllOrNone ==
    LET read  == Offline(journal)
        whole == {i \in DOMAIN journal : Readable(journal[i])}
    IN  IF read = NoFigures THEN whole = {} \/ \E i \in DOMAIN journal : ~Decodes(journal[i])
        ELSE /\ read.requests = Cardinality(whole)
             /\ \A k \in DOMAIN NoSamples : IsWithin(read.samples[k], Ever.samples[k])

\* Of any stamps, those of a replayed flow too.
ClocksAreNotMixed ==
    \A f \in Flows :
        LET t == Timing(f) IN
        /\ t.ttft < MaxTime /\ t.total < MaxTime /\ t.generation < MaxTime
        /\ t.ttft # 0 /\ t.total # 0 => t.ttft + t.generation <= t.total
        /\ ~f.streaming => t.generation = 0

(* One clock measures a flow: a missing stamp "must never be replaced by     *)
(* now" (record_metrics.py:60-63), so no time is longer than the flow and    *)
(* the parts fit in the whole; what the averages count as decoding is a      *)
(* stream's window of at least the floor (metrics_math.py:111-131).          *)
MeasuredByOneClock ==
    /\ ClocksAreNotMixed
    /\ \A i \in DOMAIN Ever.samples.decode : Ever.samples.decode[i].seconds >= Floor

(* The tokens saved, in memory the sum of each request's characters over     *)
(* four, from the log the whole sum over four, differ by less than one for   *)
(* each request, and the log's figure is the larger (metrics.py:59,          *)
(* aggregation.py:174).                                                      *)
SavingsDifferByRounding ==
    Undamaged /\ Len(journal) = Ever.requests /\ Ever.requests > 0 =>
        LET read == Offline(journal) IN
        /\ read.chars = Ever.chars
        /\ Ever.reduced <= read.reduced /\ read.reduced - Ever.reduced <= Ever.requests

(* The offline figures are the live ones of all the processes that wrote the *)
(* log: exactly, where the log is whole, by rounding in the tokens saved,    *)
(* without the requests of the lines that were lost, and not at all once a   *)
(* line does not decode (aggregation.py).                                    *)
FiguresAgreeWithLog == OfflineAgreesWithLive /\ FiguresAreOfAllOrNone /\ SavingsDifferByRounding
=============================================================================
