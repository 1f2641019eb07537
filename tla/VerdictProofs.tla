---------------------------- MODULE VerdictProofs ----------------------------
(***************************************************************************)
(* Proofs about Telemetry, TimingGate and AbWorkload: what the figures and *)
(* the log say of each other, for any flows, requests and losses of the    *)
(* log; what a job is compared with, for any artefacts in the store; and   *)
(* what a scorecard compares, for any number of turns, rounds, other       *)
(* agents and faults.                                                      *)
(***************************************************************************)
EXTENDS Telemetry, TimingGate, AbWorkload, SequenceFacts, FiniteSetTheorems, TLAPS

-----------------------------------------------------------------------------
(* The times of a flow, and the figures of the log (Telemetry) *)

Wall == {"start", "first", "end"}

\* A stamp of the wall clock, if it was taken.
WallStamp(taken, at) == IF taken THEN Epoch + at ELSE 0

FitsTheFlow(f, t) ==
    /\ t.ttft \in Nat /\ t.total \in Nat /\ t.generation \in Nat /\ t.streaming \in BOOLEAN
    /\ t.ttft < MaxTime /\ t.total < MaxTime /\ t.generation < MaxTime
    /\ t.ttft # 0 /\ t.total # 0 => t.ttft + t.generation <= t.total
    /\ ~f.streaming => t.generation = 0

LEMMA OneClock ==
    ASSUME TelemetryAssumption, NEW m \in Moments, InOrder(m), NEW seen \in BOOLEAN,
           NEW reply \in {"whole", "no_chunks", "chunks"}, NEW wall \in SUBSET Wall
    PROVE  FitsTheFlow(Stamped(m, seen, reply, wall), Timing(Stamped(m, seen, reply, wall)))
<1> DEFINE f == Stamped(m, seen, reply, wall)
           t == Timing(f)
<1>1. /\ m.headers \in 1..MaxTime /\ m.first \in 1..MaxTime /\ m.last \in 1..MaxTime
      /\ m.done \in 1..MaxTime
      /\ m.headers <= m.first /\ m.first <= m.last /\ m.last <= m.done
      /\ MaxTime \in Nat /\ Epoch \in Nat /\ Epoch > MaxTime + 1
  BY DEF Moments, InOrder, TelemetryAssumption
<1>2. /\ f.start = IF seen THEN 1 ELSE 0
      /\ f.headers = m.headers
      /\ f.first = IF reply = "chunks" THEN m.first ELSE 0
      /\ f.last = IF reply = "chunks" THEN m.last ELSE 0
      /\ f.completed = m.done
      /\ f.wallStart = WallStamp("start" \in wall, 1)
      /\ f.wallFirst = WallStamp("first" \in wall, m.headers)
      /\ f.wallEnd = WallStamp("end" \in wall, m.done)
      /\ f.streaming \in BOOLEAN /\ (f.streaming <=> reply # "whole")
  BY DEF Stamped, WallStamp
<1> HIDE DEF f
<1>3. CASE seen
  <2>1. f.start # 0 /\ f.start = 1
    BY <1>2, <1>3
  <2> DEFINE end == IF f.streaming /\ f.last # 0 THEN f.last ELSE f.completed
             ttft == Between(1, IF f.first # 0 THEN f.first ELSE f.headers)
             total == Between(1, end)
  <2>2. t = [ttft |-> ttft, total |-> total,
             generation |-> IF ~f.streaming THEN 0
                            ELSE IF f.first # 0 /\ end # 0 THEN Positive(end - f.first)
                            ELSE IF total # 0 /\ ttft # 0 THEN Positive(total - ttft) ELSE 0,
             streaming |-> f.streaming]
    BY <2>1 DEF Timing
  <2> HIDE DEF t
  <2>3. /\ t.ttft = ttft /\ t.total = total /\ t.streaming = f.streaming
        /\ t.generation = IF ~f.streaming THEN 0
                            ELSE IF f.first # 0 /\ end # 0 THEN Positive(end - f.first)
                            ELSE IF total # 0 /\ ttft # 0 THEN Positive(total - ttft) ELSE 0
    BY <2>2
  <2>4. CASE reply = "chunks"
    <3>1. f.first = m.first /\ f.last = m.last /\ f.streaming /\ f.first # 0 /\ f.last # 0
      BY <1>1, <1>2, <2>4
    <3>2. ttft = m.first - 1 /\ total = m.last - 1 /\ end = m.last /\ end # 0
      BY <1>1, <3>1 DEF Between, Positive
    <3>3. t.generation = m.last - m.first
      BY <1>1, <2>3, <3>1, <3>2 DEF Positive
    <3> HIDE DEF ttft, total, end
    <3> QED BY <1>1, <2>3, <3>1, <3>2, <3>3 DEF f, t, FitsTheFlow
  <2>5. CASE reply # "chunks"
    <3>1. f.first = 0 /\ f.last = 0 /\ f.streaming \in BOOLEAN
      BY <1>2, <2>5
    <3>2. ttft = m.headers - 1 /\ total = m.done - 1
      BY <1>1, <1>2, <3>1 DEF Between, Positive
    <3>3. t.generation = 0 \/ t.generation = total - ttft
      <4> HIDE DEF ttft, total
      <4> QED BY <1>1, <2>3, <3>1, <3>2 DEF Positive
    <3>4. ~f.streaming => t.generation = 0
      BY <2>3
    <3> HIDE DEF ttft, total, end
    <3> QED BY <1>1, <2>3, <3>1, <3>2, <3>3, <3>4 DEF f, t, FitsTheFlow
  <2> QED BY <2>4, <2>5
<1>4. CASE ~seen
  <2>1. f.start = 0
    BY <1>2, <1>4
  <2> DEFINE ttft == Between(f.wallStart, f.wallFirst)
             total == Between(f.wallStart, f.wallEnd)
  <2>2. t = [ttft |-> ttft, total |-> total,
             generation |-> IF ~f.streaming THEN 0
                            ELSE IF f.wallFirst # 0 /\ f.wallEnd # 0 THEN Positive(f.wallEnd - f.wallFirst)
                            ELSE IF total # 0 /\ ttft # 0 THEN Positive(total - ttft) ELSE 0,
             streaming |-> f.streaming]
    BY <2>1 DEF Timing
  <2> HIDE DEF t
  <2>3. /\ t.ttft = ttft /\ t.total = total /\ t.streaming = f.streaming
        /\ t.generation = IF ~f.streaming THEN 0
                          ELSE IF f.wallFirst # 0 /\ f.wallEnd # 0 THEN Positive(f.wallEnd - f.wallFirst)
                          ELSE IF total # 0 /\ ttft # 0 THEN Positive(total - ttft) ELSE 0
    BY <2>2
  <2>4. /\ f.wallStart = 0 \/ f.wallStart = Epoch + 1
        /\ f.wallFirst = 0 \/ f.wallFirst = Epoch + m.headers
        /\ f.wallEnd = 0 \/ f.wallEnd = Epoch + m.done
        /\ f.streaming \in BOOLEAN
    BY <1>2 DEF WallStamp
  <2>5. /\ ttft = 0 \/ (ttft = m.headers - 1 /\ f.wallFirst = Epoch + m.headers /\ f.wallFirst # 0)
        /\ total = 0 \/ (total = m.done - 1 /\ f.wallEnd = Epoch + m.done /\ f.wallEnd # 0)
    BY <1>1, <2>4 DEF Between, Positive
  <2> HIDE DEF ttft, total
  <2>6. /\ t.generation \in Nat /\ t.generation < MaxTime
        /\ t.ttft # 0 /\ t.total # 0 => t.generation <= m.done - m.headers
        /\ ~f.streaming => t.generation = 0
    <3>1. CASE ~f.streaming
      BY <1>1, <2>3, <3>1
    <3>2. CASE f.streaming /\ f.wallFirst # 0 /\ f.wallEnd # 0
      <4>1. t.generation = Positive(f.wallEnd - f.wallFirst)
        BY <2>3, <3>2
      <4>2. f.wallEnd - f.wallFirst = m.done - m.headers
        BY <1>1, <2>4, <3>2
      <4> QED BY <1>1, <3>2, <4>1, <4>2 DEF Positive
    <3>3. CASE f.streaming /\ ~(f.wallFirst # 0 /\ f.wallEnd # 0)
      <4>1. ttft = 0 \/ total = 0
        BY <2>5, <3>3
      <4>2. t.generation = 0
        BY <2>3, <3>3, <4>1
      <4> QED BY <1>1, <3>3, <4>2
    <3> QED BY <2>4, <3>1, <3>2, <3>3
  <2> QED BY <1>1, <2>3, <2>4, <2>5, <2>6 DEF f, t, FitsTheFlow
<1> QED BY <1>3, <1>4

LEMMA FlowsByOneClock ==
    ASSUME TelemetryAssumption, NEW f \in Flows
    PROVE  FitsTheFlow(f, Timing(f))
<1>1. PICK m \in {n \in Moments : InOrder(n)}, seen \in BOOLEAN,
           reply \in {"whole", "no_chunks", "chunks"}, wall \in SUBSET Wall :
               f = Stamped(m, seen, reply, wall)
  BY DEF Flows, Wall
<1>2. m \in Moments /\ InOrder(m)
  OBVIOUS
<1> HIDE DEF Wall
<1> QED BY <1>1, <1>2, OneClock, Zenon
-----------------------------------------------------------------------------
(* Types *)

Rates == [tokens : Nat, seconds : Nat]
LongRates == {r \in Rates : r.seconds >= Floor}
RateSet == [prefill : Rates, tail : Rates, decode : LongRates \cup {NoRate}]
UsageSet == [input : Nat, cached : Nat, output : Nat]
SampleSet == [ttft : Seq(Nat), prefill : Seq(Rates), tail : Seq(Rates), decode : Seq(LongRates)]
Metrics == [requests : Nat, turns : Nat, hits : Nat, chars : Nat, reduced : Nat,
            input : Nat, cached : Nat, output : Nat, samples : SampleSet]
Records == [hit : BOOLEAN, status : {200, 500}, saved : Nat, rates : RateSet,
            streaming : BOOLEAN, usage : UsageSet, ttft : Nat, total : Nat, generation : Nat]

DamagedLines == [decodes : BOOLEAN, ended : BOOLEAN]

LEMMA RecordsAreReadable == ASSUME NEW r \in Records PROVE Readable(r) /\ Decodes(r)
<1>1. DOMAIN r = {"hit", "status", "saved", "rates", "streaming", "usage", "ttft", "total", "generation"}
  BY DEF Records
<1>2. "hit" # "decodes" /\ "hit" # "ended"
  OBVIOUS
<1>3. \A x : x \in [decodes : BOOLEAN, ended : BOOLEAN] \/ x \in [decodes : {FALSE}, ended : BOOLEAN]
                => DOMAIN x = {"decodes", "ended"}
  OBVIOUS
<1> QED BY <1>1, <1>2, <1>3 DEF Readable, Decodes

LEMMA DamagedAreNot ==
    /\ \A x \in DamagedLines : ~Readable(x) /\ x \notin Records
    /\ Torn \in DamagedLines /\ Cut \in DamagedLines
    /\ \A decodes, ended \in BOOLEAN : Damaged(decodes, ended) \in DamagedLines
<1>1. \A x \in DamagedLines : ~Readable(x)
  BY DEF DamagedLines, Readable
<1>2. \A decodes, ended \in BOOLEAN : Damaged(decodes, ended) \in DamagedLines
  BY DEF DamagedLines, Damaged
<1>3. Torn \in DamagedLines /\ Cut \in DamagedLines
  BY <1>2 DEF Torn, Cut
<1> QED BY <1>1, <1>2, <1>3, RecordsAreReadable, Zenon

LEMMA RateType ==
    ASSUME NEW tokens \in Nat, NEW seconds \in Nat
    PROVE  Rate(tokens, seconds) \in Rates /\ NoRate \in Rates
BY DEF Rate, NoRate, Rates

LEMMA RatesType ==
    ASSUME TelemetryAssumption, NEW usage \in UsageSet, NEW t, t.ttft \in Nat, t.generation \in Nat
    PROVE  TelemetryOf(usage, t) \in RateSet /\ Unmeasured \in RateSet
<1>1. /\ usage.input \in Nat /\ usage.cached \in Nat /\ usage.output \in Nat
  BY DEF UsageSet
<1>2. Uncached(usage) \in Nat
  BY <1>1 DEF Uncached, Positive
<1>3. DecodeRate(usage.output, t.generation, t.streaming) \in LongRates \cup {NoRate}
  BY <1>1 DEF DecodeRate, Rate, NoRate, LongRates, Rates
<1>4. Rate(usage.input, t.ttft) \in Rates /\ Rate(Uncached(usage), t.ttft) \in Rates /\ NoRate \in Rates
  BY <1>1, <1>2, RateType
<1> QED BY <1>3, <1>4 DEF TelemetryOf, Unmeasured, RateSet

LEMMA SampledType ==
    ASSUME NEW T, NEW s \in Seq(T), NEW none, NEW x, x = none \/ x \in T
    PROVE  Sampled(s, x, none) \in Seq(T)
BY DEF Sampled

LEMMA SampleAllType ==
    ASSUME NEW s \in SampleSet, NEW ttft \in Nat, NEW rates \in RateSet
    PROVE  SampleAll(s, ttft, rates) \in SampleSet
<1>1. /\ s.ttft \in Seq(Nat) /\ s.prefill \in Seq(Rates) /\ s.tail \in Seq(Rates)
      /\ s.decode \in Seq(LongRates)
  BY DEF SampleSet
<1>2. /\ rates.prefill \in Rates /\ rates.tail \in Rates
      /\ rates.decode = NoRate \/ rates.decode \in LongRates
  BY DEF RateSet
<1>3. Sampled(s.ttft, ttft, 0) \in Seq(Nat)
  BY <1>1, SampledType
<1>4. Sampled(s.prefill, rates.prefill, NoRate) \in Seq(Rates)
  BY <1>1, <1>2, SampledType
<1>5. Sampled(s.tail, rates.tail, NoRate) \in Seq(Rates)
  BY <1>1, <1>2, SampledType
<1>6. Sampled(s.decode, rates.decode, NoRate) \in Seq(LongRates)
  BY <1>1, <1>2, SampledType
<1> QED BY <1>3, <1>4, <1>5, <1>6 DEF SampleAll, SampleSet
-----------------------------------------------------------------------------
(* The counters of all the processes *)

LEMMA JoinedSamples ==
    ASSUME NEW a \in Metrics, NEW b \in Metrics
    PROVE  Joined2(a, b).samples = [ttft |-> a.samples.ttft \o b.samples.ttft,
                                    prefill |-> a.samples.prefill \o b.samples.prefill,
                                    tail |-> a.samples.tail \o b.samples.tail,
                                    decode |-> a.samples.decode \o b.samples.decode]
<1> DEFINE x == [ttft |-> a.samples.ttft \o b.samples.ttft,
                 prefill |-> a.samples.prefill \o b.samples.prefill,
                 tail |-> a.samples.tail \o b.samples.tail,
                 decode |-> a.samples.decode \o b.samples.decode]
<1>1. Joined2(a, b).samples = [k \in DOMAIN NoSamples |-> a.samples[k] \o b.samples[k]]
  BY DEF Joined2
<1>2. DOMAIN NoSamples = {"ttft", "prefill", "tail", "decode"}
  BY DEF NoSamples
<1>3. DOMAIN x = {"ttft", "prefill", "tail", "decode"}
  OBVIOUS
<1>4. /\ x["ttft"] = a.samples["ttft"] \o b.samples["ttft"]
      /\ x["prefill"] = a.samples["prefill"] \o b.samples["prefill"]
      /\ x["tail"] = a.samples["tail"] \o b.samples["tail"]
      /\ x["decode"] = a.samples["decode"] \o b.samples["decode"]
  OBVIOUS
<1>5. x = [k \in DOMAIN x |-> x[k]]
  OBVIOUS
<1> HIDE DEF x
<1>6. x = [k \in DOMAIN NoSamples |-> a.samples[k] \o b.samples[k]]
  BY <1>2, <1>3, <1>4, <1>5
<1> QED BY <1>1, <1>6 DEF x

\* The samples of two, the one's before the other's.
JoinedTo(s, u) == [ttft |-> s.ttft \o u.ttft, prefill |-> s.prefill \o u.prefill,
                   tail |-> s.tail \o u.tail, decode |-> s.decode \o u.decode]

LEMMA SamplesOfJoined ==
    ASSUME NEW a \in Metrics, NEW b \in Metrics
    PROVE  /\ Joined2(a, b).samples = JoinedTo(a.samples, b.samples)
           /\ a.samples \in SampleSet /\ b.samples \in SampleSet
<1>1. a.samples \in SampleSet /\ b.samples \in SampleSet
  BY DEF Metrics
<1> QED BY <1>1, JoinedSamples DEF JoinedTo

LEMMA ConcatType ==
    ASSUME NEW T, NEW s \in Seq(T), NEW u \in Seq(T)
    PROVE  s \o u \in Seq(T)
OBVIOUS

LEMMA JoinedToType ==
    ASSUME NEW s \in SampleSet, NEW u \in SampleSet
    PROVE  JoinedTo(s, u) \in SampleSet
<1> DEFINE s1 == s.ttft  s2 == s.prefill  s3 == s.tail  s4 == s.decode
           u1 == u.ttft  u2 == u.prefill  u3 == u.tail  u4 == u.decode
<1>1. /\ s1 \in Seq(Nat) /\ s2 \in Seq(Rates) /\ s3 \in Seq(Rates) /\ s4 \in Seq(LongRates)
      /\ u1 \in Seq(Nat) /\ u2 \in Seq(Rates) /\ u3 \in Seq(Rates) /\ u4 \in Seq(LongRates)
  BY DEF SampleSet
<1>2. JoinedTo(s, u) = [ttft |-> s1 \o u1, prefill |-> s2 \o u2, tail |-> s3 \o u3, decode |-> s4 \o u4]
  BY DEF JoinedTo
<1> HIDE DEF s1, s2, s3, s4, u1, u2, u3, u4
<1> DEFINE v1 == s1 \o u1  v2 == s2 \o u2  v3 == s3 \o u3  v4 == s4 \o u4
<1>3. v1 \in Seq(Nat) /\ v2 \in Seq(Rates) /\ v3 \in Seq(Rates) /\ v4 \in Seq(LongRates)
  BY <1>1, ConcatType
<1>4. JoinedTo(s, u) = [ttft |-> v1, prefill |-> v2, tail |-> v3, decode |-> v4]
  BY <1>2
<1> HIDE DEF v1, v2, v3, v4
<1> QED BY <1>3, <1>4 DEF SampleSet

LEMMA JoinedType ==
    ASSUME NEW a \in Metrics, NEW b \in Metrics
    PROVE  Joined2(a, b) \in Metrics
<1> DEFINE s == Joined2(a, b).samples
<1>3. s \in SampleSet
  BY SamplesOfJoined, JoinedToType
<1>4. /\ a.requests + b.requests \in Nat /\ a.turns + b.turns \in Nat /\ a.hits + b.hits \in Nat
      /\ a.chars + b.chars \in Nat /\ a.reduced + b.reduced \in Nat
      /\ a.input + b.input \in Nat /\ a.cached + b.cached \in Nat /\ a.output + b.output \in Nat
  BY DEF Metrics
<1>5. [k \in DOMAIN NoSamples |-> a.samples[k] \o b.samples[k]] = s
  BY DEF Joined2
<1> HIDE DEF s
<1> QED BY <1>3, <1>4, <1>5 DEF Joined2, Metrics

LEMMA SampledConcat ==
    ASSUME NEW T, NEW s \in Seq(T), NEW u \in Seq(T), NEW none, NEW x, x = none \/ x \in T
    PROVE  s \o Sampled(u, x, none) = Sampled(s \o u, x, none)
<1>1. CASE x = none
  BY <1>1 DEF Sampled
<1>2. CASE x # none
  <2>1. x \in T
    BY <1>2
  <2>2. s \o Append(u, x) = Append(s \o u, x)
    BY <2>1
  <2> QED BY <1>2, <2>2 DEF Sampled
<1> QED BY <1>1, <1>2

LEMMA SamplesJoin ==
    ASSUME NEW s \in SampleSet, NEW u \in SampleSet, NEW ttft \in Nat, NEW rates \in RateSet
    PROVE  JoinedTo(s, SampleAll(u, ttft, rates)) = SampleAll(JoinedTo(s, u), ttft, rates)
<1> DEFINE s1 == s.ttft  s2 == s.prefill  s3 == s.tail  s4 == s.decode
           u1 == u.ttft  u2 == u.prefill  u3 == u.tail  u4 == u.decode
           r2 == rates.prefill  r3 == rates.tail  r4 == rates.decode
<1>1. /\ s1 \in Seq(Nat) /\ s2 \in Seq(Rates) /\ s3 \in Seq(Rates) /\ s4 \in Seq(LongRates)
      /\ u1 \in Seq(Nat) /\ u2 \in Seq(Rates) /\ u3 \in Seq(Rates) /\ u4 \in Seq(LongRates)
  BY DEF SampleSet
<1>2. r2 \in Rates /\ r3 \in Rates /\ (r4 = NoRate \/ r4 \in LongRates)
  BY DEF RateSet
<1>3. JoinedTo(s, SampleAll(u, ttft, rates)) =
          [ttft |-> s1 \o Sampled(u1, ttft, 0), prefill |-> s2 \o Sampled(u2, r2, NoRate),
           tail |-> s3 \o Sampled(u3, r3, NoRate), decode |-> s4 \o Sampled(u4, r4, NoRate)]
  BY DEF JoinedTo, SampleAll
<1>4. SampleAll(JoinedTo(s, u), ttft, rates) =
          [ttft |-> Sampled(s1 \o u1, ttft, 0), prefill |-> Sampled(s2 \o u2, r2, NoRate),
           tail |-> Sampled(s3 \o u3, r3, NoRate), decode |-> Sampled(s4 \o u4, r4, NoRate)]
  BY DEF JoinedTo, SampleAll
<1> HIDE DEF s1, s2, s3, s4, u1, u2, u3, u4, r2, r3, r4
<1>5. s1 \o Sampled(u1, ttft, 0) = Sampled(s1 \o u1, ttft, 0)
  <2> DEFINE T == Nat
  <2>1. s1 \in Seq(T) /\ u1 \in Seq(T) /\ ttft \in T
    BY <1>1
  <2> HIDE DEF T
  <2> QED BY <2>1, SampledConcat
<1>6. s2 \o Sampled(u2, r2, NoRate) = Sampled(s2 \o u2, r2, NoRate)
  BY <1>1, <1>2, SampledConcat
<1>7. s3 \o Sampled(u3, r3, NoRate) = Sampled(s3 \o u3, r3, NoRate)
  BY <1>1, <1>2, SampledConcat
<1>8. s4 \o Sampled(u4, r4, NoRate) = Sampled(s4 \o u4, r4, NoRate)
  <2>1. s4 \in Seq(LongRates) /\ u4 \in Seq(LongRates)
    BY <1>1
  <2>2. r4 = NoRate \/ r4 \in LongRates
    BY <1>2
  <2>3. CASE r4 = NoRate
    BY <2>3 DEF Sampled
  <2>4. CASE r4 \in LongRates
    <3> DEFINE T == LongRates
    <3>1. s4 \in Seq(T) /\ u4 \in Seq(T) /\ r4 \in T
      BY <2>1, <2>4
    <3> HIDE DEF T
    <3> QED BY <3>1, SampledConcat
  <2> QED BY <2>2, <2>3, <2>4
<1> QED BY <1>3, <1>4, <1>5, <1>6, <1>7, <1>8, Zenon
-----------------------------------------------------------------------------
(* The lines of the log, read one after the other. *)

LogLines == Records \cup DamagedLines
Fields == {"input", "cached", "output"}

ReadOn(m, x) == IF Readable(x) THEN ReadRecord(m, x) ELSE m
TotalNext(sum, x, field) == IF IsReply(x) THEN sum + x.usage[field] ELSE sum

LEMMA ReadableLine == ASSUME NEW x \in LogLines PROVE Readable(x) <=> x \in Records
BY RecordsAreReadable, DamagedAreNot DEF LogLines

LEMMA RatesOfType == ASSUME NEW r \in Records PROVE RatesOf(r) \in RateSet
<1>1. /\ r.usage \in UsageSet /\ r.rates \in RateSet /\ r.ttft \in Nat
  BY DEF Records
<1>2. r.usage.input \in Nat /\ Uncached(r.usage) \in Nat
  BY <1>1 DEF UsageSet, Uncached, Positive
<1>3. Rate(r.usage.input, r.ttft) \in Rates /\ Rate(Uncached(r.usage), r.ttft) \in Rates
  BY <1>1, <1>2, RateType
<1>4. /\ r.rates.prefill \in Rates /\ r.rates.tail \in Rates
      /\ r.rates.decode \in LongRates \cup {NoRate}
  BY <1>1 DEF RateSet
<1> QED BY <1>3, <1>4 DEF RatesOf, StoredRate, RateSet

LEMMA ReadRecordType ==
    ASSUME NEW m \in Metrics, NEW r \in Records
    PROVE  ReadRecord(m, r) \in Metrics
<1> DEFINE s == SampleAll(m.samples, r.ttft, RatesOf(r))
           hits == IF r.hit THEN 1 ELSE 0
           saved == r.saved  input == r.usage.input  cached == r.usage.cached  output == r.usage.output
<1>1. s \in SampleSet
  <2>1. m.samples \in SampleSet /\ r.ttft \in Nat
    BY DEF Metrics, Records
  <2> QED BY <2>1, RatesOfType, SampleAllType
<1>2. /\ saved \in Nat /\ input \in Nat /\ cached \in Nat /\ output \in Nat
      /\ hits \in Nat
  BY DEF Records, UsageSet
<1>3. /\ m.requests \in Nat /\ m.turns \in Nat /\ m.hits \in Nat /\ m.chars \in Nat
      /\ m.reduced \in Nat /\ m.input \in Nat /\ m.cached \in Nat /\ m.output \in Nat
  BY DEF Metrics
<1>4. ReadRecord(m, r) = [m EXCEPT !.requests = @ + 1, !.turns = @ + 1, !.hits = @ + hits,
              !.chars = @ + saved, !.input = @ + input, !.cached = @ + cached,
              !.output = @ + output, !.samples = s]
  BY DEF ReadRecord
<1> HIDE DEF s, hits, saved, input, cached, output
<1>5. ReadRecord(m, r) = [requests |-> m.requests + 1, turns |-> m.turns + 1, hits |-> m.hits + hits,
              chars |-> m.chars + saved, reduced |-> m.reduced, input |-> m.input + input,
              cached |-> m.cached + cached, output |-> m.output + output, samples |-> s]
  BY <1>4 DEF Metrics
<1> QED BY <1>1, <1>2, <1>3, <1>5 DEF Metrics

LEMMA ReadBase == NoMetrics \in Metrics /\ NoSamples \in SampleSet
<1>1. NoSamples \in SampleSet
  BY DEF NoSamples, SampleSet
<1> HIDE DEF NoSamples
<1> QED BY <1>1 DEF NoMetrics, Metrics

LEMMA ReadOnType == ASSUME NEW m \in Metrics, NEW x \in LogLines PROVE ReadOn(m, x) \in Metrics
BY ReadableLine, ReadRecordType DEF ReadOn

ReadSoFar(j) ==
    CHOOSE read : read = [n \in 0..Len(j) |->
        IF n = 0 THEN NoMetrics ELSE ReadOn(read[n - 1], j[n])]

LEMMA ReadSoFarLast ==
    ASSUME NEW j
    PROVE  ReadLines(j) = ReadSoFar(j)[Len(j)]
BY DEF ReadLines, ReadSoFar, ReadOn

LEMMA ReadSoFarDef ==
    ASSUME NEW j \in Seq(LogLines)
    PROVE  /\ ReadSoFar(j) \in [0..Len(j) -> Metrics]
           /\ ReadSoFar(j)[0] = NoMetrics
           /\ \A n \in 1..Len(j) : ReadSoFar(j)[n] = ReadOn(ReadSoFar(j)[n - 1], j[n])
<1> DEFINE F == [n \in 1..Len(j) |-> [m \in Metrics |-> ReadOn(m, j[n])]]
           k == ReadSoFar(j)
<1>1. Len(j) \in Nat /\ \A n \in 1..Len(j) : j[n] \in LogLines
  OBVIOUS
<1>2. NoMetrics \in Metrics
  BY ReadBase
<1>3. F \in StepFunctions(Metrics, Len(j))
  BY <1>1, ReadOnType DEF StepFunctions
<1>4. PICK f : Recursion(f, Metrics, NoMetrics, F, Len(j))
  <2> HIDE DEF F
  <2>1. Len(j) \in Nat
    OBVIOUS
  <2> QED BY <1>2, <1>3, <2>1, RecursionExists
<1>5. f \in [0..Len(j) -> Metrics] /\ f[0] = NoMetrics
  BY <1>4 DEF Recursion
<1>6. \A n \in 1..Len(j) : f[n] = ReadOn(f[n - 1], j[n])
  <2>1. ASSUME NEW n \in 1..Len(j) PROVE f[n] = ReadOn(f[n - 1], j[n])
    <3>1. f[n] = F[n][f[n - 1]]
      <4> HIDE DEF F
      <4> QED BY <1>4 DEF Recursion
    <3>2. n - 1 \in 0..Len(j)
      BY <1>1
    <3>3. f[n - 1] \in Metrics
      BY <1>5, <3>2
    <3> QED BY <3>1, <3>3
  <2> QED BY <2>1
<1>7. \A n \in 0..Len(j) : n = 0 \/ n \in 1..Len(j)
  BY <1>1
<1>8. f = [n \in 0..Len(j) |-> IF n = 0 THEN NoMetrics ELSE ReadOn(f[n - 1], j[n])]
  <2>1. f = [n \in 0..Len(j) |-> f[n]]
    BY <1>5
  <2>2. \A n \in 0..Len(j) : f[n] = IF n = 0 THEN NoMetrics ELSE ReadOn(f[n - 1], j[n])
    BY <1>5, <1>6, <1>7
  <2> QED BY <2>1, <2>2
<1>9. k = [n \in 0..Len(j) |-> IF n = 0 THEN NoMetrics ELSE ReadOn(k[n - 1], j[n])]
  BY <1>8 DEF ReadSoFar
<1>10. /\ DOMAIN k = 0..Len(j) /\ k = [n \in 0..Len(j) |-> k[n]]
       /\ k[0] = NoMetrics /\ \A n \in 1..Len(j) : k[n] = ReadOn(k[n - 1], j[n])
  <2>1. \A n \in 1..Len(j) : n \in 0..Len(j) /\ n # 0
    BY <1>1
  <2>2. 0 \in 0..Len(j)
    BY <1>1
  <2> HIDE DEF k
  <2> QED BY <1>9, <2>1, <2>2
<1>11. \A n \in 0..Len(j) : k[n] = f[n]
  <2>1. k[0] = f[0] /\ \A n \in 1..Len(j) : k[n - 1] = f[n - 1] => k[n] = f[n]
    <3> HIDE DEF k
    <3> QED BY <1>5, <1>6, <1>10
  <2> HIDE DEF k
  <2> QED BY <1>1, <2>1, Agreement
<1>12. k \in [0..Len(j) -> Metrics]
  <2> HIDE DEF k
  <2> QED BY <1>5, <1>10, <1>11
<1> QED BY <1>10, <1>12

LEMMA ReadAppend ==
    ASSUME NEW j \in Seq(LogLines), NEW x \in LogLines
    PROVE  /\ ReadLines(Append(j, x)) = ReadOn(ReadLines(j), x)
           /\ ReadLines(j) \in Metrics
<1> DEFINE t == Append(j, x)
           k == ReadSoFar(j)
           l == ReadSoFar(t)
<1>1. /\ t \in Seq(LogLines) /\ Len(t) = Len(j) + 1 /\ Len(j) \in Nat
      /\ \A n \in 1..Len(j) : t[n] = j[n]
      /\ t[Len(j) + 1] = x
  OBVIOUS
<1> HIDE DEF t
<1>2. /\ k \in [0..Len(j) -> Metrics] /\ k[0] = l[0]
      /\ \A n \in 1..Len(j) : k[n] = ReadOn(k[n - 1], j[n])
      /\ \A n \in 1..Len(t) : l[n] = ReadOn(l[n - 1], t[n])
  BY <1>1, ReadSoFarDef
<1> HIDE DEF k, l
<1>3. k[Len(j)] = l[Len(j)]
  <2>1. \A n \in 1..Len(j) : k[n - 1] = l[n - 1] => k[n] = l[n]
    BY <1>1, <1>2
  <2>2. \A n \in 0..Len(j) : k[n] = l[n]
    <3>1. Len(j) \in Nat /\ k[0] = l[0]
      BY <1>1, <1>2
    <3> QED BY <2>1, <3>1, Agreement
  <2> QED BY <1>1, <2>2
<1>4. l[Len(t)] = ReadOn(k[Len(j)], x)
  BY <1>1, <1>2, <1>3
<1>5. ReadLines(j) = k[Len(j)] /\ ReadLines(t) = l[Len(t)]
  BY ReadSoFarLast DEF k, l
<1> QED BY <1>1, <1>2, <1>4, <1>5 DEF t

LEMMA ReadAppendNone ==
    ASSUME NEW j \in Seq(LogLines), j = <<>>
    PROVE  ReadLines(j) = NoMetrics
<1>1. Len(j) = 0
  OBVIOUS
<1> QED BY <1>1, ReadSoFarDef, ReadSoFarLast

LEMMA TotalBase == 0 \in Nat
OBVIOUS

LEMMA TotalType ==
    ASSUME NEW sum \in Nat, NEW x \in LogLines, NEW field \in Fields
    PROVE  TotalNext(sum, x, field) \in Nat
<1>1. CASE IsReply(x)
  <2>1. x \in Records
    BY <1>1, ReadableLine DEF IsReply
  <2>2. x.usage[field] \in Nat
    BY <2>1 DEF Records, UsageSet, Fields
  <2> QED BY <2>2 DEF TotalNext
<1>2. CASE ~IsReply(x)
  BY <1>2 DEF TotalNext
<1> QED BY <1>1, <1>2

TotalSoFar(j, field) ==
    CHOOSE sum : sum = [n \in 0..Len(j) |->
        IF n = 0 THEN 0 ELSE TotalNext(sum[n - 1], j[n], field)]

LEMMA TotalSoFarLast ==
    ASSUME NEW j, NEW field
    PROVE  Total(j, field) = TotalSoFar(j, field)[Len(j)]
BY DEF Total, TotalSoFar, TotalNext

LEMMA TotalSoFarDef ==
    ASSUME NEW j \in Seq(LogLines), NEW field \in Fields
    PROVE  /\ TotalSoFar(j, field) \in [0..Len(j) -> Nat]
           /\ TotalSoFar(j, field)[0] = 0
           /\ \A n \in 1..Len(j) : TotalSoFar(j, field)[n] = TotalNext(TotalSoFar(j, field)[n - 1], j[n], field)
<1> DEFINE F == [n \in 1..Len(j) |-> [m \in Nat |-> TotalNext(m, j[n], field)]]
           k == TotalSoFar(j, field)
<1>1. Len(j) \in Nat /\ \A n \in 1..Len(j) : j[n] \in LogLines
  OBVIOUS
<1>2. 0 \in Nat
  BY TotalBase
<1>3. F \in StepFunctions(Nat, Len(j))
  BY <1>1, TotalType DEF StepFunctions
<1>4. PICK f : Recursion(f, Nat, 0, F, Len(j))
  <2> HIDE DEF F
  <2>1. Len(j) \in Nat
    OBVIOUS
  <2> QED BY <1>2, <1>3, <2>1, RecursionExists
<1>5. f \in [0..Len(j) -> Nat] /\ f[0] = 0
  BY <1>4 DEF Recursion
<1>6. \A n \in 1..Len(j) : f[n] = TotalNext(f[n - 1], j[n], field)
  <2>1. ASSUME NEW n \in 1..Len(j) PROVE f[n] = TotalNext(f[n - 1], j[n], field)
    <3>1. f[n] = F[n][f[n - 1]]
      <4> HIDE DEF F
      <4> QED BY <1>4 DEF Recursion
    <3>2. n - 1 \in 0..Len(j)
      BY <1>1
    <3>3. f[n - 1] \in Nat
      BY <1>5, <3>2
    <3> QED BY <3>1, <3>3
  <2> QED BY <2>1
<1>7. \A n \in 0..Len(j) : n = 0 \/ n \in 1..Len(j)
  BY <1>1
<1>8. f = [n \in 0..Len(j) |-> IF n = 0 THEN 0 ELSE TotalNext(f[n - 1], j[n], field)]
  <2>1. f = [n \in 0..Len(j) |-> f[n]]
    BY <1>5
  <2>2. \A n \in 0..Len(j) : f[n] = IF n = 0 THEN 0 ELSE TotalNext(f[n - 1], j[n], field)
    BY <1>5, <1>6, <1>7
  <2> QED BY <2>1, <2>2
<1>9. k = [n \in 0..Len(j) |-> IF n = 0 THEN 0 ELSE TotalNext(k[n - 1], j[n], field)]
  BY <1>8 DEF TotalSoFar
<1>10. /\ DOMAIN k = 0..Len(j) /\ k = [n \in 0..Len(j) |-> k[n]]
       /\ k[0] = 0 /\ \A n \in 1..Len(j) : k[n] = TotalNext(k[n - 1], j[n], field)
  <2>1. \A n \in 1..Len(j) : n \in 0..Len(j) /\ n # 0
    BY <1>1
  <2>2. 0 \in 0..Len(j)
    BY <1>1
  <2> HIDE DEF k
  <2> QED BY <1>9, <2>1, <2>2
<1>11. \A n \in 0..Len(j) : k[n] = f[n]
  <2>1. k[0] = f[0] /\ \A n \in 1..Len(j) : k[n - 1] = f[n - 1] => k[n] = f[n]
    <3> HIDE DEF k
    <3> QED BY <1>5, <1>6, <1>10
  <2> HIDE DEF k
  <2> QED BY <1>1, <2>1, Agreement
<1>12. k \in [0..Len(j) -> Nat]
  <2> HIDE DEF k
  <2> QED BY <1>5, <1>10, <1>11
<1> QED BY <1>10, <1>12

LEMMA TotalAppend ==
    ASSUME NEW j \in Seq(LogLines), NEW field \in Fields, NEW x \in LogLines
    PROVE  /\ Total(Append(j, x), field) = TotalNext(Total(j, field), x, field)
           /\ Total(j, field) \in Nat
<1> DEFINE t == Append(j, x)
           k == TotalSoFar(j, field)
           l == TotalSoFar(t, field)
<1>1. /\ t \in Seq(LogLines) /\ Len(t) = Len(j) + 1 /\ Len(j) \in Nat
      /\ \A n \in 1..Len(j) : t[n] = j[n]
      /\ t[Len(j) + 1] = x
  OBVIOUS
<1> HIDE DEF t
<1>2. /\ k \in [0..Len(j) -> Nat] /\ k[0] = l[0]
      /\ \A n \in 1..Len(j) : k[n] = TotalNext(k[n - 1], j[n], field)
      /\ \A n \in 1..Len(t) : l[n] = TotalNext(l[n - 1], t[n], field)
  BY <1>1, TotalSoFarDef
<1> HIDE DEF k, l
<1>3. k[Len(j)] = l[Len(j)]
  <2>1. \A n \in 1..Len(j) : k[n - 1] = l[n - 1] => k[n] = l[n]
    BY <1>1, <1>2
  <2>2. \A n \in 0..Len(j) : k[n] = l[n]
    <3>1. Len(j) \in Nat /\ k[0] = l[0]
      BY <1>1, <1>2
    <3> QED BY <2>1, <3>1, Agreement
  <2> QED BY <1>1, <2>2
<1>4. l[Len(t)] = TotalNext(k[Len(j)], x, field)
  BY <1>1, <1>2, <1>3
<1>5. Total(j, field) = k[Len(j)] /\ Total(t, field) = l[Len(t)]
  BY TotalSoFarLast DEF k, l
<1> QED BY <1>1, <1>2, <1>4, <1>5 DEF t

LEMMA TotalAppendNone ==
    ASSUME NEW j \in Seq(LogLines), NEW field \in Fields, j = <<>>
    PROVE  Total(j, field) = 0
<1>1. Len(j) = 0
  OBVIOUS
<1> QED BY <1>1, TotalSoFarDef, TotalSoFarLast

-----------------------------------------------------------------------------
(* A sequence within another *)

MetNext(met, a, x) == IF MeetsNext(a, met, x) THEN met + 1 ELSE met

LEMMA MetBase == 0 \in Nat
OBVIOUS

LEMMA MetType == ASSUME NEW met \in Nat, NEW a, NEW x PROVE MetNext(met, a, x) \in Nat
BY DEF MetNext

MetSoFar(a, b) ==
    CHOOSE met : met = [n \in 0..Len(b) |->
        IF n = 0 THEN 0 ELSE MetNext(met[n - 1], a, b[n])]

LEMMA MetSoFarLast ==
    ASSUME NEW a, NEW b
    PROVE  IsWithin(a, b) <=> MetSoFar(a, b)[Len(b)] = Len(a)
BY DEF IsWithin, MetSoFar, MetNext

LEMMA MetSoFarDef ==
    ASSUME NEW a, NEW T, NEW b \in Seq(T)
    PROVE  /\ MetSoFar(a, b) \in [0..Len(b) -> Nat]
           /\ MetSoFar(a, b)[0] = 0
           /\ \A n \in 1..Len(b) : MetSoFar(a, b)[n] = MetNext(MetSoFar(a, b)[n - 1], a, b[n])
<1> DEFINE F == [n \in 1..Len(b) |-> [m \in Nat |-> MetNext(m, a, b[n])]]
           k == MetSoFar(a, b)
<1>1. Len(b) \in Nat /\ \A n \in 1..Len(b) : b[n] \in T
  OBVIOUS
<1>2. 0 \in Nat
  BY MetBase
<1>3. F \in StepFunctions(Nat, Len(b))
  BY <1>1, MetType DEF StepFunctions
<1>4. PICK f : Recursion(f, Nat, 0, F, Len(b))
  <2> HIDE DEF F
  <2>1. Len(b) \in Nat
    OBVIOUS
  <2> QED BY <1>2, <1>3, <2>1, RecursionExists
<1>5. f \in [0..Len(b) -> Nat] /\ f[0] = 0
  BY <1>4 DEF Recursion
<1>6. \A n \in 1..Len(b) : f[n] = MetNext(f[n - 1], a, b[n])
  <2>1. ASSUME NEW n \in 1..Len(b) PROVE f[n] = MetNext(f[n - 1], a, b[n])
    <3>1. f[n] = F[n][f[n - 1]]
      <4> HIDE DEF F
      <4> QED BY <1>4 DEF Recursion
    <3>2. n - 1 \in 0..Len(b)
      BY <1>1
    <3>3. f[n - 1] \in Nat
      BY <1>5, <3>2
    <3> QED BY <3>1, <3>3
  <2> QED BY <2>1
<1>7. \A n \in 0..Len(b) : n = 0 \/ n \in 1..Len(b)
  BY <1>1
<1>8. f = [n \in 0..Len(b) |-> IF n = 0 THEN 0 ELSE MetNext(f[n - 1], a, b[n])]
  <2>1. f = [n \in 0..Len(b) |-> f[n]]
    BY <1>5
  <2>2. \A n \in 0..Len(b) : f[n] = IF n = 0 THEN 0 ELSE MetNext(f[n - 1], a, b[n])
    BY <1>5, <1>6, <1>7
  <2> QED BY <2>1, <2>2
<1>9. k = [n \in 0..Len(b) |-> IF n = 0 THEN 0 ELSE MetNext(k[n - 1], a, b[n])]
  BY <1>8 DEF MetSoFar
<1>10. /\ DOMAIN k = 0..Len(b) /\ k = [n \in 0..Len(b) |-> k[n]]
       /\ k[0] = 0 /\ \A n \in 1..Len(b) : k[n] = MetNext(k[n - 1], a, b[n])
  <2>1. \A n \in 1..Len(b) : n \in 0..Len(b) /\ n # 0
    BY <1>1
  <2>2. 0 \in 0..Len(b)
    BY <1>1
  <2> HIDE DEF k
  <2> QED BY <1>9, <2>1, <2>2
<1>11. \A n \in 0..Len(b) : k[n] = f[n]
  <2>1. k[0] = f[0] /\ \A n \in 1..Len(b) : k[n - 1] = f[n - 1] => k[n] = f[n]
    <3> HIDE DEF k
    <3> QED BY <1>5, <1>6, <1>10
  <2> HIDE DEF k
  <2> QED BY <1>1, <2>1, Agreement
<1>12. k \in [0..Len(b) -> Nat]
  <2> HIDE DEF k
  <2> QED BY <1>5, <1>10, <1>11
<1> QED BY <1>10, <1>12

\* How many of a's elements b meets.
Met(a, b) == MetSoFar(a, b)[Len(b)]

LEMMA MetLast == ASSUME NEW a, NEW b PROVE Met(a, b) = MetSoFar(a, b)[Len(b)]
BY DEF Met

LEMMA MetAppend ==
    ASSUME NEW a, NEW T, NEW b \in Seq(T), NEW x \in T
    PROVE  /\ Met(a, Append(b, x)) = MetNext(Met(a, b), a, x)
           /\ Met(a, b) \in Nat
<1> DEFINE t == Append(b, x)
           k == MetSoFar(a, b)
           l == MetSoFar(a, t)
<1>1. /\ t \in Seq(T) /\ Len(t) = Len(b) + 1 /\ Len(b) \in Nat
      /\ \A n \in 1..Len(b) : t[n] = b[n]
      /\ t[Len(b) + 1] = x
  OBVIOUS
<1> HIDE DEF t
<1>2. /\ k \in [0..Len(b) -> Nat] /\ k[0] = l[0]
      /\ \A n \in 1..Len(b) : k[n] = MetNext(k[n - 1], a, b[n])
      /\ \A n \in 1..Len(t) : l[n] = MetNext(l[n - 1], a, t[n])
  BY <1>1, MetSoFarDef
<1> HIDE DEF k, l
<1>3. k[Len(b)] = l[Len(b)]
  <2>1. \A n \in 1..Len(b) : k[n - 1] = l[n - 1] => k[n] = l[n]
    BY <1>1, <1>2
  <2>2. \A n \in 0..Len(b) : k[n] = l[n]
    <3>1. Len(b) \in Nat /\ k[0] = l[0]
      BY <1>1, <1>2
    <3> QED BY <2>1, <3>1, Agreement
  <2> QED BY <1>1, <2>2
<1>4. l[Len(t)] = MetNext(k[Len(b)], a, x)
  BY <1>1, <1>2, <1>3
<1>5. Met(a, b) = k[Len(b)] /\ Met(a, t) = l[Len(t)]
  BY MetLast DEF k, l
<1> QED BY <1>1, <1>2, <1>4, <1>5 DEF t

LEMMA MetAppendNone ==
    ASSUME NEW a, NEW T, NEW b \in Seq(T), b = <<>>
    PROVE  Met(a, b) = 0
<1>1. Len(b) = 0
  OBVIOUS
<1> QED BY <1>1, MetSoFarDef, MetLast

-----------------------------------------------------------------------------
(* A sequence within another, and both of them longer *)

LEMMA WithinAppended ==
    ASSUME NEW T, NEW a \in Seq(T), NEW b \in Seq(T), NEW x \in T, IsWithin(a, b)
    PROVE  IsWithin(a, Append(b, x))
<1>1. Met(a, b) = Len(a) /\ Len(a) \in Nat
  BY MetSoFarLast DEF Met
<1>2. Met(a, Append(b, x)) = MetNext(Met(a, b), a, x)
  BY MetAppend
<1>3. Met(a, Append(b, x)) = Len(a)
  BY <1>1, <1>2 DEF MetNext, MeetsNext
<1> QED BY <1>3, MetSoFarLast DEF Met

LEMMA LongerMeetsAsMuch ==
    ASSUME NEW T, NEW a \in Seq(T), NEW y \in T
    PROVE  \A b \in Seq(T) :
              \/ Met(a, b) <= Len(a) /\ Met(Append(a, y), b) = Met(a, b)
              \/ Met(a, b) = Len(a) /\ Met(Append(a, y), b) = Len(a) + 1
<1> DEFINE aa == Append(a, y)
           S == {b \in Seq(T) : \/ Met(a, b) <= Len(a) /\ Met(aa, b) = Met(a, b)
                                \/ Met(a, b) = Len(a) /\ Met(aa, b) = Len(a) + 1}
<1>1. /\ Len(a) \in Nat /\ Len(aa) = Len(a) + 1 /\ \A i \in 1..Len(a) : aa[i] = a[i]
      /\ aa[Len(a) + 1] = y
  OBVIOUS
<1> HIDE DEF aa
<1>2. <<>> \in S
  <2>1. <<>> \in Seq(T)
    OBVIOUS
  <2>2. Met(a, <<>>) = 0 /\ Met(aa, <<>>) = 0
    BY <2>1, MetAppendNone
  <2> QED BY <1>1, <2>1, <2>2
<1>3. ASSUME NEW b \in Seq(T), NEW x \in T, b \in S PROVE Append(b, x) \in S
  <2> DEFINE m == Met(a, b)
             mm == Met(aa, b)
             m2 == Met(a, Append(b, x))
             mm2 == Met(aa, Append(b, x))
  <2>1. /\ m2 = MetNext(m, a, x) /\ m \in Nat
        /\ mm2 = MetNext(mm, aa, x) /\ mm \in Nat
    BY MetAppend
  <2>2. (m <= Len(a) /\ mm = m) \/ (m = Len(a) /\ mm = Len(a) + 1)
    BY <1>3
  <2>3. Append(b, x) \in Seq(T)
    OBVIOUS
  <2> SUFFICES (m2 <= Len(a) /\ mm2 = m2) \/ (m2 = Len(a) /\ mm2 = Len(a) + 1)
    BY <2>3
  <2> HIDE DEF m, mm, m2, mm2
  <2>4. CASE mm = m /\ m < Len(a)
    <3>1. m + 1 \in 1..Len(a)
      BY <1>1, <2>1, <2>4
    <3>2. aa[m + 1] = a[m + 1]
      BY <1>1, <3>1
    <3>3. MeetsNext(aa, m, x) <=> MeetsNext(a, m, x)
      BY <1>1, <2>1, <2>4, <3>2 DEF MeetsNext
    <3>4. mm2 = m2
      BY <2>1, <2>4, <3>3 DEF MetNext
    <3>5. m2 <= Len(a)
      BY <1>1, <2>1, <2>4 DEF MetNext
    <3> QED BY <3>4, <3>5
  <2>5. CASE mm = m /\ m = Len(a)
    <3>1. ~MeetsNext(a, m, x)
      BY <1>1, <2>5 DEF MeetsNext
    <3>2. m2 = Len(a)
      BY <2>1, <2>5, <3>1 DEF MetNext
    <3>3. mm2 = Len(a) \/ mm2 = Len(a) + 1
      BY <2>1, <2>5 DEF MetNext
    <3> QED BY <1>1, <3>2, <3>3
  <2>6. CASE m = Len(a) /\ mm = Len(a) + 1
    <3>1. ~MeetsNext(a, m, x) /\ ~MeetsNext(aa, mm, x)
      BY <1>1, <2>6 DEF MeetsNext
    <3> QED BY <2>1, <2>6, <3>1 DEF MetNext
  <2> QED BY <1>1, <2>1, <2>2, <2>4, <2>5, <2>6
<1>4. Seq(T) \subseteq S
  <2>1. \A b \in Seq(T), x \in T : b \in S => Append(b, x) \in S
    BY <1>3
  <2> HIDE DEF S
  <2> QED BY <1>2, <2>1, SequenceInduction
<1> QED BY <1>4 DEF aa

LEMMA WithinBoth ==
    ASSUME NEW T, NEW a \in Seq(T), NEW b \in Seq(T), NEW x \in T, IsWithin(a, b)
    PROVE  IsWithin(Append(a, x), Append(b, x))
<1> DEFINE aa == Append(a, x)
           mm == Met(aa, b)
<1>1. /\ Len(a) \in Nat /\ Len(aa) = Len(a) + 1 /\ aa[Len(a) + 1] = x
  OBVIOUS
<1>2. Met(a, b) = Len(a)
  BY MetSoFarLast DEF Met
<1>3. mm = Len(a) \/ mm = Len(a) + 1
  BY <1>2, LongerMeetsAsMuch
<1> HIDE DEF aa
<1>4. Met(aa, Append(b, x)) = MetNext(mm, aa, x)
  BY MetAppend
<1> HIDE DEF mm
<1>5. Met(aa, Append(b, x)) = Len(aa)
  <2>1. CASE mm = Len(a)
    BY <1>1, <1>4, <2>1 DEF MetNext, MeetsNext
  <2>2. CASE mm = Len(a) + 1
    BY <1>1, <1>4, <2>2 DEF MetNext, MeetsNext
  <2> QED BY <1>3, <2>1, <2>2
<1> QED BY <1>5, MetSoFarLast DEF Met, aa

LEMMA SampledWithin ==
    ASSUME NEW T, NEW a \in Seq(T), NEW b \in Seq(T), NEW none, NEW x, x = none \/ x \in T,
           IsWithin(a, b)
    PROVE  /\ IsWithin(a, Sampled(b, x, none))
           /\ IsWithin(Sampled(a, x, none), Sampled(b, x, none))
<1>1. CASE x = none
  BY <1>1 DEF Sampled
<1>2. CASE x # none
  <2>1. x \in T
    BY <1>2
  <2>2. IsWithin(a, Append(b, x)) /\ IsWithin(Append(a, x), Append(b, x))
    BY <2>1, WithinAppended, WithinBoth
  <2> QED BY <1>2, <2>2 DEF Sampled
<1> QED BY <1>1, <1>2

\* s has a part of the samples of u, in order.
SamplesWithin(s, u) ==
    /\ IsWithin(s.ttft, u.ttft) /\ IsWithin(s.prefill, u.prefill)
    /\ IsWithin(s.tail, u.tail) /\ IsWithin(s.decode, u.decode)

LEMMA SampleAllWithin ==
    ASSUME NEW s \in SampleSet, NEW u \in SampleSet, NEW ttft \in Nat, NEW rates \in RateSet,
           SamplesWithin(s, u)
    PROVE  /\ SamplesWithin(s, SampleAll(u, ttft, rates))
           /\ SamplesWithin(SampleAll(s, ttft, rates), SampleAll(u, ttft, rates))
<1> DEFINE s1 == s.ttft  s2 == s.prefill  s3 == s.tail  s4 == s.decode
           u1 == u.ttft  u2 == u.prefill  u3 == u.tail  u4 == u.decode
           r2 == rates.prefill  r3 == rates.tail  r4 == rates.decode
           T == LongRates
<1>1. /\ s1 \in Seq(Nat) /\ s2 \in Seq(Rates) /\ s3 \in Seq(Rates) /\ s4 \in Seq(T)
      /\ u1 \in Seq(Nat) /\ u2 \in Seq(Rates) /\ u3 \in Seq(Rates) /\ u4 \in Seq(T)
  BY DEF SampleSet
<1>2. r2 \in Rates /\ r3 \in Rates /\ (r4 = NoRate \/ r4 \in T)
  BY DEF RateSet
<1>3. IsWithin(s1, u1) /\ IsWithin(s2, u2) /\ IsWithin(s3, u3) /\ IsWithin(s4, u4)
  BY DEF SamplesWithin
<1>4. SampleAll(s, ttft, rates) =
          [ttft |-> Sampled(s1, ttft, 0), prefill |-> Sampled(s2, r2, NoRate),
           tail |-> Sampled(s3, r3, NoRate), decode |-> Sampled(s4, r4, NoRate)]
  BY DEF SampleAll
<1>5. SampleAll(u, ttft, rates) =
          [ttft |-> Sampled(u1, ttft, 0), prefill |-> Sampled(u2, r2, NoRate),
           tail |-> Sampled(u3, r3, NoRate), decode |-> Sampled(u4, r4, NoRate)]
  BY DEF SampleAll
<1>6. s.ttft = s1 /\ s.prefill = s2 /\ s.tail = s3 /\ s.decode = s4
  OBVIOUS
<1> HIDE DEF s1, s2, s3, s4, u1, u2, u3, u4, r2, r3, r4, T
<1>7. IsWithin(s1, Sampled(u1, ttft, 0)) /\ IsWithin(Sampled(s1, ttft, 0), Sampled(u1, ttft, 0))
  BY <1>1, <1>3, SampledWithin
<1>8. IsWithin(s2, Sampled(u2, r2, NoRate)) /\ IsWithin(Sampled(s2, r2, NoRate), Sampled(u2, r2, NoRate))
  BY <1>1, <1>2, <1>3, SampledWithin
<1>9. IsWithin(s3, Sampled(u3, r3, NoRate)) /\ IsWithin(Sampled(s3, r3, NoRate), Sampled(u3, r3, NoRate))
  BY <1>1, <1>2, <1>3, SampledWithin
<1>10. IsWithin(s4, Sampled(u4, r4, NoRate)) /\ IsWithin(Sampled(s4, r4, NoRate), Sampled(u4, r4, NoRate))
  BY <1>1, <1>2, <1>3, SampledWithin
<1> QED BY <1>4, <1>5, <1>6, <1>7, <1>8, <1>9, <1>10 DEF SamplesWithin

LEMMA NoneIsWithin == SamplesWithin(NoSamples, NoSamples)
<1>1. <<>> \in Seq({}) /\ Len(<<>>) = 0
  OBVIOUS
<1>2. IsWithin(<<>>, <<>>)
  BY <1>1, MetAppendNone, MetSoFarLast DEF Met
<1> QED BY <1>2 DEF SamplesWithin, NoSamples
-----------------------------------------------------------------------------
(* The requests of the log *)

ReadableOf(j) == {i \in DOMAIN j : Readable(j[i])}

LEMMA RequestsAreCounted ==
    \A j \in Seq(LogLines) : ReadLines(j).requests = Cardinality(ReadableOf(j))
<1> DEFINE S == {j \in Seq(LogLines) : /\ IsFiniteSet(ReadableOf(j))
                                    /\ ReadLines(j).requests = Cardinality(ReadableOf(j))}
<1>1. <<>> \in S
  <2>1. <<>> \in Seq(LogLines) /\ ReadableOf(<<>>) = {}
    BY DEF ReadableOf
  <2>2. ReadLines(<<>>) = NoMetrics
    BY <2>1, ReadAppendNone
  <2>3. ReadLines(<<>>).requests = 0
    BY <2>2 DEF NoMetrics
  <2> QED BY <2>1, <2>3, FS_EmptySet
<1>2. ASSUME NEW j \in Seq(LogLines), NEW x \in LogLines, j \in S PROVE Append(j, x) \in S
  <2>1. /\ Append(j, x) \in Seq(LogLines)
        /\ DOMAIN Append(j, x) = DOMAIN j \cup {Len(j) + 1} /\ Len(j) + 1 \notin DOMAIN j
        /\ \A i \in DOMAIN j : Append(j, x)[i] = j[i]
        /\ Append(j, x)[Len(j) + 1] = x
    OBVIOUS
  <2>2. ReadLines(Append(j, x)) = ReadOn(ReadLines(j), x) /\ ReadLines(j) \in Metrics
    BY ReadAppend
  <2>3. /\ IsFiniteSet(ReadableOf(j)) /\ ReadLines(j).requests = Cardinality(ReadableOf(j))
    BY <1>2
  <2>4. CASE Readable(x)
    <3>1. ReadableOf(Append(j, x)) = ReadableOf(j) \cup {Len(j) + 1} /\ Len(j) + 1 \notin ReadableOf(j)
      BY <2>1, <2>4 DEF ReadableOf
    <3>2. ReadLines(Append(j, x)).requests = ReadLines(j).requests + 1
      BY <2>2, <2>4 DEF ReadOn, ReadRecord, Metrics
    <3> QED BY <2>1, <2>3, <3>1, <3>2, FS_AddElement
  <2>5. CASE ~Readable(x)
    <3>1. ReadableOf(Append(j, x)) = ReadableOf(j)
      BY <2>1, <2>5 DEF ReadableOf
    <3>2. ReadLines(Append(j, x)) = ReadLines(j)
      BY <2>2, <2>5 DEF ReadOn
    <3> QED BY <2>1, <2>3, <3>1, <3>2
  <2> QED BY <2>4, <2>5
<1>3. Seq(LogLines) \subseteq S
  <2>1. \A j \in Seq(LogLines), x \in LogLines : j \in S => Append(j, x) \in S
    BY <1>2
  <2> HIDE DEF S
  <2> QED BY <1>1, <2>1, SequenceInduction
<1> QED BY <1>3
-----------------------------------------------------------------------------
(* What is written to the log *)

LEMMA FrontAndLast ==
    ASSUME NEW T, NEW j \in Seq(T), j # <<>>
    PROVE  /\ Front(j) \in Seq(T) /\ Last(j) \in T
           /\ j = Append(Front(j), Last(j)) /\ Len(j) = Len(Front(j)) + 1
<1>1. Len(j) \in Nat /\ Len(j) # 0 /\ Len(j) \in 1..Len(j) /\ Len(j) - 1 \in 0..Len(j)
  OBVIOUS
<1>2. SubSeq(j, 1, Len(j) - 1) \in Seq(T) /\ Len(SubSeq(j, 1, Len(j) - 1)) = Len(j) - 1
  BY <1>1, FirstOf
<1>3. SubSeq(j, 1, Len(j)) = Append(SubSeq(j, 1, Len(j) - 1), j[Len(j)])
  BY <1>1, FirstNext
<1>4. SubSeq(j, 1, Len(j)) = j
  BY FirstAll
<1>5. j[Len(j)] \in T
  BY <1>1
<1> QED BY <1>1, <1>2, <1>3, <1>4, <1>5 DEF Front, Last

Legible(j) == \A i \in DOMAIN j : Readable(j[i])

\* Nothing that is read is added to the log, and what is added is seen to be.
Spoilt(j, j2) ==
    /\ j2 \in Seq(LogLines)
    /\ ReadLines(j2) = ReadLines(j) /\ \A field \in Fields : Total(j2, field) = Total(j, field)
    /\ \/ Len(j2) = Len(j) /\ (Legible(j2) => Legible(j))
       \/ Len(j2) = Len(j) + 1 /\ ~Legible(j2)

LEMMA AppendReads ==
    ASSUME NEW j \in Seq(LogLines), NEW x \in LogLines
    PROVE  /\ Append(j, x) \in Seq(LogLines) /\ Len(Append(j, x)) = Len(j) + 1 /\ Len(j) \in Nat
           /\ ReadLines(Append(j, x)) = ReadOn(ReadLines(j), x)
           /\ \A field \in Fields : Total(Append(j, x), field) = TotalNext(Total(j, field), x, field)
           /\ Legible(Append(j, x)) <=> Legible(j) /\ Readable(x)
<1>1. /\ Append(j, x) \in Seq(LogLines) /\ Len(Append(j, x)) = Len(j) + 1 /\ Len(j) \in Nat
      /\ DOMAIN Append(j, x) = DOMAIN j \cup {Len(j) + 1}
      /\ \A i \in DOMAIN j : Append(j, x)[i] = j[i] /\ i # Len(j) + 1
      /\ Append(j, x)[Len(j) + 1] = x
  OBVIOUS
<1>2. Legible(Append(j, x)) <=> Legible(j) /\ Readable(x)
  BY <1>1 DEF Legible
<1>3. \A field \in Fields : Total(Append(j, x), field) = TotalNext(Total(j, field), x, field)
  BY TotalAppend
<1> QED BY <1>1, <1>2, <1>3, ReadAppend

LEMMA UnreadableIsSpoilt ==
    ASSUME NEW j \in Seq(LogLines), NEW x \in DamagedLines
    PROVE  Spoilt(j, Append(j, x))
<1>1. x \in LogLines /\ ~Readable(x) /\ ~IsReply(x)
  BY DamagedAreNot DEF LogLines, IsReply
<1>2. ReadOn(ReadLines(j), x) = ReadLines(j)
  BY <1>1 DEF ReadOn
<1>3. \A field \in Fields : TotalNext(Total(j, field), x, field) = Total(j, field)
  BY <1>1 DEF TotalNext
<1> QED BY <1>1, <1>2, <1>3, AppendReads DEF Spoilt

LEMMA WrittenReads ==
    ASSUME NEW j \in Seq(LogLines), NEW line \in Records \cup {Torn, Cut}
    PROVE  \/ line \in Records /\ Written(j, line) = Append(j, line)
           \/ Spoilt(j, Written(j, line))
<1>1. CASE j = <<>> \/ Last(j) \notin {Torn, Cut}
  <2>1. Written(j, line) = Append(j, line)
    BY <1>1 DEF Written
  <2>2. line \in {Torn, Cut} => Spoilt(j, Append(j, line))
    BY UnreadableIsSpoilt, DamagedAreNot
  <2> QED BY <2>1, <2>2
<1>2. CASE j # <<>> /\ Last(j) \in {Torn, Cut}
  <2> DEFINE front == Front(j)
             last == Last(j)
             x == Damaged(Decodes(Last(j)) /\ Decodes(line), Readable(line))
  <2>1. front \in Seq(LogLines) /\ j = Append(front, last)
    BY <1>2, FrontAndLast
  <2>2. Written(j, line) = Append(front, x)
    BY <1>2 DEF Written
  <2>3. x \in DamagedLines /\ last \in DamagedLines
    <3>1. (Decodes(Last(j)) /\ Decodes(line)) \in BOOLEAN /\ Readable(line) \in BOOLEAN
      BY Zenon DEF Decodes, Readable
    <3> QED BY <1>2, <3>1, DamagedAreNot, Zenon
  <2> HIDE DEF front, x, last
  <2>4. Spoilt(front, Append(front, x)) /\ Spoilt(front, Append(front, last))
    BY <2>1, <2>3, UnreadableIsSpoilt
  <2>5. /\ Len(Append(front, x)) = Len(front) + 1 /\ Len(Append(front, last)) = Len(front) + 1
        /\ ~Legible(Append(front, x))
    <3>1. x \in LogLines /\ last \in LogLines /\ ~Readable(x)
      BY <2>3, DamagedAreNot DEF LogLines
    <3> QED BY <2>1, <3>1, AppendReads
  <2>6. Spoilt(Append(front, last), Append(front, x))
    BY <2>4, <2>5 DEF Spoilt
  <2> QED BY <2>1, <2>2, <2>6
<1> QED BY <1>1, <1>2

LEMMA SameIsSpoilt == ASSUME NEW j \in Seq(LogLines) PROVE Spoilt(j, j)
BY DEF Spoilt

LEMMA LogEffect ==
    ASSUME journal \in Seq(LogLines), NEW r \in Records, Logs(r)
    PROVE  journal' = Append(journal, r) \/ Spoilt(journal, journal')
<1>1. CASE journal' = Written(journal, r)
  BY <1>1, WrittenReads
<1>2. ASSUME NEW x \in {Torn, Cut}, journal' = Written(journal, x)
      PROVE  Spoilt(journal, journal')
  <2>1. x \notin Records
    BY DamagedAreNot
  <2> QED BY <1>2, <2>1, WrittenReads
<1>3. CASE journal' = journal
  BY <1>3, SameIsSpoilt
<1> QED BY <1>1, <1>2, <1>3 DEF Logs
-----------------------------------------------------------------------------
(* What an answered request does to the counters, and to its record *)

\* m2 has one answered request more than m, the one that r records.
Measures(m, m2, r) ==
    /\ m2 \in Metrics
    /\ m2.requests = m.requests + 1 /\ m2.turns = m.turns + 1
    /\ m2.hits = m.hits + (IF r.hit THEN 1 ELSE 0)
    /\ m2.chars = m.chars + r.saved /\ m2.reduced = m.reduced + r.saved \div 4
    /\ \A field \in Fields : m2[field] = TotalNext(m[field], r, field)
    /\ m2.samples = SampleAll(m.samples, r.ttft, RatesOf(r))

Timed(t) == t.ttft \in Nat /\ t.total \in Nat /\ t.generation \in Nat /\ t.streaming \in BOOLEAN

LEMMA RecordType ==
    ASSUME NEW hit \in BOOLEAN, NEW status \in {200, 500}, NEW usage \in UsageSet, NEW t, Timed(t),
           NEW rates \in RateSet, NEW saved \in Nat
    PROVE  Record(hit, status, usage, t, rates, saved) \in Records
<1> DEFINE u == IF hit THEN [usage EXCEPT !.cached = usage.input] ELSE usage
<1>1. u \in UsageSet
  BY DEF UsageSet
<1>2. Record(hit, status, usage, t, rates, saved) =
        [hit |-> hit, status |-> status, saved |-> saved, rates |-> rates, streaming |-> t.streaming,
         usage |-> u, ttft |-> t.ttft, total |-> t.total, generation |-> t.generation]
  BY DEF Record
<1> HIDE DEF u
<1> QED BY <1>1, <1>2 DEF Records, Timed

LEMMA AnsweredIs ==
    ASSUME NEW m \in Metrics
    PROVE  [m EXCEPT !.hits = @ + 1, !.turns = @ + 1]
              = [requests |-> m.requests, turns |-> m.turns + 1, hits |-> m.hits + 1,
                 chars |-> m.chars, reduced |-> m.reduced, input |-> m.input,
                 cached |-> m.cached, output |-> m.output, samples |-> m.samples]
<1> DEFINE h == m.hits + 1
           t == m.turns + 1
           n == [m EXCEPT !.hits = h, !.turns = t]
<1>1. n = [m EXCEPT !.hits = @ + 1, !.turns = @ + 1]
  OBVIOUS
<1>2. h \in Nat /\ t \in Nat
  BY DEF Metrics
<1> HIDE DEF h, t
<1>3. /\ n \in Metrics
      /\ n.requests = m.requests /\ n.turns = t /\ n.hits = h /\ n.chars = m.chars
      /\ n.reduced = m.reduced /\ n.input = m.input /\ n.cached = m.cached /\ n.output = m.output
      /\ n.samples = m.samples
  BY <1>2 DEF Metrics
<1> HIDE DEF n
<1>4. n = [requests |-> m.requests, turns |-> t, hits |-> h,
                 chars |-> m.chars, reduced |-> m.reduced, input |-> m.input,
                 cached |-> m.cached, output |-> m.output, samples |-> m.samples]
  BY <1>3 DEF Metrics
<1> QED BY <1>1, <1>4 DEF h, t, n

LEMMA RequestedType ==
    ASSUME NEW m \in Metrics, NEW saved \in Nat
    PROVE  /\ Requested(m, saved) =
                [requests |-> m.requests + 1, turns |-> m.turns, hits |-> m.hits,
                 chars |-> m.chars + saved, reduced |-> m.reduced + saved \div 4, input |-> m.input,
                 cached |-> m.cached, output |-> m.output, samples |-> m.samples]
           /\ Requested(m, saved) \in Metrics
<1>1. saved \div 4 \in Nat
  OBVIOUS
<1> DEFINE q == saved \div 4
<1>2. Requested(m, saved) = [m EXCEPT !.requests = @ + 1, !.chars = @ + saved, !.reduced = @ + q]
  BY DEF Requested
<1>3. q \in Nat
  BY <1>1
<1> HIDE DEF q
<1>4. Requested(m, saved) =
                [requests |-> m.requests + 1, turns |-> m.turns, hits |-> m.hits,
                 chars |-> m.chars + saved, reduced |-> m.reduced + q, input |-> m.input,
                 cached |-> m.cached, output |-> m.output, samples |-> m.samples]
  BY <1>2 DEF Metrics
<1>5. Requested(m, saved) \in Metrics
  BY <1>3, <1>4 DEF Metrics
<1> QED BY <1>4, <1>5 DEF q

LEMMA RecordedIs ==
    ASSUME NEW m \in Metrics, NEW usage \in UsageSet, NEW ttft \in Nat, NEW rates \in RateSet
    PROVE  /\ Recorded(m, usage, ttft, rates) =
                [requests |-> m.requests, turns |-> m.turns + 1, hits |-> m.hits,
                 chars |-> m.chars, reduced |-> m.reduced, input |-> m.input + usage.input,
                 cached |-> m.cached + usage.cached, output |-> m.output + usage.output,
                 samples |-> SampleAll(m.samples, ttft, rates)]
           /\ Recorded(m, usage, ttft, rates) \in Metrics
<1> DEFINE s == SampleAll(m.samples, ttft, rates)
           input == usage.input  cached == usage.cached  output == usage.output
<1>1. input \in Nat /\ cached \in Nat /\ output \in Nat
  BY DEF UsageSet
<1>2. s \in SampleSet
  <2>1. m.samples \in SampleSet
    BY DEF Metrics
  <2> QED BY <2>1, SampleAllType
<1>3. Recorded(m, usage, ttft, rates) =
        [m EXCEPT !.turns = @ + 1, !.input = @ + input, !.cached = @ + cached,
                  !.output = @ + output, !.samples = s]
  BY DEF Recorded
<1> HIDE DEF s, input, cached, output
<1>4. Recorded(m, usage, ttft, rates) =
                [requests |-> m.requests, turns |-> m.turns + 1, hits |-> m.hits,
                 chars |-> m.chars, reduced |-> m.reduced, input |-> m.input + input,
                 cached |-> m.cached + cached, output |-> m.output + output, samples |-> s]
  BY <1>3 DEF Metrics
<1>5. Recorded(m, usage, ttft, rates) \in Metrics
  BY <1>1, <1>2, <1>4 DEF Metrics
<1> QED BY <1>4, <1>5 DEF s, input, cached, output

LEMMA ReplyMeasures ==
    ASSUME TelemetryAssumption, NEW m \in Metrics, NEW usage \in UsageSet, NEW t, Timed(t), NEW saved \in Nat
    PROVE  LET rates == TelemetryOf(usage, t)
               r     == Record(FALSE, 200, usage, t, rates, saved)
           IN  r \in Records /\ Measures(m, Recorded(Requested(m, saved), usage, t.ttft, rates), r)
<1> DEFINE rates == TelemetryOf(usage, t)
           r == Record(FALSE, 200, usage, t, rates, saved)
           m1 == Requested(m, saved)
           m2 == Recorded(m1, usage, t.ttft, rates)
<1>1. rates \in RateSet /\ t.ttft \in Nat
  BY RatesType DEF Timed
<1>2. r \in Records
  <2> HIDE DEF rates
  <2> DEFINE no == FALSE
  <2>1. no \in BOOLEAN /\ 200 \in {200, 500} /\ r = Record(no, 200, usage, t, rates, saved)
    OBVIOUS
  <2> HIDE DEF no, r
  <2>2. Record(no, 200, usage, t, rates, saved) \in Records
    BY <1>1, <2>1, RecordType
  <2> QED BY <2>1, <2>2, Zenon
<1>3. RatesOf(r) = rates
  BY DEF RatesOf, Record, TelemetryOf, StoredRate
<1>4. /\ r.usage = usage /\ r.saved = saved /\ r.hit = FALSE /\ r.status = 200 /\ r.ttft = t.ttft
  BY DEF Record
<1> HIDE DEF r, rates
<1>5. IsReply(r)
  BY <1>2, <1>4, RecordsAreReadable DEF IsReply
<1>6. m1 \in Metrics /\ m2 \in Metrics
  BY <1>1, RequestedType, RecordedIs
<1>7. m1 = [requests |-> m.requests + 1, turns |-> m.turns, hits |-> m.hits,
                 chars |-> m.chars + saved, reduced |-> m.reduced + saved \div 4, input |-> m.input,
                 cached |-> m.cached, output |-> m.output, samples |-> m.samples]
  BY RequestedType
<1>8. m2 = [requests |-> m1.requests, turns |-> m1.turns + 1, hits |-> m1.hits,
                 chars |-> m1.chars, reduced |-> m1.reduced, input |-> m1.input + usage.input,
                 cached |-> m1.cached + usage.cached, output |-> m1.output + usage.output,
                 samples |-> SampleAll(m1.samples, t.ttft, rates)]
  BY <1>1, <1>6, RecordedIs
<1> HIDE DEF m1, m2
<1>9. /\ m2.requests = m.requests + 1 /\ m2.turns = m.turns + 1 /\ m2.hits = m.hits
      /\ m2.chars = m.chars + saved /\ m2.reduced = m.reduced + saved \div 4
      /\ m2.samples = SampleAll(m.samples, t.ttft, rates)
      /\ m2.input = m.input + usage.input /\ m2.cached = m.cached + usage.cached
      /\ m2.output = m.output + usage.output
  BY <1>7, <1>8
<1>10. \A field \in Fields : m2[field] = TotalNext(m[field], r, field)
  BY <1>4, <1>5, <1>9 DEF TotalNext, Fields
<1>11. m.hits + (IF r.hit THEN 1 ELSE 0) = m.hits
  BY <1>4 DEF Metrics
<1>12. Measures(m, m2, r)
  BY <1>3, <1>4, <1>6, <1>9, <1>10, <1>11 DEF Measures
<1> QED BY <1>2, <1>12 DEF m1, m2, r, rates

FailureRecord(usage, took, saved) ==
    Record(FALSE, 500, usage, [NotTimed EXCEPT !.total = took], Unmeasured, saved)

LEMMA FailureMeasures ==
    ASSUME TelemetryAssumption, NEW m \in Metrics, NEW usage \in UsageSet, NEW took \in Nat, NEW saved \in Nat
    PROVE  /\ FailureRecord(usage, took, saved) \in Records
           /\ Measures(m, Recorded(Requested(m, saved), NoUsage, 0, Unmeasured),
                       FailureRecord(usage, took, saved))
<1> DEFINE t == [NotTimed EXCEPT !.total = took]
           r == Record(FALSE, 500, usage, t, Unmeasured, saved)
           m1 == Requested(m, saved)
           m2 == Recorded(m1, NoUsage, 0, Unmeasured)
<1>1. Timed(t) /\ t.ttft = 0
  BY DEF NotTimed, Timed
<1>2. Unmeasured \in RateSet
  BY RatesType, <1>1 DEF Timed
<1>3. r \in Records
  <2> HIDE DEF t
  <2> DEFINE no == FALSE
  <2>1. no \in BOOLEAN /\ 500 \in {200, 500} /\ r = Record(no, 500, usage, t, Unmeasured, saved)
    OBVIOUS
  <2> HIDE DEF no, r
  <2>2. Record(no, 500, usage, t, Unmeasured, saved) \in Records
    BY <1>1, <1>2, <2>1, RecordType
  <2> QED BY <2>1, <2>2, Zenon
<1>4. RatesOf(r) = Unmeasured
  <2>1. r.ttft = 0 /\ r.rates = Unmeasured
    BY <1>1 DEF Record
  <2> HIDE DEF r
  <2>2. Rate(r.usage.input, 0) = NoRate /\ Rate(Uncached(r.usage), 0) = NoRate
    BY DEF Rate
  <2> QED BY <2>1, <2>2 DEF RatesOf, StoredRate, Unmeasured
<1>5. /\ r.saved = saved /\ r.hit = FALSE /\ r.status = 500 /\ r.ttft = 0
  BY <1>1 DEF Record
<1> HIDE DEF r
<1>6. ~IsReply(r)
  BY <1>5 DEF IsReply
<1>7. NoUsage \in UsageSet
  BY DEF NoUsage, UsageSet
<1>8. m1 \in Metrics /\ m2 \in Metrics
  BY <1>2, <1>7, RequestedType, RecordedIs
<1>9. m1 = [requests |-> m.requests + 1, turns |-> m.turns, hits |-> m.hits,
                 chars |-> m.chars + saved, reduced |-> m.reduced + saved \div 4, input |-> m.input,
                 cached |-> m.cached, output |-> m.output, samples |-> m.samples]
  BY RequestedType
<1>10. m2 = [requests |-> m1.requests, turns |-> m1.turns + 1, hits |-> m1.hits,
                 chars |-> m1.chars, reduced |-> m1.reduced, input |-> m1.input + NoUsage.input,
                 cached |-> m1.cached + NoUsage.cached, output |-> m1.output + NoUsage.output,
                 samples |-> SampleAll(m1.samples, 0, Unmeasured)]
  BY <1>2, <1>7, <1>8, RecordedIs
<1> HIDE DEF m1, m2
<1>11. /\ m2.requests = m.requests + 1 /\ m2.turns = m.turns + 1 /\ m2.hits = m.hits
      /\ m2.chars = m.chars + saved /\ m2.reduced = m.reduced + saved \div 4
      /\ m2.samples = SampleAll(m.samples, 0, Unmeasured)
  BY <1>9, <1>10
<1>12. m2.input = m.input /\ m2.cached = m.cached /\ m2.output = m.output
  <2>1. NoUsage.input = 0 /\ NoUsage.cached = 0 /\ NoUsage.output = 0
    BY DEF NoUsage
  <2>2. m.input \in Nat /\ m.cached \in Nat /\ m.output \in Nat
    BY DEF Metrics
  <2> QED BY <1>9, <1>10, <2>1, <2>2
<1>13. \A field \in Fields : m2[field] = TotalNext(m[field], r, field)
  BY <1>6, <1>12 DEF TotalNext, Fields
<1>14. m.hits + (IF r.hit THEN 1 ELSE 0) = m.hits
  BY <1>5 DEF Metrics
<1>15. Measures(m, m2, r)
  BY <1>4, <1>5, <1>8, <1>11, <1>13, <1>14 DEF Measures
<1> QED BY <1>3, <1>15 DEF m1, m2, r, FailureRecord

LEMMA NothingSampled ==
    ASSUME NEW s \in SampleSet
    PROVE  SampleAll(s, 0, Unmeasured) = s
<1>1. SampleAll(s, 0, Unmeasured) = [ttft |-> s.ttft, prefill |-> s.prefill, tail |-> s.tail, decode |-> s.decode]
  BY DEF SampleAll, Sampled, Unmeasured
<1> QED BY <1>1 DEF SampleSet

LEMMA HitMeasures ==
    ASSUME TelemetryAssumption, NEW m \in Metrics, NEW usage \in UsageSet, NEW saved \in Nat
    PROVE  LET r  == Record(TRUE, 200, usage, NotTimed, Unmeasured, saved)
               m1 == Requested(m, saved)
           IN  r \in Records /\ Measures(m, [m1 EXCEPT !.hits = @ + 1, !.turns = @ + 1], r)
<1> DEFINE r == Record(TRUE, 200, usage, NotTimed, Unmeasured, saved)
           m1 == Requested(m, saved)
           m2 == [m1 EXCEPT !.hits = @ + 1, !.turns = @ + 1]
<1>1. Timed(NotTimed) /\ NotTimed.ttft = 0
  BY DEF NotTimed, Timed
<1>2. Unmeasured \in RateSet
  BY RatesType, <1>1 DEF Timed
<1>3. r \in Records
  <2> DEFINE yes == TRUE
  <2>1. yes \in BOOLEAN /\ 200 \in {200, 500} /\ r = Record(yes, 200, usage, NotTimed, Unmeasured, saved)
    OBVIOUS
  <2> HIDE DEF yes, r
  <2>2. Record(yes, 200, usage, NotTimed, Unmeasured, saved) \in Records
    BY <1>1, <1>2, <2>1, RecordType
  <2> QED BY <2>1, <2>2, Zenon
<1>4. RatesOf(r) = Unmeasured
  <2>1. r.ttft = 0 /\ r.rates = Unmeasured
    BY <1>1 DEF Record
  <2> HIDE DEF r
  <2>2. Rate(r.usage.input, 0) = NoRate /\ Rate(Uncached(r.usage), 0) = NoRate
    BY DEF Rate
  <2> QED BY <2>1, <2>2 DEF RatesOf, StoredRate, Unmeasured
<1>5. /\ r.saved = saved /\ r.hit = TRUE /\ r.ttft = 0
  BY <1>1 DEF Record
<1> HIDE DEF r
<1>6. ~IsReply(r)
  BY <1>5 DEF IsReply
<1>7. /\ m1 \in Metrics
      /\ m1 = [requests |-> m.requests + 1, turns |-> m.turns, hits |-> m.hits,
                 chars |-> m.chars + saved, reduced |-> m.reduced + saved \div 4, input |-> m.input,
                 cached |-> m.cached, output |-> m.output, samples |-> m.samples]
  BY RequestedType
<1> HIDE DEF m1
<1>8. m2 = [requests |-> m1.requests, turns |-> m1.turns + 1, hits |-> m1.hits + 1,
                 chars |-> m1.chars, reduced |-> m1.reduced, input |-> m1.input,
                 cached |-> m1.cached, output |-> m1.output, samples |-> m1.samples]
  <2>1. m1 \in Metrics
    BY <1>7
  <2> QED BY <2>1, AnsweredIs
<1> HIDE DEF m2
<1>9. m2 \in Metrics
  BY <1>7, <1>8 DEF Metrics
<1>10. /\ m2.requests = m.requests + 1 /\ m2.turns = m.turns + 1 /\ m2.hits = m.hits + 1
       /\ m2.chars = m.chars + saved /\ m2.reduced = m.reduced + saved \div 4
       /\ m2.samples = m.samples /\ m2.input = m.input /\ m2.cached = m.cached /\ m2.output = m.output
  BY <1>7, <1>8
<1>11. m2.samples = SampleAll(m.samples, 0, Unmeasured)
  <2>1. m.samples \in SampleSet
    BY DEF Metrics
  <2> QED BY <1>10, <2>1, NothingSampled
<1>12. \A field \in Fields : m2[field] = TotalNext(m[field], r, field)
  BY <1>6, <1>10 DEF TotalNext, Fields
<1>13. Measures(m, m2, r)
  BY <1>4, <1>5, <1>9, <1>10, <1>11, <1>12 DEF Measures
<1> QED BY <1>3, <1>13 DEF m1, m2, r
-----------------------------------------------------------------------------
(* The counters of all the processes, as the one that runs counts on *)

LEMMA JoinedIs ==
    ASSUME NEW a \in Metrics, NEW b \in Metrics
    PROVE  LET m == Joined2(a, b) IN
           /\ m \in Metrics
           /\ m.requests = a.requests + b.requests /\ m.turns = a.turns + b.turns
           /\ m.hits = a.hits + b.hits /\ m.chars = a.chars + b.chars /\ m.reduced = a.reduced + b.reduced
           /\ \A field \in Fields : m[field] = a[field] + b[field]
           /\ m.samples = JoinedTo(a.samples, b.samples)
<1>1. /\ Joined2(a, b).requests = a.requests + b.requests /\ Joined2(a, b).turns = a.turns + b.turns
      /\ Joined2(a, b).hits = a.hits + b.hits /\ Joined2(a, b).chars = a.chars + b.chars
      /\ Joined2(a, b).reduced = a.reduced + b.reduced
  BY DEF Joined2
<1>2. \A field \in Fields : Joined2(a, b)[field] = a[field] + b[field]
  BY DEF Joined2, Fields
<1> QED BY <1>1, <1>2, SamplesOfJoined, JoinedType

LEMMA MetricsAreNat ==
    ASSUME NEW m \in Metrics
    PROVE  /\ m.requests \in Nat /\ m.turns \in Nat /\ m.hits \in Nat /\ m.chars \in Nat
           /\ m.reduced \in Nat /\ \A field \in Fields : m[field] \in Nat
           /\ m.samples \in SampleSet
BY DEF Metrics, Fields

LEMMA JoinMeasures ==
    ASSUME NEW a \in Metrics, NEW b \in Metrics, NEW c, NEW r \in Records, Measures(b, c, r)
    PROVE  Measures(Joined2(a, b), Joined2(a, c), r)
<1> DEFINE m == Joined2(a, b)
           n == Joined2(a, c)
           hit == IF r.hit THEN 1 ELSE 0
           q == r.saved \div 4
           saved == r.saved
           rates == RatesOf(r)
           ttft == r.ttft
<1>1. /\ c \in Metrics /\ c.requests = b.requests + 1 /\ c.turns = b.turns + 1 /\ c.hits = b.hits + hit
      /\ c.chars = b.chars + saved /\ c.reduced = b.reduced + q
      /\ \A field \in Fields : c[field] = TotalNext(b[field], r, field)
      /\ c.samples = SampleAll(b.samples, ttft, rates)
  BY DEF Measures
<1>2. saved \in Nat /\ hit \in Nat /\ ttft \in Nat
  BY DEF Records
<1>3. q \in Nat
  BY <1>2
<1>4. /\ m \in Metrics
      /\ m.requests = a.requests + b.requests /\ m.turns = a.turns + b.turns
      /\ m.hits = a.hits + b.hits /\ m.chars = a.chars + b.chars /\ m.reduced = a.reduced + b.reduced
      /\ \A field \in Fields : m[field] = a[field] + b[field]
      /\ m.samples = JoinedTo(a.samples, b.samples)
  BY JoinedIs
<1>5. /\ n \in Metrics
      /\ n.requests = a.requests + c.requests /\ n.turns = a.turns + c.turns
      /\ n.hits = a.hits + c.hits /\ n.chars = a.chars + c.chars /\ n.reduced = a.reduced + c.reduced
      /\ \A field \in Fields : n[field] = a[field] + c[field]
      /\ n.samples = JoinedTo(a.samples, c.samples)
  BY <1>1, JoinedIs
<1>6. rates \in RateSet
  BY RatesOfType
<1>7. /\ a.requests \in Nat /\ a.turns \in Nat /\ a.hits \in Nat /\ a.chars \in Nat
      /\ a.reduced \in Nat /\ a.samples \in SampleSet
      /\ b.requests \in Nat /\ b.turns \in Nat /\ b.hits \in Nat /\ b.chars \in Nat
      /\ b.reduced \in Nat /\ b.samples \in SampleSet
      /\ \A field \in Fields : a[field] \in Nat /\ b[field] \in Nat
  BY MetricsAreNat
<1> HIDE DEF m, n, hit, q, saved, rates, ttft
<1>8. /\ n.requests = m.requests + 1 /\ n.turns = m.turns + 1 /\ n.hits = m.hits + hit
      /\ n.chars = m.chars + saved /\ n.reduced = m.reduced + q
  BY <1>1, <1>2, <1>3, <1>4, <1>5, <1>7
<1>9. n.samples = SampleAll(m.samples, ttft, rates)
  <2>1. JoinedTo(a.samples, SampleAll(b.samples, ttft, rates))
           = SampleAll(JoinedTo(a.samples, b.samples), ttft, rates)
    BY <1>2, <1>6, <1>7, SamplesJoin
  <2> QED BY <1>1, <1>4, <1>5, <2>1
<1>10. \A field \in Fields : n[field] = TotalNext(m[field], r, field)
  <2>1. ASSUME NEW field \in Fields PROVE n[field] = TotalNext(m[field], r, field)
    <3>1. /\ a[field] \in Nat /\ b[field] \in Nat /\ m[field] = a[field] + b[field]
          /\ n[field] = a[field] + c[field] /\ c[field] = TotalNext(b[field], r, field)
      BY <1>1, <1>4, <1>5, <1>7
    <3>2. r.usage[field] \in Nat
      BY DEF Records, UsageSet, Fields
    <3>3. CASE IsReply(r)
      BY <3>1, <3>2, <3>3 DEF TotalNext
    <3>4. CASE ~IsReply(r)
      BY <3>1, <3>4 DEF TotalNext
    <3> QED BY <3>3, <3>4
  <2> QED BY <2>1
<1> QED BY <1>5, <1>8, <1>9, <1>10 DEF Measures, m, n, hit, q, saved, rates, ttft

\* m2 has a request more than m, and no answer.
Asked(m, m2, saved) ==
    /\ m2 \in Metrics
    /\ m2.requests = m.requests + 1 /\ m2.turns = m.turns /\ m2.hits = m.hits
    /\ m2.chars = m.chars + saved /\ m2.reduced = m.reduced + saved \div 4
    /\ \A field \in Fields : m2[field] = m[field]
    /\ m2.samples = m.samples

LEMMA JoinAsks ==
    ASSUME NEW a \in Metrics, NEW b \in Metrics, NEW saved \in Nat
    PROVE  Asked(Joined2(a, b), Joined2(a, Requested(b, saved)), saved)
<1> DEFINE m == Joined2(a, b)
           c == Requested(b, saved)
           n == Joined2(a, c)
           q == saved \div 4
<1>1. /\ c \in Metrics
      /\ c = [requests |-> b.requests + 1, turns |-> b.turns, hits |-> b.hits,
                 chars |-> b.chars + saved, reduced |-> b.reduced + saved \div 4, input |-> b.input,
                 cached |-> b.cached, output |-> b.output, samples |-> b.samples]
  BY RequestedType
<1>2. q \in Nat
  OBVIOUS
<1> HIDE DEF c
<1>3. /\ c.requests = b.requests + 1 /\ c.turns = b.turns /\ c.hits = b.hits
      /\ c.chars = b.chars + saved /\ c.reduced = b.reduced + q /\ c.samples = b.samples
      /\ \A field \in Fields : c[field] = b[field]
  BY <1>1 DEF Fields
<1>4. /\ m \in Metrics
      /\ m.requests = a.requests + b.requests /\ m.turns = a.turns + b.turns
      /\ m.hits = a.hits + b.hits /\ m.chars = a.chars + b.chars /\ m.reduced = a.reduced + b.reduced
      /\ \A field \in Fields : m[field] = a[field] + b[field]
      /\ m.samples = JoinedTo(a.samples, b.samples)
  BY JoinedIs
<1>5. /\ n \in Metrics
      /\ n.requests = a.requests + c.requests /\ n.turns = a.turns + c.turns
      /\ n.hits = a.hits + c.hits /\ n.chars = a.chars + c.chars /\ n.reduced = a.reduced + c.reduced
      /\ \A field \in Fields : n[field] = a[field] + c[field]
      /\ n.samples = JoinedTo(a.samples, c.samples)
  BY <1>1, JoinedIs
<1>6. /\ a.requests \in Nat /\ a.turns \in Nat /\ a.hits \in Nat /\ a.chars \in Nat
      /\ a.reduced \in Nat
      /\ b.requests \in Nat /\ b.turns \in Nat /\ b.hits \in Nat /\ b.chars \in Nat
      /\ b.reduced \in Nat
  BY MetricsAreNat
<1> HIDE DEF m, n, q
<1>7. /\ n.requests = m.requests + 1 /\ n.turns = m.turns /\ n.hits = m.hits
      /\ n.chars = m.chars + saved /\ n.reduced = m.reduced + q /\ n.samples = m.samples
  BY <1>2, <1>3, <1>4, <1>5, <1>6
<1>8. \A field \in Fields : n[field] = m[field]
  BY <1>3, <1>4, <1>5
<1> QED BY <1>5, <1>7, <1>8 DEF Asked, m, n, c, q

LEMMA JoinedToNone ==
    ASSUME NEW b \in Metrics
    PROVE  Joined2(b, NoMetrics) = b
<1> DEFINE s == b.samples
<1>1. NoMetrics \in Metrics /\ NoSamples \in SampleSet /\ s \in SampleSet /\ NoMetrics.samples = NoSamples
  BY ReadBase, MetricsAreNat DEF NoMetrics
<1>2. JoinedTo(s, NoSamples) = s
  <2> DEFINE s1 == s.ttft  s2 == s.prefill  s3 == s.tail  s4 == s.decode  T == LongRates
  <2>1. s1 \in Seq(Nat) /\ s2 \in Seq(Rates) /\ s3 \in Seq(Rates) /\ s4 \in Seq(T)
    BY <1>1 DEF SampleSet
  <2>2. /\ JoinedTo(s, NoSamples)
               = [ttft |-> s1 \o <<>>, prefill |-> s2 \o <<>>, tail |-> s3 \o <<>>, decode |-> s4 \o <<>>]
        /\ s = [ttft |-> s1, prefill |-> s2, tail |-> s3, decode |-> s4]
    BY <1>1 DEF JoinedTo, NoSamples, SampleSet
  <2> HIDE DEF s, s1, s2, s3, s4, T
  <2>3. s1 \o <<>> = s1 /\ s2 \o <<>> = s2 /\ s3 \o <<>> = s3 /\ s4 \o <<>> = s4
    BY <2>1
  <2> QED BY <2>2, <2>3, Zenon
<1>3. /\ b.requests + 0 = b.requests /\ b.turns + 0 = b.turns /\ b.hits + 0 = b.hits
      /\ b.chars + 0 = b.chars /\ b.reduced + 0 = b.reduced /\ b.input + 0 = b.input
      /\ b.cached + 0 = b.cached /\ b.output + 0 = b.output
  BY DEF Metrics
<1>4. [k \in DOMAIN NoSamples |-> b.samples[k] \o NoMetrics.samples[k]] = s
  <2>1. Joined2(b, NoMetrics).samples = JoinedTo(b.samples, NoMetrics.samples)
    BY <1>1, SamplesOfJoined
  <2>2. Joined2(b, NoMetrics).samples = [k \in DOMAIN NoSamples |-> b.samples[k] \o NoMetrics.samples[k]]
    BY DEF Joined2
  <2> QED BY <1>1, <1>2, <2>1, <2>2
<1>5. /\ NoMetrics.requests = 0 /\ NoMetrics.turns = 0 /\ NoMetrics.hits = 0 /\ NoMetrics.chars = 0
      /\ NoMetrics.reduced = 0 /\ NoMetrics.input = 0 /\ NoMetrics.cached = 0 /\ NoMetrics.output = 0
  BY DEF NoMetrics
<1>6. b = [requests |-> b.requests, turns |-> b.turns, hits |-> b.hits, chars |-> b.chars,
           reduced |-> b.reduced, input |-> b.input, cached |-> b.cached, output |-> b.output,
           samples |-> s]
  BY DEF Metrics
<1> HIDE DEF s
<1>7. Joined2(b, NoMetrics) =
          [requests |-> b.requests, turns |-> b.turns, hits |-> b.hits, chars |-> b.chars,
           reduced |-> b.reduced, input |-> b.input, cached |-> b.cached, output |-> b.output,
           samples |-> s]
  BY <1>3, <1>4, <1>5 DEF Joined2
<1> QED BY <1>6, <1>7, Zenon
-----------------------------------------------------------------------------
(* The invariant: what the log j tells of the counters m, whatever was lost. *)

Figures(j, m) ==
    LET read == ReadLines(j) IN
    /\ read.requests = m.turns /\ read.hits = m.hits /\ read.samples = m.samples
    /\ \A field \in Fields : Total(j, field) = m[field]

\* The tokens saved, of each request rounded down, against its characters.
Rounded(m) == 4 * m.reduced <= m.chars /\ m.chars <= 4 * m.reduced + 3 * m.requests

Agree(j, m) ==
    /\ j \in Seq(LogLines) /\ m \in Metrics
    /\ Len(j) <= m.turns /\ m.turns <= m.requests
    /\ SamplesWithin(ReadLines(j).samples, m.samples)
    /\ Rounded(m)
    /\ Legible(j) /\ Len(j) = m.turns => Figures(j, m)
    /\ Legible(j) /\ Len(j) = m.requests => ReadLines(j).chars = m.chars

LEMMA QuarterIsRounded ==
    ASSUME NEW n \in Nat
    PROVE  n \div 4 \in Nat /\ 4 * (n \div 4) <= n /\ n <= 4 * (n \div 4) + 3
OBVIOUS

LEMMA RoundingAddsUp ==
    ASSUME NEW m \in Metrics, NEW n, NEW saved \in Nat, Rounded(m),
           n.requests = m.requests + 1, n.chars = m.chars + saved,
           n.reduced = m.reduced + saved \div 4
    PROVE  Rounded(n)
<1> DEFINE q == saved \div 4
           a == m.reduced  b == m.chars  c == m.requests
           x == n.reduced  y == n.chars  z == n.requests
<1>1. q \in Nat /\ 4 * q <= saved /\ saved <= 4 * q + 3
  BY QuarterIsRounded
<1>2. a \in Nat /\ b \in Nat /\ c \in Nat
  BY MetricsAreNat
<1>3. 4 * a <= b /\ b <= 4 * a + 3 * c
  BY DEF Rounded
<1>4. x = a + q /\ y = b + saved /\ z = c + 1
  OBVIOUS
<1> HIDE DEF q, a, b, c, x, y, z
<1>5. 4 * x <= y /\ y <= 4 * x + 3 * z
  BY <1>1, <1>2, <1>3, <1>4
<1> QED BY <1>5 DEF Rounded, x, y, z

LEMMA AnsweredAgrees ==
    ASSUME NEW j, NEW m, NEW n, NEW r \in Records, Agree(j, m), Measures(m, n, r)
    PROVE  Agree(Append(j, r), n)
<1> DEFINE k == Append(j, r)
           read == ReadLines(j)
           hit == IF r.hit THEN 1 ELSE 0
           q == r.saved \div 4
           saved == r.saved
           rates == RatesOf(r)
           ttft == r.ttft
<1>1. r \in LogLines /\ Readable(r)
  BY RecordsAreReadable DEF LogLines
<1>2. j \in Seq(LogLines) /\ m \in Metrics /\ n \in Metrics
  BY DEF Agree, Measures
<1>3. /\ k \in Seq(LogLines) /\ Len(k) = Len(j) + 1 /\ Len(j) \in Nat
      /\ \A field \in Fields : Total(k, field) = TotalNext(Total(j, field), r, field)
      /\ Legible(k) <=> Legible(j)
  BY <1>1, <1>2, AppendReads
<1>4. ReadLines(k) = ReadRecord(read, r) /\ read \in Metrics /\ ReadLines(k) \in Metrics
  BY <1>1, <1>2, <1>3, ReadAppend, ReadRecordType DEF ReadOn
<1>5. /\ ReadLines(k).requests = read.requests + 1 /\ ReadLines(k).hits = read.hits + hit
      /\ ReadLines(k).chars = read.chars + saved
      /\ ReadLines(k).samples = SampleAll(read.samples, ttft, rates)
  <2> HIDE DEF hit, saved, ttft, rates
  <2>1. read \in Metrics
    BY <1>4
  <2> HIDE DEF read, k
  <2>2. ReadRecord(read, r) = [read EXCEPT !.requests = @ + 1, !.turns = @ + 1, !.hits = @ + hit,
              !.chars = @ + saved, !.input = @ + r.usage.input, !.cached = @ + r.usage.cached,
              !.output = @ + r.usage.output, !.samples = SampleAll(@, ttft, rates)]
    BY DEF ReadRecord, hit, saved, ttft, rates
  <2>3. /\ ReadRecord(read, r).requests = read.requests + 1 /\ ReadRecord(read, r).hits = read.hits + hit
        /\ ReadRecord(read, r).chars = read.chars + saved
        /\ ReadRecord(read, r).samples = SampleAll(read.samples, ttft, rates)
    BY <2>1, <2>2 DEF Metrics
  <2> QED BY <1>4, <2>3 DEF read
<1>6. saved \in Nat /\ hit \in Nat /\ ttft \in Nat /\ q \in Nat /\ 4 * q <= saved /\ saved <= 4 * q + 3
  <2>1. saved \in Nat /\ ttft \in Nat /\ hit \in Nat
    BY DEF Records
  <2> QED BY <2>1, QuarterIsRounded
<1>7. rates \in RateSet
  BY RatesOfType
<1>8. /\ n.requests = m.requests + 1 /\ n.turns = m.turns + 1 /\ n.hits = m.hits + hit
      /\ n.chars = m.chars + saved /\ n.reduced = m.reduced + q
      /\ \A field \in Fields : n[field] = TotalNext(m[field], r, field)
      /\ n.samples = SampleAll(m.samples, ttft, rates)
  BY DEF Measures
<1>9. /\ m.requests \in Nat /\ m.turns \in Nat /\ m.hits \in Nat /\ m.chars \in Nat /\ m.reduced \in Nat
      /\ m.samples \in SampleSet /\ read.samples \in SampleSet /\ read.chars \in Nat
  BY <1>2, <1>4, MetricsAreNat
<1>10. /\ Len(j) <= m.turns /\ m.turns <= m.requests
       /\ SamplesWithin(read.samples, m.samples)
       /\ Rounded(m)
       /\ Legible(j) /\ Len(j) = m.turns => Figures(j, m)
       /\ Legible(j) /\ Len(j) = m.requests => read.chars = m.chars
  BY DEF Agree
<1> HIDE DEF k, read, hit, q, saved, rates, ttft
<1>11. Len(k) <= n.turns /\ n.turns <= n.requests
  BY <1>3, <1>8, <1>9, <1>10
<1>12. SamplesWithin(ReadLines(k).samples, n.samples)
  BY <1>5, <1>6, <1>7, <1>8, <1>9, <1>10, SampleAllWithin
<1>13. Rounded(n)
  BY <1>2, <1>6, <1>8, <1>10, RoundingAddsUp DEF q
<1>14. ASSUME Legible(k), Len(k) = n.turns PROVE Figures(k, n)
  <2>1. Legible(j) /\ Len(j) = m.turns
    BY <1>3, <1>8, <1>9, <1>14
  <2>2. /\ read.requests = m.turns /\ read.hits = m.hits /\ read.samples = m.samples
        /\ \A field \in Fields : Total(j, field) = m[field]
    BY <1>10, <2>1 DEF Figures, read
  <2>3. \A field \in Fields : Total(k, field) = n[field]
    BY <1>3, <1>8, <2>2
  <2> QED BY <1>5, <1>8, <2>2, <2>3 DEF Figures
<1>15. ASSUME Legible(k), Len(k) = n.requests PROVE ReadLines(k).chars = n.chars
  BY <1>3, <1>5, <1>8, <1>9, <1>10, <1>15
<1> QED BY <1>2, <1>3, <1>11, <1>12, <1>13, <1>14, <1>15 DEF Agree, k

LEMMA SpoiltAgrees ==
    ASSUME NEW j, NEW k, NEW m, NEW n, NEW r \in Records, Agree(j, m), Measures(m, n, r), Spoilt(j, k)
    PROVE  Agree(k, n)
<1> DEFINE read == ReadLines(j)
           q == r.saved \div 4
           saved == r.saved
           rates == RatesOf(r)
           ttft == r.ttft
<1>1. j \in Seq(LogLines) /\ m \in Metrics /\ n \in Metrics /\ k \in Seq(LogLines) /\ Len(j) \in Nat
  BY DEF Agree, Measures, Spoilt
<1>2. ReadLines(k) = read /\ read \in Metrics
  <2>1. Torn \in LogLines
    BY DamagedAreNot DEF LogLines
  <2> QED BY <1>1, <2>1, ReadAppend DEF Spoilt
<1>3. \/ Len(k) = Len(j) /\ (Legible(k) => Legible(j))
      \/ Len(k) = Len(j) + 1 /\ ~Legible(k)
  BY DEF Spoilt
<1>4. saved \in Nat /\ ttft \in Nat /\ q \in Nat /\ 4 * q <= saved /\ saved <= 4 * q + 3
  <2>1. saved \in Nat /\ ttft \in Nat
    BY DEF Records
  <2> QED BY <2>1, QuarterIsRounded
<1>5. rates \in RateSet
  BY RatesOfType
<1>6. /\ n.requests = m.requests + 1 /\ n.turns = m.turns + 1
      /\ n.chars = m.chars + saved /\ n.reduced = m.reduced + q
      /\ n.samples = SampleAll(m.samples, ttft, rates)
  BY DEF Measures
<1>7. /\ m.requests \in Nat /\ m.turns \in Nat /\ m.chars \in Nat /\ m.reduced \in Nat
      /\ m.samples \in SampleSet /\ read.samples \in SampleSet
  BY <1>1, <1>2, MetricsAreNat
<1>8. /\ Len(j) <= m.turns /\ m.turns <= m.requests
      /\ SamplesWithin(read.samples, m.samples)
      /\ Rounded(m)
  BY DEF Agree
<1> HIDE DEF read, q, saved, rates, ttft
<1>9. Len(k) <= n.turns /\ n.turns <= n.requests
  BY <1>1, <1>3, <1>6, <1>7, <1>8
<1>10. SamplesWithin(ReadLines(k).samples, n.samples)
  BY <1>2, <1>4, <1>5, <1>6, <1>7, <1>8, SampleAllWithin
<1>11. Rounded(n)
  BY <1>1, <1>4, <1>6, <1>8, RoundingAddsUp DEF q
<1>12. ~(Legible(k) /\ Len(k) = n.turns) /\ ~(Legible(k) /\ Len(k) = n.requests)
  BY <1>1, <1>3, <1>6, <1>7, <1>8
<1> QED BY <1>1, <1>9, <1>10, <1>11, <1>12 DEF Agree

LEMMA AskedAgrees ==
    ASSUME NEW j, NEW m, NEW n, NEW saved \in Nat, Agree(j, m), Asked(m, n, saved)
    PROVE  Agree(j, n)
<1> DEFINE q == saved \div 4
<1>1. j \in Seq(LogLines) /\ m \in Metrics /\ n \in Metrics /\ Len(j) \in Nat
  BY DEF Agree, Asked
<1>2. q \in Nat /\ 4 * q <= saved /\ saved <= 4 * q + 3
  BY QuarterIsRounded
<1>3. /\ n.requests = m.requests + 1 /\ n.turns = m.turns /\ n.hits = m.hits
      /\ n.chars = m.chars + saved /\ n.reduced = m.reduced + q /\ n.samples = m.samples
      /\ \A field \in Fields : n[field] = m[field]
  BY DEF Asked
<1>4. m.requests \in Nat /\ m.turns \in Nat /\ m.chars \in Nat /\ m.reduced \in Nat
  BY <1>1, MetricsAreNat
<1>5. /\ Len(j) <= m.turns /\ m.turns <= m.requests
      /\ SamplesWithin(ReadLines(j).samples, m.samples)
      /\ Rounded(m)
      /\ Legible(j) /\ Len(j) = m.turns => Figures(j, m)
  BY DEF Agree
<1> HIDE DEF q
<1>6. Len(j) <= n.turns /\ n.turns <= n.requests /\ Len(j) # n.requests
  BY <1>1, <1>3, <1>4, <1>5
<1>7. Rounded(n)
  BY <1>1, <1>3, <1>5, RoundingAddsUp DEF q
<1>8. Legible(j) /\ Len(j) = n.turns => Figures(j, n)
  BY <1>3, <1>5 DEF Figures
<1> QED BY <1>1, <1>3, <1>5, <1>6, <1>7, <1>8 DEF Agree

TelemetryInv ==
    /\ live \in Metrics /\ earlier \in Metrics
    /\ Agree(journal, Ever)

LEMMA TelemetryStarts == ASSUME TelemetryInit PROVE TelemetryInv
<1>1. live = NoMetrics /\ earlier = NoMetrics /\ journal = <<>>
  BY DEF TelemetryInit
<1>2. NoMetrics \in Metrics /\ NoSamples \in SampleSet
  BY ReadBase
<1>3. Joined2(NoMetrics, NoMetrics) = NoMetrics
  <2>1. JoinedTo(NoSamples, NoSamples) = NoSamples
    <3>1. <<>> \o <<>> = <<>>
      OBVIOUS
    <3> QED BY <3>1 DEF JoinedTo, NoSamples
  <2>2. [k \in DOMAIN NoSamples |-> NoMetrics.samples[k] \o NoMetrics.samples[k]] = NoSamples
    <3>1. Joined2(NoMetrics, NoMetrics).samples = JoinedTo(NoMetrics.samples, NoMetrics.samples)
      BY <1>2, SamplesOfJoined
    <3>2. NoMetrics.samples = NoSamples
      BY DEF NoMetrics
    <3> QED BY <2>1, <3>1, <3>2 DEF Joined2
  <2> QED BY <2>2 DEF Joined2, NoMetrics
<1>4. Ever = NoMetrics
  BY <1>1, <1>3 DEF Ever
<1>5. <<>> \in Seq(LogLines) /\ Len(<<>>) = 0
  OBVIOUS
<1>6. ReadLines(<<>>) = NoMetrics /\ \A field \in Fields : Total(<<>>, field) = 0
  BY <1>5, ReadAppendNone, TotalAppendNone
<1>7. /\ NoMetrics.turns = 0 /\ NoMetrics.requests = 0 /\ NoMetrics.chars = 0 /\ NoMetrics.reduced = 0
      /\ NoMetrics.samples = NoSamples /\ \A field \in Fields : NoMetrics[field] = 0
  BY DEF NoMetrics, Fields
<1>8. Figures(<<>>, NoMetrics)
  BY <1>6, <1>7 DEF Figures
<1>9. Agree(<<>>, NoMetrics)
  <2>1. Rounded(NoMetrics)
    BY <1>7 DEF Rounded
  <2> QED BY <2>1, <1>2, <1>5, <1>6, <1>7, <1>8, NoneIsWithin DEF Agree
<1> QED BY <1>1, <1>2, <1>4, <1>9 DEF TelemetryInv

\* An answered request, whatever becomes of its record.
LEMMA AnswerKeepsInv ==
    ASSUME TelemetryInv, NEW r \in Records, Measures(live, live', r), Logs(r), earlier' = earlier
    PROVE  TelemetryInv'
<1>1. live \in Metrics /\ earlier \in Metrics /\ Agree(journal, Ever) /\ journal \in Seq(LogLines)
  BY DEF TelemetryInv, Agree
<1>2. live' \in Metrics /\ earlier' \in Metrics
  BY <1>1 DEF Measures
<1>3. Measures(Joined2(earlier, live), Joined2(earlier, live'), r)
  BY <1>1, JoinMeasures
<1>4. Measures(Ever, Ever', r)
  BY <1>3 DEF Ever
<1>5. journal' = Append(journal, r) \/ Spoilt(journal, journal')
  BY <1>1, LogEffect
<1>6. Agree(journal', Ever')
  BY <1>1, <1>4, <1>5, AnsweredAgrees, SpoiltAgrees
<1> QED BY <1>2, <1>6 DEF TelemetryInv

LEMMA UsagesAndTimings ==
    ASSUME TelemetryAssumption
    PROVE  Usages \subseteq UsageSet /\ \A t \in Timings : Timed(t)
<1>1. Usages \subseteq UsageSet
  BY DEF Usages, UsageSet
<1>2. ASSUME NEW t \in Timings PROVE Timed(t)
  <2>1. PICK f \in Flows : t = Timing(f)
    BY DEF Timings, Accounted
  <2>2. FitsTheFlow(f, Timing(f))
    BY FlowsByOneClock
  <2> QED BY <2>1, <2>2 DEF FitsTheFlow, Timed
<1> QED BY <1>1, <1>2

LEMMA TelemetryStep ==
    ASSUME TelemetryAssumption, TelemetryInv, [TelemetryNext]_telemetryVars
    PROVE  TelemetryInv'
<1>1. live \in Metrics /\ earlier \in Metrics /\ Agree(journal, Ever)
  BY DEF TelemetryInv
<1>2. Saved \subseteq Nat
  BY DEF TelemetryAssumption
<1>3. ASSUME NEW saved \in Saved, NEW t \in Timings, NEW usage \in Usages, Reply(t, usage, saved)
      PROVE  TelemetryInv'
  <2> DEFINE rates == TelemetryOf(usage, t)
             r == Record(FALSE, 200, usage, t, rates, saved)
             m == Recorded(Requested(live, saved), usage, t.ttft, rates)
  <2>1. usage \in UsageSet /\ Timed(t) /\ saved \in Nat
    BY <1>2, <1>3, UsagesAndTimings
  <2>2. r \in Records /\ Measures(live, m, r)
    BY <1>1, <2>1, ReplyMeasures
  <2>3. live' = m /\ Logs(r) /\ earlier' = earlier
    BY <1>3 DEF Reply
  <2> HIDE DEF r, m
  <2> QED BY <2>2, <2>3, AnswerKeepsInv
<1>4. ASSUME NEW saved \in Saved, NEW usage \in Usages, NEW took \in 1..MaxTime, Failure(usage, saved, took)
      PROVE  TelemetryInv'
  <2> DEFINE r == FailureRecord(usage, took, saved)
             m == Recorded(Requested(live, saved), NoUsage, 0, Unmeasured)
  <2>1. usage \in UsageSet /\ took \in Nat /\ saved \in Nat
    BY <1>2, <1>4, UsagesAndTimings
  <2>2. r \in Records /\ Measures(live, m, r)
    BY <1>1, <2>1, FailureMeasures
  <2>3. live' = m /\ Logs(r) /\ earlier' = earlier
    BY <1>4 DEF Failure, FailureRecord
  <2> HIDE DEF r, m
  <2> QED BY <2>2, <2>3, AnswerKeepsInv
<1>5. ASSUME NEW saved \in Saved, NEW usage \in Usages, Hit(usage, saved)
      PROVE  TelemetryInv'
  <2> DEFINE r == Record(TRUE, 200, usage, NotTimed, Unmeasured, saved)
             m1 == Requested(live, saved)
             m == [m1 EXCEPT !.hits = @ + 1, !.turns = @ + 1]
  <2>1. usage \in UsageSet /\ saved \in Nat
    BY <1>2, <1>5, UsagesAndTimings
  <2>2. r \in Records /\ Measures(live, m, r)
    BY <1>1, <2>1, HitMeasures
  <2>3. live' = m /\ Logs(r) /\ earlier' = earlier
    BY <1>5 DEF Hit
  <2> HIDE DEF r, m
  <2> QED BY <2>2, <2>3, AnswerKeepsInv
<1>6. ASSUME NEW saved \in Saved, NoReply(saved) PROVE TelemetryInv'
  <2>1. live' = Requested(live, saved) /\ journal' = journal /\ earlier' = earlier /\ saved \in Nat
    BY <1>2, <1>6 DEF NoReply
  <2>2. Asked(Joined2(earlier, live), Joined2(earlier, live'), saved)
    BY <1>1, <2>1, JoinAsks
  <2>3. Asked(Ever, Ever', saved)
    BY <2>1, <2>2 DEF Ever
  <2>4. Agree(journal', Ever')
    BY <1>1, <2>1, <2>3, AskedAgrees
  <2>5. live' \in Metrics
    BY <1>1, <2>1, RequestedType
  <2> QED BY <1>1, <2>1, <2>4, <2>5 DEF TelemetryInv
<1>7. CASE Restart
  <2>1. live' = NoMetrics /\ earlier' = Ever /\ journal' = journal
    BY <1>7 DEF Restart, Ever
  <2>2. Ever \in Metrics
    BY <1>1, JoinedType DEF Ever
  <2>3. Ever' = Ever
    BY <2>1, <2>2, JoinedToNone DEF Ever
  <2> QED BY <1>1, <2>1, <2>2, <2>3, ReadBase DEF TelemetryInv
<1>8. CASE UNCHANGED telemetryVars
  BY <1>1, <1>8 DEF telemetryVars, TelemetryInv, Ever
<1> QED BY <1>3, <1>4, <1>5, <1>6, <1>7, <1>8 DEF TelemetryNext

(* The counters count what was asked and answered, the log has no more than  *)
(* was answered, and what it has are those samples, whatever of it was lost. *)
THEOREM TelemetryIsKept == TelemetrySpec => []TelemetryInv
<1>1. TelemetryInit => TelemetryInv
  BY TelemetryStarts
<1>2. TelemetryInv /\ [TelemetryNext]_telemetryVars => TelemetryInv'
  BY TelemetryAssumption, TelemetryStep
<1> QED BY <1>1, <1>2, PTL DEF TelemetrySpec

(* However the stamps of a flow are missing, one clock measures it; and what *)
(* is averaged as decoding was a stream's window of at least the floor.      *)
THEOREM OneClockMeasures == TelemetrySpec => []MeasuredByOneClock
<1>1. ASSUME TelemetryInv PROVE MeasuredByOneClock
  <2>1. ClocksAreNotMixed
    BY TelemetryAssumption, FlowsByOneClock DEF ClocksAreNotMixed, FitsTheFlow
  <2>2. Ever.samples.decode \in Seq(LongRates)
    BY <1>1 DEF TelemetryInv, Agree, Metrics, SampleSet
  <2>3. \A i \in DOMAIN Ever.samples.decode : Ever.samples.decode[i] \in LongRates
    <3> DEFINE d == Ever.samples.decode  T == LongRates
    <3>1. d \in Seq(T)
      BY <2>2
    <3> HIDE DEF d, T
    <3>2. \A i \in DOMAIN d : d[i] \in T
      BY <3>1
    <3> QED BY <3>2 DEF d, T
  <2> QED BY <2>1, <2>3 DEF MeasuredByOneClock, LongRates
<1> QED BY <1>1, TelemetryIsKept, PTL

(* What is read back of the log is what all the processes that wrote it      *)
(* measured: exactly, where the log is whole; by rounding in the tokens      *)
(* saved; without the requests of the lines that were lost; and not at all   *)
(* once a line does not decode.                                              *)
THEOREM FiguresAgree == TelemetrySpec => []FiguresAgreeWithLog
<1>1. ASSUME TelemetryInv PROVE FiguresAgreeWithLog
  <2> DEFINE j == journal
             m == Ever
             read == ReadLines(j)
             off == Offline(j)
             cut == \E i \in DOMAIN j : ~Decodes(j[i])
             whole == {i \in DOMAIN j : Readable(j[i])}
  <2>1. Agree(j, m)
    BY <1>1 DEF TelemetryInv
  <2>2. Undamaged <=> Legible(j)
    BY DEF Undamaged, Legible
  <2>3. j \in Seq(LogLines) /\ m \in Metrics /\ read \in Metrics
    <3>1. Torn \in LogLines
      BY DamagedAreNot DEF LogLines
    <3> QED BY <2>1, <3>1, ReadAppend DEF Agree
  <2>4. /\ cut \/ read.requests = 0 => off = NoFigures
        /\ ~cut /\ read.requests # 0 => off = Summary(read)
    BY DEF Offline
  <2>5. /\ Summary(read).requests = read.requests /\ Summary(read).hits = read.hits
        /\ Summary(read).samples = read.samples /\ Summary(read).chars = read.chars
        /\ Summary(read).reduced = read.chars \div 4
    <3> DEFINE q == read.chars \div 4
    <3>1. Summary(read) = [read EXCEPT !.reduced = q]
      BY DEF Summary
    <3> HIDE DEF q, read
    <3> QED BY <2>3, <3>1 DEF Metrics, q
  <2>6. Legible(j) => ~cut
    <3>1. ASSUME NEW x, ~Decodes(x) PROVE ~Readable(x)
      <4>1. x \in [decodes : {FALSE}, ended : BOOLEAN] => x \in [decodes : BOOLEAN, ended : BOOLEAN]
        OBVIOUS
      <4> QED BY <3>1, <4>1, Zenon DEF Decodes, Readable
    <3> QED BY <3>1, Zenon DEF Legible
  <2> HIDE DEF j, m, read, off, cut
  <2>7. OfflineAgreesWithLive
    <3>1. ASSUME Legible(j), Len(j) = m.turns, m.turns > 0
          PROVE  /\ off.requests = m.turns /\ off.hits = m.hits
                 /\ off.samples = m.samples
                 /\ \A field \in Fields : Total(j, field) = m[field]
      <4>1. /\ read.requests = m.turns /\ read.hits = m.hits /\ read.samples = m.samples
            /\ \A field \in Fields : Total(j, field) = m[field]
        BY <2>1, <3>1 DEF Agree, Figures, read
      <4>2. off = Summary(read)
        BY <2>4, <2>6, <3>1, <4>1
      <4> QED BY <2>5, <4>1, <4>2
    <3> QED BY <2>2, <3>1 DEF OfflineAgreesWithLive, Fields, j, m, off
  <2>8. FiguresAreOfAllOrNone
    <3>1. read.requests = Cardinality(whole) /\ IsFiniteSet(whole)
      <4>1. read.requests = Cardinality(whole)
        BY <2>3, RequestsAreCounted DEF read, ReadableOf
      <4>2. IsFiniteSet(1..Len(j)) /\ whole \subseteq 1..Len(j)
        <5>1. Len(j) \in Nat /\ DOMAIN j = 1..Len(j)
          BY <2>3
        <5> QED BY <5>1, FS_Interval
      <4> HIDE DEF whole
      <4> QED BY <4>1, <4>2, FS_Subset
    <3>2. SamplesWithin(read.samples, m.samples)
      BY <2>1 DEF Agree, read
    <3>3. DOMAIN NoSamples = {"ttft", "prefill", "tail", "decode"}
      BY DEF NoSamples
    <3>4. \A k \in DOMAIN NoSamples : IsWithin(read.samples[k], m.samples[k])
      BY <3>2, <3>3 DEF SamplesWithin
    <3>5. CASE off = NoFigures
      <4>1. cut \/ whole = {}
        <5>1. CASE read.requests = 0
          BY <3>1, <5>1, FS_EmptySet
        <5>2. CASE read.requests # 0 /\ ~cut
          <6>1. DOMAIN Summary(read) = DOMAIN read
            BY DEF Summary
          <6>2. "requests" \in DOMAIN read
            BY <2>3 DEF Metrics
          <6>3. DOMAIN NoFigures = {"figures"} /\ "requests" # "figures"
            BY DEF NoFigures
          <6> QED BY <2>4, <3>5, <5>2, <6>1, <6>2, <6>3
        <5> QED BY <5>1, <5>2
      <4> QED BY <3>5, <4>1 DEF FiguresAreOfAllOrNone, j, off, cut
    <3>6. CASE off # NoFigures
      <4>1. off = Summary(read)
        BY <2>4, <3>6
      <4>2. off.requests = Cardinality(whole) /\ off.samples = read.samples
        BY <2>5, <3>1, <4>1
      <4> QED BY <3>4, <3>6, <4>2 DEF FiguresAreOfAllOrNone, j, m, off
    <3> QED BY <3>5, <3>6
  <2>9. SavingsDifferByRounding
    <3>1. ASSUME Legible(j), Len(j) = m.requests, m.requests > 0
          PROVE  /\ off.chars = m.chars
                 /\ m.reduced <= off.reduced /\ off.reduced - m.reduced <= m.requests
      <4> DEFINE q == m.chars \div 4
      <4>1. read.chars = m.chars
        BY <2>1, <3>1 DEF Agree, read
      <4>2. m.chars \in Nat /\ m.reduced \in Nat /\ m.requests \in Nat
        BY <2>3, MetricsAreNat
      <4>3. q \in Nat /\ 4 * q <= m.chars /\ m.chars <= 4 * q + 3
        BY <4>2, QuarterIsRounded
      <4>4. 4 * m.reduced <= m.chars /\ m.chars <= 4 * m.reduced + 3 * m.requests
        BY <2>1 DEF Agree, Rounded
      <4>5. off = Summary(read)
        BY <2>1, <2>3, <2>4, <2>6, <3>1 DEF Agree, Figures, Metrics, read
      <4>6. off.reduced = q /\ off.chars = m.chars
        BY <2>5, <4>1, <4>5
      <4> HIDE DEF q
      <4> QED BY <4>2, <4>3, <4>4, <4>6
    <3> QED BY <2>2, <3>1 DEF SavingsDifferByRounding, j, m, off
  <2> QED BY <2>7, <2>8, <2>9 DEF FiguresAgreeWithLog
<1> QED BY <1>1, TelemetryIsKept, PTL

-----------------------------------------------------------------------------
(* Selection, with the places of what is selected. *)

Places(s, S) == {j \in 1..Len(s) : s[j] \in S}
Rank(s, S, k) == Cardinality({j \in 1..k : s[j] \in S})
FirstPlaces(s, S, n) == {k \in Places(s, S) : Rank(s, S, k) <= n}
Capped(len, n) == IF len <= n THEN len ELSE n

\* The first n places are as many as there are, and hold what is selected first.
Placing(s, S, n) ==
    /\ IsFiniteSet(Places(s, S)) /\ Cardinality(Places(s, S)) = Len(Keep(s, S))
    /\ IsFiniteSet(FirstPlaces(s, S, n))
    /\ Cardinality(FirstPlaces(s, S, n)) = Capped(Len(Keep(s, S)), n)
    /\ \A i \in 1..Capped(Len(Keep(s, S)), n) :
          \E k \in FirstPlaces(s, S, n) : Keep(s, S)[i] = s[k]

LEMMA PlacingStep ==
    ASSUME NEW T, NEW S, NEW n \in Nat, NEW s \in Seq(T), NEW x \in T, Placing(s, S, n)
    PROVE  Placing(Append(s, x), S, n)
<1> DEFINE t == Append(s, x)
           m == Len(s) + 1
           kept == Keep(s, S)
<1>1. /\ t \in Seq(T) /\ Len(t) = m /\ Len(s) \in Nat /\ m \notin 1..Len(s)
      /\ 1..m = 1..Len(s) \cup {m}
      /\ \A i \in 1..Len(s) : t[i] = s[i]
      /\ t[m] = x
  OBVIOUS
<1>2. kept \in Seq(T) /\ Len(kept) \in Nat
  BY KeepType
<1>3. Keep(t, S) = IF x \in S THEN Append(kept, x) ELSE kept
  BY KeepAppend
<1> HIDE DEF t, m, kept
<1>4. ASSUME NEW k \in 1..Len(s) PROVE Rank(t, S, k) = Rank(s, S, k)
  <2>1. {j \in 1..k : t[j] \in S} = {j \in 1..k : s[j] \in S}
    <3>1. \A j \in 1..k : j \in 1..Len(s)
      BY <1>1
    <3> QED BY <1>1, <3>1
  <2> QED BY <2>1 DEF Rank
<1>5. CASE x \notin S
  <2>1. Places(t, S) = Places(s, S)
    BY <1>1, <1>5 DEF Places
  <2>2. FirstPlaces(t, S, n) = FirstPlaces(s, S, n)
    BY <1>4, <2>1 DEF FirstPlaces, Places
  <2>3. Keep(t, S) = kept
    BY <1>3, <1>5
  <2>4. \A k \in FirstPlaces(s, S, n) : t[k] = s[k]
    BY <1>1 DEF FirstPlaces, Places
  <2> QED BY <2>1, <2>2, <2>3, <2>4 DEF Placing, kept, t
<1>6. CASE x \in S
  <2>1. Places(t, S) = Places(s, S) \cup {m} /\ m \notin Places(s, S)
    BY <1>1, <1>6 DEF Places
  <2>2. IsFiniteSet(Places(t, S)) /\ Cardinality(Places(t, S)) = Len(kept) + 1
    BY <2>1, FS_AddElement DEF Placing, kept
  <2>3. Keep(t, S) = Append(kept, x) /\ Len(Keep(t, S)) = Len(kept) + 1
        /\ (\A i \in 1..Len(kept) : Keep(t, S)[i] = kept[i]) /\ Keep(t, S)[Len(kept) + 1] = x
    BY <1>2, <1>3, <1>6
  <2>4. Rank(t, S, m) = Len(kept) + 1
    BY <1>1, <2>2 DEF Rank, Places
  <2>5. FirstPlaces(t, S, n) = FirstPlaces(s, S, n) \cup (IF Len(kept) + 1 <= n THEN {m} ELSE {})
    BY <1>4, <2>1, <2>4 DEF FirstPlaces, Places
  <2>6. m \notin FirstPlaces(s, S, n) /\ \A k \in FirstPlaces(s, S, n) : t[k] = s[k]
    BY <1>1 DEF FirstPlaces, Places
  <2>7. CASE Len(kept) + 1 <= n
    <3>1. FirstPlaces(t, S, n) = FirstPlaces(s, S, n) \cup {m}
      BY <2>5, <2>7
    <3>2. Capped(Len(kept), n) = Len(kept) /\ Capped(Len(kept) + 1, n) = Len(kept) + 1
      BY <1>2, <2>7 DEF Capped
    <3>3. /\ IsFiniteSet(FirstPlaces(t, S, n))
          /\ Cardinality(FirstPlaces(t, S, n)) = Len(kept) + 1
      BY <2>6, <3>1, <3>2, FS_AddElement DEF Placing, kept
    <3>4. ASSUME NEW i \in 1..(Len(kept) + 1)
          PROVE  \E k \in FirstPlaces(t, S, n) : Keep(t, S)[i] = t[k]
      <4>1. CASE i = Len(kept) + 1
        BY <1>1, <2>3, <3>1, <4>1
      <4>2. CASE i \in 1..Len(kept)
        BY <2>3, <2>6, <3>1, <3>2, <4>2 DEF Placing, kept
      <4> QED BY <1>2, <4>1, <4>2
    <3> QED BY <2>2, <2>3, <3>2, <3>3, <3>4 DEF Placing, t
  <2>8. CASE ~(Len(kept) + 1 <= n)
    <3>1. FirstPlaces(t, S, n) = FirstPlaces(s, S, n)
      BY <2>5, <2>8
    <3>2. Capped(Len(kept) + 1, n) = n /\ Capped(Len(kept), n) = n /\ n <= Len(kept)
      BY <1>2, <2>8 DEF Capped
    <3>3. \A i \in 1..n : Keep(t, S)[i] = kept[i]
      BY <1>2, <2>3, <3>2
    <3> QED BY <2>2, <2>3, <2>6, <3>1, <3>2, <3>3 DEF Placing, t, kept
  <2> QED BY <2>7, <2>8
<1> QED BY <1>5, <1>6 DEF t

LEMMA PlacingAlways ==
    ASSUME NEW T, NEW S, NEW n \in Nat, NEW s \in Seq(T)
    PROVE  Placing(s, S, n)
<1> DEFINE R == {t \in Seq(T) : Placing(t, S, n)}
<1>1. <<>> \in R
  <2>1. Places(<<>>, S) = {} /\ FirstPlaces(<<>>, S, n) = {}
    BY DEF Places, FirstPlaces
  <2>2. Keep(<<>>, S) = <<>> /\ Len(Keep(<<>>, S)) = 0 /\ Capped(0, n) = 0
    BY KeepEmpty DEF Capped
  <2>3. Cardinality({}) = 0 /\ IsFiniteSet({})
    BY FS_EmptySet
  <2>4. ASSUME NEW i \in 1..Capped(Len(Keep(<<>>, S)), n) PROVE FALSE
    BY <2>2
  <2>5. /\ Cardinality(Places(<<>>, S)) = Len(Keep(<<>>, S))
        /\ Cardinality(FirstPlaces(<<>>, S, n)) = Capped(Len(Keep(<<>>, S)), n)
    BY <2>1, <2>2, <2>3
  <2>6. Placing(<<>>, S, n)
    BY <2>1, <2>3, <2>4, <2>5 DEF Placing
  <2> QED BY <2>6
<1>2. \A t \in Seq(T), x \in T : t \in R => Append(t, x) \in R
  BY PlacingStep
<1> HIDE DEF R
<1>3. Seq(T) \subseteq R
  BY <1>1, <1>2, SequenceInduction
<1> QED BY <1>3 DEF R
-----------------------------------------------------------------------------
(* The median. *)

LEMMA InsertIs ==
    ASSUME NEW V, NEW s \in Seq(V), NEW v \in V
    PROVE  Insert(s, v) \in Seq(V) /\ Len(Insert(s, v)) = Len(s) + 1
<1> DEFINE below == {i \in DOMAIN s : s[i] <= v}
           n == Cardinality(below)
<1>1. Len(s) \in Nat /\ DOMAIN s = 1..Len(s) /\ below \subseteq 1..Len(s)
  OBVIOUS
<1>2. IsFiniteSet(1..Len(s)) /\ Cardinality(1..Len(s)) = Len(s)
  <2> DEFINE len == Len(s)
  <2>1. 1 \in Int /\ len \in Int /\ len \in Nat
    BY <1>1
  <2> HIDE DEF len
  <2>2. IsFiniteSet(1..len) /\ Cardinality(1..len) = IF 1 > len THEN 0 ELSE len - 1 + 1
    BY <2>1, FS_Interval
  <2>3. (IF 1 > len THEN 0 ELSE len - 1 + 1) = len
    BY <2>1
  <2> QED BY <2>2, <2>3 DEF len
<1>3. n \in 0..Len(s)
  BY <1>1, <1>2, FS_Subset, FS_CardinalityType
<1>4. Insert(s, v) = SubSeq(s, 1, n) \o <<v>> \o SubSeq(s, n + 1, Len(s))
  BY DEF Insert
<1> HIDE DEF n
<1>5. SubSeq(s, 1, n) \in Seq(V) /\ Len(SubSeq(s, 1, n)) = n
  BY <1>3, FirstOf
<1>6. SubSeq(s, n + 1, Len(s)) \in Seq(V) /\ Len(SubSeq(s, n + 1, Len(s))) = Len(s) - n
  <2>1. \A i \in (n + 1)..Len(s) : s[i] \in V
    BY <1>1, <1>3
  <2>2. n + 1 \in Int /\ Len(s) \in Int
    BY <1>1, <1>3
  <2> DEFINE rest == SubSeq(s, n + 1, Len(s))
  <2>3. rest \in Seq(V) /\ Len(rest) = IF n + 1 <= Len(s) THEN Len(s) - (n + 1) + 1 ELSE 0
    BY <2>1, <2>2, SubSeqProperties
  <2> HIDE DEF rest
  <2>4. Len(rest) = Len(s) - n
    <3>1. n \in Nat /\ Len(s) \in Nat /\ n <= Len(s)
      BY <1>1, <1>3
    <3> QED BY <2>3, <3>1
  <2> QED BY <2>3, <2>4 DEF rest
<1> DEFINE a == SubSeq(s, 1, n)
           b == SubSeq(s, n + 1, Len(s))
<1>7. Insert(s, v) = a \o <<v>> \o b /\ a \in Seq(V) /\ b \in Seq(V)
      /\ Len(a) = n /\ Len(b) = Len(s) - n /\ <<v>> \in Seq(V)
  BY <1>4, <1>5, <1>6
<1> HIDE DEF a, b
<1> DEFINE c == a \o <<v>>
<1>8. c \in Seq(V) /\ Len(c) = n + 1
  BY <1>7
<1> HIDE DEF c
<1>9. c \o b \in Seq(V) /\ Len(c \o b) = Len(c) + Len(b)
  BY <1>7, <1>8, ConcatProperties
<1>10. n + 1 + (Len(s) - n) = Len(s) + 1
  BY <1>1, <1>3
<1> QED BY <1>7, <1>8, <1>9, <1>10 DEF c

SortedSoFar(values) ==
    CHOOSE sorted : sorted = [k \in 0..Len(values) |->
        IF k = 0 THEN <<>> ELSE Insert(sorted[k - 1], values[k])]

LEMMA SortedIs ==
    ASSUME NEW V, NEW values \in Seq(V)
    PROVE  Sorted(values) \in Seq(V) /\ Len(Sorted(values)) = Len(values)
<1> DEFINE F == [k \in 1..Len(values) |-> [a \in Seq(V) |-> Insert(a, values[k])]]
           Recursive(f) == f = [k \in 0..Len(values) |->
               IF k = 0 THEN <<>> ELSE Insert(f[k - 1], values[k])]
           sorted == SortedSoFar(values)
<1>1. Len(values) \in Nat /\ \A k \in 1..Len(values) : values[k] \in V
  OBVIOUS
<1>2. F \in StepFunctions(Seq(V), Len(values))
  BY <1>1, InsertIs DEF StepFunctions
<1>3. \E f : Recursion(f, Seq(V), <<>>, F, Len(values))
  <2>1. <<>> \in Seq(V)
    OBVIOUS
  <2> HIDE DEF F
  <2> QED BY <1>1, <1>2, <2>1, RecursionExists
<1>4. PICK f \in [0..Len(values) -> Seq(V)] :
         f[0] = <<>> /\ \A k \in 1..Len(values) : f[k] = F[k][f[k - 1]]
  BY <1>3 DEF Recursion
<1>5. \A k \in 1..Len(values) : f[k] = Insert(f[k - 1], values[k])
  <2> SUFFICES ASSUME NEW k \in 1..Len(values) PROVE f[k] = Insert(f[k - 1], values[k])
    OBVIOUS
  <2>0. k - 1 \in 0..Len(values)
    BY <1>1
  <2>1. f[k - 1] \in Seq(V)
    BY <2>0
  <2>2. F[k] = [a \in Seq(V) |-> Insert(a, values[k])]
    OBVIOUS
  <2> HIDE DEF F
  <2> QED BY <1>4, <2>1, <2>2
<1> HIDE DEF F
<1>6. Recursive(f)
  <2>1. \A k \in 0..Len(values) : f[k] = IF k = 0 THEN <<>> ELSE Insert(f[k - 1], values[k])
    <3>1. ASSUME NEW k \in 0..Len(values), k # 0 PROVE k \in 1..Len(values)
      BY <1>1, <3>1
    <3> QED BY <1>4, <1>5, <3>1
  <2>2. f = [k \in 0..Len(values) |-> f[k]]
    OBVIOUS
  <2> QED BY <2>1, <2>2
<1>7. Recursive(sorted)
  BY <1>6 DEF SortedSoFar
<1>8. sorted[0] = <<>> /\ \A k \in 1..Len(values) : sorted[k] = Insert(sorted[k - 1], values[k])
  <2> HIDE DEF sorted
  <2>1. \A k \in 0..Len(values) : sorted[k] = IF k = 0 THEN <<>> ELSE Insert(sorted[k - 1], values[k])
    BY <1>7
  <2>2. 0 \in 0..Len(values) /\ \A k \in 1..Len(values) : k \in 0..Len(values) /\ k # 0
    BY <1>1
  <2> QED BY <2>1, <2>2
<1>9. \A k \in 0..Len(values) : sorted[k] = f[k]
  <2> HIDE DEF sorted
  <2>1. sorted[0] = f[0]
    BY <1>4, <1>8
  <2>2. \A k \in 1..Len(values) : sorted[k - 1] = f[k - 1] => sorted[k] = f[k]
    BY <1>5, <1>8
  <2>3. Len(values) \in Nat
    BY <1>1
  <2> QED BY <2>1, <2>2, <2>3, Agreement
<1>10. \A k \in 0..Len(values) : Len(f[k]) = k
  <2> DEFINE R == {k \in 0..Len(values) : Len(f[k]) = k}
  <2>1. 0 \in R
    BY <1>1, <1>4
  <2>2. ASSUME NEW k \in 1..Len(values), k - 1 \in R PROVE k \in R
    <3>1. /\ k - 1 \in 0..Len(values) /\ Len(f[k - 1]) = k - 1
          /\ values[k] \in V /\ k \in 0..Len(values) /\ k - 1 + 1 = k
      BY <1>1, <2>2
    <3>2. f[k - 1] \in Seq(V) /\ f[k] = Insert(f[k - 1], values[k])
      BY <1>4, <1>5, <3>1
    <3>3. Len(Insert(f[k - 1], values[k])) = Len(f[k - 1]) + 1
      BY <3>1, <3>2, InsertIs
    <3>4. Len(f[k]) = k
      BY <3>1, <3>2, <3>3
    <3> QED BY <3>1, <3>4
  <2> HIDE DEF R
  <2>3. \A k \in 0..Len(values) : k \in R
    BY <1>1, <2>1, <2>2, BoundedInduction
  <2> QED BY <2>3 DEF R
<1>11. Sorted(values) = sorted[Len(values)]
  BY DEF Sorted, SortedSoFar
<1>12. Len(values) \in 0..Len(values)
  BY <1>1
<1> HIDE DEF sorted
<1> QED BY <1>9, <1>10, <1>11, <1>12
-----------------------------------------------------------------------------
(* The baseline. *)

Artifacts == [origin : {"main", "fork"}, duration : Nat, readable : BOOLEAN, expired : BOOLEAN]
OfMain == {a \in Artifacts : a.origin = "main" /\ ~a.expired}
Readables == {a \in Artifacts : a.readable}

LEMMA MinIsCapped == ASSUME NEW m \in Nat, NEW n \in Nat PROVE Min({m, n}) = Capped(m, n)
BY DEF Min, Capped

LEMMA KeepChosen ==
    ASSUME NEW T, NEW s \in Seq(T), NEW S, NEW R,
           \A i \in 1..Len(s) : (s[i] \in S) = (s[i] \in R)
    PROVE  Keep(s, S) = Keep(s, R)
BY KeepAlike DEF Alike

\* What is tried are main's latest runs, and what is read of them those that count.
LEMMA TriedAre ==
    ASSUME artifacts \in Seq(Artifacts)
    PROVE  Tried(artifacts) = Recent /\ Recent \in Seq(Artifacts)
<1>1. \A i \in 1..Len(artifacts) : artifacts[i] \in Artifacts /\ artifacts[i] \in ToSet(artifacts)
  BY DEF ToSet
<1>2. Keep(artifacts, {a \in ToSet(artifacts) : IsMainArtifact(a)}) = Keep(artifacts, OfMain)
  <2>1. \A i \in 1..Len(artifacts) :
           (artifacts[i] \in {a \in ToSet(artifacts) : IsMainArtifact(a)}) = (artifacts[i] \in OfMain)
    BY <1>1 DEF OfMain, IsMainArtifact
  <2> QED BY <2>1, KeepChosen
<1>3. MainRuns = Keep(artifacts, OfMain)
  <2>1. \A i \in 1..Len(artifacts) :
           (artifacts[i] \in {a \in ToSet(artifacts) : a.origin = "main" /\ ~a.expired})
           = (artifacts[i] \in OfMain)
    BY <1>1 DEF OfMain
  <2> QED BY <2>1, KeepChosen DEF MainRuns
<1>4. MainRuns \in Seq(Artifacts)
  BY <1>3, KeepType
<1>5. Min({Len(MainRuns), 2 * Count}) \in 0..Len(MainRuns)
  <2>1. Len(MainRuns) \in Nat /\ 2 * Count \in Nat
    BY <1>4, GateAssumption
  <2> QED BY <2>1, MinIsCapped DEF Capped
<1>6. Recent \in Seq(Artifacts)
  BY <1>4, <1>5, FirstOf DEF Recent
<1> QED BY <1>2, <1>3, <1>6 DEF Tried, Recent

LEMMA BaselineIs ==
    ASSUME artifacts \in Seq(Artifacts)
    PROVE  LET b == LoadBaseline(artifacts, TRUE) IN
           /\ b \in Seq(Nat) /\ Len(b) = Cardinality(Counted)
           /\ IsFiniteSet(Counted) /\ Len(b) <= Count
           /\ \A i \in 1..Len(b) : \E k \in Counted : b[i] = Recent[k].duration
           /\ \A k \in Counted : k \in 1..Len(Recent) /\ Recent[k].duration \in Nat
<1> DEFINE b == LoadBaseline(artifacts, TRUE)
           records == Keep(Recent, Readables)
           n == Capped(Len(records), Count)
<1>1. Tried(artifacts) = Recent /\ Recent \in Seq(Artifacts)
  BY TriedAre
<1>2. \A i \in 1..Len(Recent) : Recent[i] \in Artifacts /\ Recent[i] \in ToSet(Recent)
  BY <1>1 DEF ToSet
<1>3. Keep(Recent, {a \in ToSet(Recent) : a.readable}) = records
  <2>1. \A i \in 1..Len(Recent) :
           (Recent[i] \in {a \in ToSet(Recent) : a.readable}) = (Recent[i] \in Readables)
    BY <1>2 DEF Readables
  <2> QED BY <1>1, <2>1, KeepChosen
<1>4. records \in Seq(Artifacts) /\ Len(records) \in Nat
  BY <1>1, KeepType
<1>5. Count \in Nat
  BY GateAssumption
<1>6. Placing(Recent, Readables, Count)
  BY <1>1, <1>5, PlacingAlways
<1>7. FirstPlaces(Recent, Readables, Count) = Counted
  <2>1. \A k \in 1..Len(Recent) : Recent[k].readable = (Recent[k] \in Readables)
    BY <1>2 DEF Readables, Artifacts
  <2>2. \A k \in 1..Len(Recent) :
           {j \in 1..k : Recent[j].readable} = {j \in 1..k : Recent[j] \in Readables}
    <3> SUFFICES ASSUME NEW k \in 1..Len(Recent), NEW j \in 1..k
                 PROVE  Recent[j].readable = (Recent[j] \in Readables)
      OBVIOUS
    <3>1. j \in 1..Len(Recent)
      BY <1>1
    <3> QED BY <2>1, <3>1
  <2>3. DOMAIN Recent = 1..Len(Recent)
    BY <1>1
  <2> QED BY <2>1, <2>2, <2>3 DEF FirstPlaces, Places, Rank, Counted
<1>8. b = [i \in 1..n |-> records[i].duration]
  <2>1. Min({Len(records), Count}) = n
    BY <1>4, <1>5, MinIsCapped
  <2> HIDE DEF n, records
  <2> QED BY <1>1, <1>3, <2>1 DEF LoadBaseline
<1>9. n \in 0..Len(records) /\ n <= Count
  BY <1>4, <1>5 DEF Capped
<1> HIDE DEF n, records
<1>10. \A i \in 1..n : records[i] \in Artifacts /\ records[i].duration \in Nat
  <2> SUFFICES ASSUME NEW i \in 1..n PROVE records[i] \in Artifacts /\ records[i].duration \in Nat
    OBVIOUS
  <2>1. i \in 1..Len(records)
    BY <1>4, <1>9
  <2>2. records[i] \in Artifacts
    BY <1>4, <2>1
  <2> QED BY <2>2 DEF Artifacts
<1>11. b \in Seq(Nat) /\ Len(b) = n
  <2>1. n \in Nat
    BY <1>4, <1>9
  <2> HIDE DEF b
  <2>2. b \in [1..n -> Nat]
    BY <1>8, <1>10
  <2>3. b \in Seq(Nat)
    BY <2>1, <2>2, FunctionIsSeq
  <2> QED BY <2>1, <2>2, <2>3
<1>12. \A i \in 1..n : \E k \in Counted : b[i] = Recent[k].duration
  BY <1>6, <1>7, <1>8 DEF Placing, records, n
<1>13. Cardinality(Counted) = n /\ IsFiniteSet(Counted)
  BY <1>6, <1>7 DEF Placing, records, n
<1>14. \A k \in Counted : k \in 1..Len(Recent) /\ Recent[k].duration \in Nat
  BY <1>1, <1>2 DEF Counted, Artifacts
<1> HIDE DEF b
<1> QED BY <1>9, <1>11, <1>12, <1>13, <1>14 DEF b
-----------------------------------------------------------------------------
(* The decision. *)

\* Whatever the order, the median is a value, or halfway between two.
LEMMA MedianIsOfValues ==
    ASSUME NEW V, V \subseteq Nat, NEW values \in Seq(V), Len(values) > 0
    PROVE  \E x, y \in V : TwiceMedian(values) = x + y
<1> DEFINE n == Len(values)
           sorted == Sorted(values)
<1>1. sorted \in Seq(V) /\ Len(sorted) = n /\ n \in Nat \ {0}
  BY SortedIs
<1>2. TwiceMedian(values) = IF n % 2 = 1 THEN 2 * sorted[(n + 1) \div 2]
                            ELSE sorted[n \div 2] + sorted[n \div 2 + 1]
  BY DEF TwiceMedian
<1> HIDE DEF n, sorted
<1>3. CASE n % 2 = 1
  <2>1. (n + 1) \div 2 \in 1..n
    BY <1>1, <1>3
  <2>2. sorted[(n + 1) \div 2] \in V
    BY <1>1, <2>1
  <2>3. ASSUME NEW x \in Nat PROVE 2 * x = x + x
    OBVIOUS
  <2> QED BY <1>2, <1>3, <2>2, <2>3
<1>4. CASE n % 2 # 1
  <2>1. n \div 2 \in 1..n /\ n \div 2 + 1 \in 1..n
    BY <1>1, <1>4
  <2>2. sorted[n \div 2] \in V /\ sorted[n \div 2 + 1] \in V
    BY <1>1, <2>1
  <2> QED BY <1>2, <1>4, <2>2
<1> QED BY <1>3, <1>4

LEMMA HalvesAreLonger ==
    ASSUME NEW d \in Nat, NEW x \in Nat, NEW y \in Nat
    PROVE  LET longer == 200 * d > (x + y) * (100 + Tolerance) /\ 2 * d > x + y + 2 * MinDelta
           IN  /\ Longer(d, x) /\ Longer(d, y) => longer
               /\ ~Longer(d, x) /\ ~Longer(d, y) => ~longer
<1> DEFINE t == 100 + Tolerance
           a == x * t
           b == y * t
<1>1. t \in Nat /\ a \in Nat /\ b \in Nat /\ MinDelta \in Nat
  BY GateAssumption
<1>2. (x + y) * t = a + b
  BY <1>1
<1>3. /\ x <= y => a <= b
      /\ y <= x => b <= a
  BY <1>1
<1>4. /\ Longer(d, x) <=> 100 * d > a /\ d > x + MinDelta
      /\ Longer(d, y) <=> 100 * d > b /\ d > y + MinDelta
  BY DEF Longer
<1> HIDE DEF t, a, b
<1>5. Longer(d, x) /\ Longer(d, y) => 200 * d > a + b /\ 2 * d > x + y + 2 * MinDelta
  BY <1>1, <1>4
<1>6. ~Longer(d, x) /\ ~Longer(d, y) => ~(200 * d > a + b /\ 2 * d > x + y + 2 * MinDelta)
  BY <1>1, <1>3, <1>4
<1> QED BY <1>2, <1>5, <1>6 DEF t

\* Against a full baseline of which it is longer than every record, or than none.
LEMMA RegressedIs ==
    ASSUME NEW d \in Nat, NEW b \in Seq(Nat), Len(b) = Count
    PROVE  /\ (\A i \in 1..Len(b) : Longer(d, b[i])) => Regressed(d, b)
           /\ (\A i \in 1..Len(b) : ~Longer(d, b[i])) => ~Regressed(d, b)
<1> DEFINE V == {b[i] : i \in 1..Len(b)}
<1>1. V \subseteq Nat /\ b \in Seq(V) /\ Len(b) > 0
  <2>1. b \in [1..Len(b) -> V] /\ Len(b) \in Nat
    OBVIOUS
  <2>2. V \subseteq Nat
    OBVIOUS
  <2> HIDE DEF V
  <2>3. b \in Seq(V)
    BY <2>1, FunctionIsSeq
  <2> QED BY <2>2, <2>3, GateAssumption
<1>2. PICK x \in V, y \in V : TwiceMedian(b) = x + y
  <2> HIDE DEF V
  <2> QED BY <1>1, MedianIsOfValues
<1>3. x \in Nat /\ y \in Nat
  BY <1>1, <1>2
<1>4. Regressed(d, b) <=> /\ 200 * d > (x + y) * (100 + Tolerance)
                          /\ 2 * d > x + y + 2 * MinDelta
  BY <1>2 DEF Regressed
<1>5. /\ Longer(d, x) /\ Longer(d, y) => Regressed(d, b)
      /\ ~Longer(d, x) /\ ~Longer(d, y) => ~Regressed(d, b)
  BY <1>3, <1>4, HalvesAreLonger
<1>6. \E i, j \in 1..Len(b) : x = b[i] /\ y = b[j]
  BY <1>2
<1> QED BY <1>5, <1>6

\* An answer is about the artefacts and labels there are.
IsOfNow(a) ==
    /\ a.duration \in Durations /\ a.listed \in BOOLEAN /\ a.asked \in BOOLEAN
    /\ \/ a.status = "skipped" /\ a.listed = FALSE /\ a.asked = FALSE
       \/ a.status = Decide2(a.duration, LoadBaseline(artifacts, a.listed), Accepted(a.asked))

GateInv ==
    /\ artifacts \in Seq(Artifacts) /\ labelled \in BOOLEAN /\ payload \in BOOLEAN
    /\ \A i \in DOMAIN answer : IsOfNow(answer[i])

LEMMA GateStarts == GateInit => GateInv
<1>1. \A i \in DOMAIN <<>> : FALSE
  OBVIOUS
<1>2. <<>> \in Seq(Artifacts)
  OBVIOUS
<1> QED BY <1>1, <1>2 DEF GateInit, GateInv

LEMMA PutFirst ==
    ASSUME NEW T, NEW s \in Seq(T), NEW x \in T
    PROVE  <<x>> \o s \in Seq(T)
<1>1. <<x>> \in Seq(T)
  OBVIOUS
<1> QED BY <1>1, ConcatProperties

LEMMA GateStep == GateInv /\ [GateNext]_gateVars => GateInv'
<1> SUFFICES ASSUME GateInv, [GateNext]_gateVars PROVE GateInv'
  OBVIOUS
<1>0. answer' = <<>> => \A i \in DOMAIN answer' : FALSE
  OBVIOUS
<1>1. ASSUME NEW d \in MainDurations, RecordMain(d) PROVE GateInv'
  <2>1. /\ Artifact("main", d, TRUE) \in Artifacts /\ Artifact("main", 0, FALSE) \in Artifacts
    BY GateAssumption DEF Artifact, Artifacts
  <2>2. artifacts' \in Seq(Artifacts)
    BY <1>1, <2>1, PutFirst DEF RecordMain, GateInv
  <2> QED BY <1>0, <1>1, <2>2 DEF RecordMain, GateInv
<1>2. ASSUME NEW d \in ForkDurations, RecordFork(d) PROVE GateInv'
  <2>1. Artifact("fork", d, TRUE) \in Artifacts
    BY GateAssumption DEF Artifact, Artifacts
  <2>2. artifacts' \in Seq(Artifacts)
    BY <1>2, <2>1, PutFirst DEF RecordFork, GateInv
  <2> QED BY <1>0, <1>2, <2>2 DEF RecordFork, GateInv
<1>3. CASE Expires
  <2>1. PICK i \in DOMAIN artifacts : artifacts' = [artifacts EXCEPT ![i].expired = TRUE]
    BY <1>3 DEF Expires
  <2>2. artifacts[i] \in Artifacts
    BY DEF GateInv
  <2>3. [artifacts[i] EXCEPT !.expired = TRUE] \in Artifacts
    BY <2>2 DEF Artifacts
  <2>4. artifacts' = [artifacts EXCEPT ![i] = [artifacts[i] EXCEPT !.expired = TRUE]]
    BY <2>1
  <2>5. artifacts' \in Seq(Artifacts)
    BY <2>3, <2>4 DEF GateInv
  <2> QED BY <1>0, <1>3, <2>5 DEF Expires, GateInv
<1>4. CASE SetLabel
  BY <1>0, <1>4 DEF SetLabel, GateInv
<1>5. CASE Push
  BY <1>0, <1>5 DEF Push, GateInv
<1>6. ASSUME NEW d \in Durations, NEW listed \in BOOLEAN, NEW asked \in BOOLEAN,
             Compare(d, listed, asked)
      PROVE  GateInv'
  <2>1. PICK a : /\ answer' = <<a>>
                 /\ a.duration = d /\ a.listed = listed /\ a.asked = asked
                 /\ a.status = Decide2(d, LoadBaseline(artifacts, listed), Accepted(asked))
    BY <1>6 DEF Compare
  <2>2. UNCHANGED <<artifacts, labelled, payload>>
    BY <1>6 DEF Compare
  <2>3. IsOfNow(a)'
    BY <2>1, <2>2 DEF IsOfNow, Accepted
  <2>4. \A i \in DOMAIN answer' : answer'[i] = a
    BY <2>1
  <2> QED BY <2>2, <2>3, <2>4 DEF GateInv
<1>7. ASSUME NEW d \in Durations, Skip(d) PROVE GateInv'
  <2>1. PICK a : /\ answer' = <<a>> /\ a.status = "skipped"
                 /\ a.duration = d /\ a.listed = FALSE /\ a.asked = FALSE
    BY <1>7 DEF Skip
  <2>2. UNCHANGED <<artifacts, labelled, payload>>
    BY <1>7 DEF Skip
  <2>3. IsOfNow(a)'
    BY <2>1 DEF IsOfNow
  <2>4. \A i \in DOMAIN answer' : answer'[i] = a
    BY <2>1
  <2> QED BY <2>2, <2>3, <2>4 DEF GateInv
<1>8. CASE UNCHANGED gateVars
  BY <1>8 DEF gateVars, GateInv, IsOfNow, Accepted
<1> QED BY <1>1, <1>2, <1>3, <1>4, <1>5, <1>6, <1>7, <1>8 DEF GateNext

LEMMA AnswersAreRight == GateInv => GateJudgesByMain
<1> SUFFICES ASSUME GateInv PROVE GateJudgesByMain
  OBVIOUS
<1>1. /\ LoadBaseline(artifacts, TRUE) \in Seq(Nat)
      /\ Len(LoadBaseline(artifacts, TRUE)) = Cardinality(Counted)
      /\ Len(LoadBaseline(artifacts, TRUE)) <= Count
      /\ \A i \in 1..Len(LoadBaseline(artifacts, TRUE)) :
            \E k \in Counted : LoadBaseline(artifacts, TRUE)[i] = Recent[k].duration
  BY BaselineIs DEF GateInv
<1> DEFINE b == LoadBaseline(artifacts, TRUE)
<1>2. ASSUME NEW i \in DOMAIN answer
      PROVE  LET a == answer[i] IN
             /\ a.duration \in Nat /\ a.listed \in BOOLEAN /\ a.asked \in BOOLEAN
             /\ \/ a.status = "skipped" /\ a.listed = FALSE /\ a.asked = FALSE
                \/ a.status = Decide2(a.duration, IF a.listed THEN b ELSE <<>>, Accepted(a.asked))
  <2>1. ~answer[i].listed => LoadBaseline(artifacts, answer[i].listed) = <<>>
    BY DEF LoadBaseline
  <2>2. answer[i].listed = TRUE \/ answer[i].listed = FALSE
    BY DEF GateInv, IsOfNow
  <2> QED BY <2>1, <2>2, GateAssumption DEF GateInv, IsOfNow
<1> HIDE DEF b
<1>3. \A d : ~Regressed(d, <<>>)
  BY GateAssumption DEF Regressed
<1>4. RegressionIsStopped
  <2> SUFFICES ASSUME NEW i \in DOMAIN answer
               PROVE  LET a == answer[i] IN
                      /\ a.duration > Ceiling => a.status \in {"fail", "skipped"}
                      /\ (a.listed /\ Cardinality(Counted) = Count
                              /\ \A k \in Counted : Longer(a.duration, Recent[k].duration))
                         => a.status \in {"warn", "fail"}
    BY DEF RegressionIsStopped
  <2> DEFINE a == answer[i]
  <2>1. a.duration > Ceiling => a.status \in {"fail", "skipped"}
    BY <1>2 DEF Decide2, OverCeiling
  <2>2. ASSUME a.listed, Cardinality(Counted) = Count,
               \A k \in Counted : Longer(a.duration, Recent[k].duration)
        PROVE  a.status \in {"warn", "fail"}
    <3>1. Regressed(a.duration, b)
      BY <1>1, <1>2, <2>2, RegressedIs DEF b
    <3> QED BY <1>2, <2>2, <3>1 DEF Decide2
  <2> QED BY <2>1, <2>2
<1>5. OrdinaryRunPasses
  <2> SUFFICES ASSUME NEW i \in DOMAIN answer,
                      answer[i].duration <= Ceiling,
                      \/ ~answer[i].listed \/ Cardinality(Counted) < Count
                      \/ \A k \in Counted : ~Longer(answer[i].duration, Recent[k].duration)
               PROVE  answer[i].status \in {"pass", "skipped"}
    BY DEF OrdinaryRunPasses
  <2>1. ~Regressed(answer[i].duration, IF answer[i].listed THEN b ELSE <<>>)
    <3>1. CASE ~answer[i].listed
      BY <1>3, <3>1
    <3>2. CASE answer[i].listed /\ Len(b) # Count
      BY <3>2 DEF Regressed
    <3>3. CASE answer[i].listed /\ Len(b) = Count
      <4>1. \A k \in Counted : ~Longer(answer[i].duration, Recent[k].duration)
        <5>1. Cardinality(Counted) = Count /\ Count \in Nat
          BY <1>1, <3>3, GateAssumption DEF b
        <5>2. ~(Cardinality(Counted) < Count)
          BY <5>1
        <5> QED BY <3>3, <5>2
      <4>2. ~Regressed(answer[i].duration, b)
        BY <1>1, <1>2, <3>3, <4>1, RegressedIs DEF b
      <4> QED BY <3>3, <4>2
    <3> QED BY <3>1, <3>2, <3>3
  <2>2. ~OverCeiling(answer[i].duration)
    <3>1. answer[i].duration \in Nat /\ Ceiling \in Nat
      BY <1>2, GateAssumption
    <3> QED BY <3>1 DEF OverCeiling
  <2> QED BY <1>2, <2>1, <2>2 DEF Decide2
<1>6. LabelIsReadLive
  <2> SUFFICES ASSUME NEW i \in DOMAIN answer, answer[i].asked
               PROVE  /\ answer[i].status = "warn" => labelled
                      /\ answer[i].status = "fail" /\ labelled => answer[i].duration > Ceiling
    BY DEF LabelIsReadLive
  <2> QED BY <1>2 DEF Decide2, Accepted, OverCeiling
<1> QED BY <1>4, <1>5, <1>6 DEF GateJudgesByMain

(* The gate stops what main's latest records show to be a regression and     *)
(* nothing else, forks, expiry and unreadable records aside, and the label   *)
(* that lets one pass is the one of now (ci_timing_gate.py:134-176).         *)
THEOREM GateIsRight == GateSpec => []GateJudgesByMain
<1> QED BY GateStarts, GateStep, AnswersAreRight, PTL DEF GateSpec
-----------------------------------------------------------------------------
(* AbWorkload: the sums of a scorecard. *)

PassRecords == [pass : Passes \cup {"other"}, turn : 0..Turns, handled : Modes, ok : BOOLEAN, mode : Modes]
PairSet == [base : PassRecords, opt : PassRecords]
Sides == {"base", "opt"}

LEMMA TokensAreSome ==
    ASSUME NEW x \in PairSet, NEW side \in Sides
    PROVE  Tokens(x[side]) \in Nat \ {0}
<1>1. x[side] \in PassRecords
  BY DEF PairSet, Sides
<1> QED BY <1>1, AbAssumption DEF Tokens, PassRecords

TokensNext(sum, x, side) == sum + Tokens(x[side])

TokensSoFar(turns, side) ==
    CHOOSE sum : sum = [n \in 0..Len(turns) |->
        IF n = 0 THEN 0 ELSE TokensNext(sum[n - 1], turns[n], side)]

LEMMA TokensSoFarLast ==
    ASSUME NEW turns, NEW side
    PROVE  TokensOf(turns, side) = TokensSoFar(turns, side)[Len(turns)]
BY DEF TokensOf, TokensSoFar, TokensNext

LEMMA TokensSoFarDef ==
    ASSUME NEW turns \in Seq(PairSet), NEW side \in Sides
    PROVE  /\ TokensSoFar(turns, side) \in [0..Len(turns) -> Nat]
           /\ TokensSoFar(turns, side)[0] = 0
           /\ \A n \in 1..Len(turns) :
                 TokensSoFar(turns, side)[n] = TokensNext(TokensSoFar(turns, side)[n - 1], turns[n], side)
<1> DEFINE F == [n \in 1..Len(turns) |-> [m \in Nat |-> TokensNext(m, turns[n], side)]]
           sum == TokensSoFar(turns, side)
<1>1. Len(turns) \in Nat /\ \A n \in 1..Len(turns) : turns[n] \in PairSet
  OBVIOUS
<1>2. \A m \in Nat, n \in 1..Len(turns) : TokensNext(m, turns[n], side) \in Nat
  BY <1>1, TokensAreSome DEF TokensNext
<1>3. F \in StepFunctions(Nat, Len(turns))
  BY <1>1, <1>2 DEF StepFunctions
<1>4. PICK f : Recursion(f, Nat, 0, F, Len(turns))
  <2> HIDE DEF F
  <2>1. Len(turns) \in Nat /\ 0 \in Nat
    OBVIOUS
  <2> QED BY <1>3, <2>1, RecursionExists
<1>5. f \in [0..Len(turns) -> Nat] /\ f[0] = 0
  BY <1>4 DEF Recursion
<1>6. \A n \in 1..Len(turns) : f[n] = TokensNext(f[n - 1], turns[n], side)
  <2>1. ASSUME NEW n \in 1..Len(turns) PROVE f[n] = TokensNext(f[n - 1], turns[n], side)
    <3>1. f[n] = F[n][f[n - 1]]
      <4> HIDE DEF F
      <4> QED BY <1>4 DEF Recursion
    <3>2. n - 1 \in 0..Len(turns)
      BY <1>1
    <3>3. f[n - 1] \in Nat
      BY <1>5, <3>2
    <3> QED BY <3>1, <3>3
  <2> QED BY <2>1
<1>7. \A n \in 0..Len(turns) : n = 0 \/ n \in 1..Len(turns)
  BY <1>1
<1>8. f = [n \in 0..Len(turns) |-> IF n = 0 THEN 0 ELSE TokensNext(f[n - 1], turns[n], side)]
  <2>1. f = [n \in 0..Len(turns) |-> f[n]]
    BY <1>5
  <2>2. \A n \in 0..Len(turns) : f[n] = IF n = 0 THEN 0 ELSE TokensNext(f[n - 1], turns[n], side)
    BY <1>5, <1>6, <1>7
  <2> QED BY <2>1, <2>2
<1>9. sum = [n \in 0..Len(turns) |-> IF n = 0 THEN 0 ELSE TokensNext(sum[n - 1], turns[n], side)]
  BY <1>8 DEF TokensSoFar
<1>10. /\ DOMAIN sum = 0..Len(turns) /\ sum = [n \in 0..Len(turns) |-> sum[n]]
       /\ sum[0] = 0 /\ \A n \in 1..Len(turns) : sum[n] = TokensNext(sum[n - 1], turns[n], side)
  <2>1. \A n \in 1..Len(turns) : n \in 0..Len(turns) /\ n # 0
    BY <1>1
  <2>2. 0 \in 0..Len(turns)
    BY <1>1
  <2> HIDE DEF sum
  <2> QED BY <1>9, <2>1, <2>2
<1>11. \A n \in 0..Len(turns) : sum[n] = f[n]
  <2>1. sum[0] = f[0] /\ \A n \in 1..Len(turns) : sum[n - 1] = f[n - 1] => sum[n] = f[n]
    <3> HIDE DEF sum
    <3> QED BY <1>5, <1>6, <1>10
  <2> HIDE DEF sum
  <2> QED BY <1>1, <2>1, Agreement
<1>12. sum \in [0..Len(turns) -> Nat]
  <2> HIDE DEF sum
  <2> QED BY <1>5, <1>10, <1>11
<1> QED BY <1>10, <1>12

LEMMA TokensAppend ==
    ASSUME NEW turns \in Seq(PairSet), NEW side \in Sides, NEW x \in PairSet
    PROVE  /\ TokensOf(Append(turns, x), side) = TokensOf(turns, side) + Tokens(x[side])
           /\ TokensOf(turns, side) \in Nat
<1> DEFINE t == Append(turns, x)
           k == TokensSoFar(turns, side)
           l == TokensSoFar(t, side)
<1>1. /\ t \in Seq(PairSet) /\ Len(t) = Len(turns) + 1 /\ Len(turns) \in Nat
      /\ \A n \in 1..Len(turns) : t[n] = turns[n]
      /\ t[Len(turns) + 1] = x
  OBVIOUS
<1> HIDE DEF t
<1>2. /\ k \in [0..Len(turns) -> Nat] /\ k[0] = l[0]
      /\ \A n \in 1..Len(turns) : k[n] = TokensNext(k[n - 1], turns[n], side)
      /\ \A n \in 1..Len(t) : l[n] = TokensNext(l[n - 1], t[n], side)
  BY <1>1, TokensSoFarDef
<1> HIDE DEF k, l
<1>3. k[Len(turns)] = l[Len(turns)]
  <2>1. \A n \in 1..Len(turns) : k[n - 1] = l[n - 1] => k[n] = l[n]
    BY <1>1, <1>2
  <2>2. \A n \in 0..Len(turns) : k[n] = l[n]
    <3>1. Len(turns) \in Nat /\ k[0] = l[0]
      BY <1>1, <1>2
    <3> QED BY <2>1, <3>1, Agreement
  <2> QED BY <1>1, <2>2
<1>4. l[Len(t)] = k[Len(turns)] + Tokens(x[side])
  BY <1>1, <1>2, <1>3 DEF TokensNext
<1>5. TokensOf(turns, side) = k[Len(turns)] /\ TokensOf(t, side) = l[Len(t)]
  BY TokensSoFarLast DEF k, l
<1> QED BY <1>1, <1>2, <1>4, <1>5 DEF t

LEMMA TokensNone ==
    ASSUME NEW side \in Sides
    PROVE  TokensOf(<<>>, side) = 0
<1>1. <<>> \in Seq(PairSet) /\ Len(<<>>) = 0
  OBVIOUS
<1> QED BY <1>1, TokensSoFarDef, TokensSoFarLast

\* What two sequences of turns cost together, and that each turn costs something.
LEMMA TokensConcat ==
    ASSUME NEW s \in Seq(PairSet), NEW turns \in Seq(PairSet), NEW side \in Sides
    PROVE  /\ TokensOf(s \o turns, side) = TokensOf(s, side) + TokensOf(turns, side)
           /\ TokensOf(turns, side) \in Nat
           /\ Len(turns) <= TokensOf(turns, side)
<1> DEFINE Good(t) == /\ TokensOf(s \o t, side) = TokensOf(s, side) + TokensOf(t, side)
                      /\ TokensOf(t, side) \in Nat
                      /\ Len(t) <= TokensOf(t, side)
           R == {t \in Seq(PairSet) : Good(t)}
<1>0. TokensOf(s, side) \in Nat
  <2>1. PICK x \in PairSet \cup {0} : s # <<>> => x \in PairSet
    <3>1. s # <<>> => s[1] \in PairSet
      OBVIOUS
    <3> QED BY <3>1
  <2>2. CASE s = <<>>
    BY <2>2, TokensNone
  <2>3. CASE s # <<>>
    BY <2>1, <2>3, TokensAppend
  <2> QED BY <2>2, <2>3
<1>1. <<>> \in R
  <2>1. s \o <<>> = s /\ Len(<<>>) = 0 /\ <<>> \in Seq(PairSet)
    OBVIOUS
  <2>2. Good(<<>>)
    BY <1>0, <2>1, TokensNone
  <2> QED BY <2>1, <2>2
<1>2. ASSUME NEW t \in Seq(PairSet), NEW x \in PairSet, t \in R PROVE Append(t, x) \in R
  <2>1. s \o Append(t, x) = Append(s \o t, x) /\ s \o t \in Seq(PairSet) /\ Append(t, x) \in Seq(PairSet)
    OBVIOUS
  <2>2. /\ TokensOf(Append(t, x), side) = TokensOf(t, side) + Tokens(x[side])
        /\ TokensOf(Append(s \o t, x), side) = TokensOf(s \o t, side) + Tokens(x[side])
    BY <2>1, TokensAppend
  <2>3. Tokens(x[side]) \in Nat \ {0}
    BY TokensAreSome
  <2>4. Len(Append(t, x)) = Len(t) + 1 /\ Len(t) \in Nat
    OBVIOUS
  <2>5. Good(t)
    BY <1>2
  <2> DEFINE a == TokensOf(s, side)
             b == TokensOf(t, side)
             c == Tokens(x[side])
  <2>6. Good(Append(t, x))
    BY <1>0, <2>1, <2>2, <2>3, <2>4, <2>5
  <2> QED BY <2>1, <2>6
<1> HIDE DEF R
<1>3. Seq(PairSet) \subseteq R
  BY <1>1, <1>2, SequenceInduction
<1> QED BY <1>3 DEF R
\* Every round adds the same turns.
AfterRounds(pairs) ==
    CHOOSE after : after = [round \in 0..Rounds |->
        IF round = 0 THEN <<>> ELSE after[round - 1] \o pairs]

LEMMA AfterRoundsDef ==
    ASSUME NEW pairs \in Seq(PairSet)
    PROVE  /\ AfterRounds(pairs) \in [0..Rounds -> Seq(PairSet)]
           /\ AfterRounds(pairs)[0] = <<>>
           /\ \A n \in 1..Rounds : AfterRounds(pairs)[n] = AfterRounds(pairs)[n - 1] \o pairs
           /\ Evaluated(pairs) = AfterRounds(pairs)[Rounds]
<1> DEFINE F == [n \in 1..Rounds |-> [a \in Seq(PairSet) |-> a \o pairs]]
           after == AfterRounds(pairs)
<1>1. Rounds \in Nat /\ Rounds > 0
  BY AbAssumption
<1>2. \A a \in Seq(PairSet) : a \o pairs \in Seq(PairSet)
  BY ConcatProperties
<1>3. F \in StepFunctions(Seq(PairSet), Rounds)
  BY <1>1, <1>2 DEF StepFunctions
<1>4. PICK f : Recursion(f, Seq(PairSet), <<>>, F, Rounds)
  <2>1. <<>> \in Seq(PairSet)
    OBVIOUS
  <2> HIDE DEF F
  <2> QED BY <1>1, <1>3, <2>1, RecursionExists
<1>5. f \in [0..Rounds -> Seq(PairSet)] /\ f[0] = <<>>
  BY <1>4 DEF Recursion
<1>6. \A n \in 1..Rounds : f[n] = f[n - 1] \o pairs
  <2>1. ASSUME NEW n \in 1..Rounds PROVE f[n] = f[n - 1] \o pairs
    <3>1. f[n] = F[n][f[n - 1]]
      <4> HIDE DEF F
      <4> QED BY <1>4 DEF Recursion
    <3>2. n - 1 \in 0..Rounds
      BY <1>1
    <3>3. f[n - 1] \in Seq(PairSet)
      BY <1>5, <3>2
    <3> QED BY <3>1, <3>3
  <2> QED BY <2>1
<1>7. \A n \in 0..Rounds : n = 0 \/ n \in 1..Rounds
  BY <1>1
<1>8. f = [n \in 0..Rounds |-> IF n = 0 THEN <<>> ELSE f[n - 1] \o pairs]
  <2>1. f = [n \in 0..Rounds |-> f[n]]
    BY <1>5
  <2>2. \A n \in 0..Rounds : f[n] = IF n = 0 THEN <<>> ELSE f[n - 1] \o pairs
    BY <1>5, <1>6, <1>7
  <2> QED BY <2>1, <2>2
<1>9. after = [n \in 0..Rounds |-> IF n = 0 THEN <<>> ELSE after[n - 1] \o pairs]
  BY <1>8 DEF AfterRounds
<1>10. /\ DOMAIN after = 0..Rounds /\ after = [n \in 0..Rounds |-> after[n]]
       /\ after[0] = <<>> /\ \A n \in 1..Rounds : after[n] = after[n - 1] \o pairs
  <2>1. \A n \in 1..Rounds : n \in 0..Rounds /\ n # 0
    BY <1>1
  <2>2. 0 \in 0..Rounds
    BY <1>1
  <2> HIDE DEF after
  <2> QED BY <1>9, <2>1, <2>2
<1>11. \A n \in 0..Rounds : after[n] = f[n]
  <2>1. after[0] = f[0] /\ \A n \in 1..Rounds : after[n - 1] = f[n - 1] => after[n] = f[n]
    <3> HIDE DEF after
    <3> QED BY <1>5, <1>6, <1>10
  <2> HIDE DEF after, F
  <2>2. Rounds \in Nat
    BY <1>1
  <2> QED BY <2>1, <2>2, Agreement, SMTT(60)
<1>12. after \in [0..Rounds -> Seq(PairSet)]
  <2> HIDE DEF after
  <2> QED BY <1>5, <1>10, <1>11
<1>13. Evaluated(pairs) = after[Rounds]
  BY DEF Evaluated, AfterRounds
<1> QED BY <1>10, <1>12, <1>13

\* All rounds cost what one costs, as often; and they are made of the pairs.
LEMMA RoundsAre ==
    ASSUME NEW pairs \in Seq(PairSet)
    PROVE  /\ \A side \in Sides : TokensOf(Evaluated(pairs), side) = Rounds * TokensOf(pairs, side)
           /\ \A i \in DOMAIN Evaluated(pairs) : \E k \in DOMAIN pairs : Evaluated(pairs)[i] = pairs[k]
           /\ \A k \in DOMAIN pairs : \E i \in DOMAIN Evaluated(pairs) : Evaluated(pairs)[i] = pairs[k]
<1> DEFINE after == AfterRounds(pairs)
           Cost(n) == \A side \in Sides : TokensOf(after[n], side) = n * TokensOf(pairs, side)
           Made(n) == /\ \A i \in DOMAIN after[n] : \E k \in DOMAIN pairs : after[n][i] = pairs[k]
                      /\ n # 0 => \A k \in DOMAIN pairs : \E i \in DOMAIN after[n] : after[n][i] = pairs[k]
           R == {n \in 0..Rounds : Cost(n) /\ Made(n)}
<1>1. /\ after \in [0..Rounds -> Seq(PairSet)] /\ after[0] = <<>>
      /\ \A n \in 1..Rounds : after[n] = after[n - 1] \o pairs
      /\ Evaluated(pairs) = after[Rounds]
  BY AfterRoundsDef
<1>2. Rounds \in Nat /\ Rounds > 0
  BY AbAssumption
<1> HIDE DEF after
<1>3. \A side \in Sides : TokensOf(pairs, side) \in Nat
  BY TokensConcat
<1>4. 0 \in R
  <2>1. Cost(0)
    <3>1. \A side \in Sides : TokensOf(after[0], side) = 0
      BY <1>1, TokensNone
    <3>2. \A side \in Sides : 0 * TokensOf(pairs, side) = 0
      BY <1>3
    <3> QED BY <3>1, <3>2
  <2>2. Made(0)
    BY <1>1
  <2> QED BY <1>2, <2>1, <2>2
<1>5. ASSUME NEW n \in 1..Rounds, n - 1 \in R PROVE n \in R
  <2>0. n - 1 \in 0..Rounds /\ n \in Nat /\ n # 0
    BY <1>2
  <2>1. after[n] = after[n - 1] \o pairs /\ after[n - 1] \in Seq(PairSet) /\ n - 1 \in Nat
    <3>1. after[n] = after[n - 1] \o pairs
      BY <1>1
    <3>2. after[n - 1] \in Seq(PairSet)
      BY <1>1, <2>0
    <3>3. n - 1 \in Nat
      BY <2>0
    <3> QED BY <3>1, <3>2, <3>3
  <2>2. Cost(n)
    <3> SUFFICES ASSUME NEW side \in Sides
                 PROVE  TokensOf(after[n], side) = n * TokensOf(pairs, side)
      OBVIOUS
    <3>1. TokensOf(after[n], side) = TokensOf(after[n - 1], side) + TokensOf(pairs, side)
      BY <2>1, TokensConcat
    <3>2. TokensOf(after[n - 1], side) = (n - 1) * TokensOf(pairs, side)
      BY <1>5
    <3>3. ASSUME NEW c \in Nat PROVE (n - 1) * c + c = n * c
      BY <1>2
    <3> QED BY <1>3, <3>1, <3>2, <3>3
  <2>3. Made(n)
    <3> DEFINE a == after[n - 1]
    <3>1. /\ a \in Seq(PairSet) /\ after[n] = a \o pairs
          /\ \A i \in DOMAIN a : \E k \in DOMAIN pairs : a[i] = pairs[k]
      BY <1>5, <2>1
    <3> HIDE DEF a
    <3>2. /\ DOMAIN (a \o pairs) = 1..(Len(a) + Len(pairs))
          /\ \A i \in 1..Len(a) : (a \o pairs)[i] = a[i]
          /\ \A k \in 1..Len(pairs) : (a \o pairs)[Len(a) + k] = pairs[k]
          /\ Len(a) \in Nat /\ Len(pairs) \in Nat /\ DOMAIN a = 1..Len(a) /\ DOMAIN pairs = 1..Len(pairs)
      BY <3>1
    <3>3. ASSUME NEW i \in 1..(Len(a) + Len(pairs)) PROVE \E k \in DOMAIN pairs : (a \o pairs)[i] = pairs[k]
      <4>1. CASE i <= Len(a)
        BY <3>1, <3>2, <4>1
      <4>2. CASE i > Len(a)
        <5>1. i - Len(a) \in 1..Len(pairs) /\ Len(a) + (i - Len(a)) = i
          BY <3>2, <4>2
        <5> QED BY <3>2, <5>1
      <4> QED BY <3>2, <4>1, <4>2
    <3>4. ASSUME NEW k \in DOMAIN pairs PROVE \E i \in 1..(Len(a) + Len(pairs)) : (a \o pairs)[i] = pairs[k]
      <4>1. Len(a) + k \in 1..(Len(a) + Len(pairs))
        BY <3>2
      <4> QED BY <3>2, <4>1
    <3> DEFINE c == a \o pairs
    <3>5. /\ \A i \in DOMAIN c : \E k \in DOMAIN pairs : c[i] = pairs[k]
          /\ \A k \in DOMAIN pairs : \E i \in DOMAIN c : c[i] = pairs[k]
      <4>1. DOMAIN c = 1..(Len(a) + Len(pairs))
        BY <3>2
      <4>2. /\ \A i \in 1..(Len(a) + Len(pairs)) : \E k \in DOMAIN pairs : c[i] = pairs[k]
            /\ \A k \in DOMAIN pairs : \E i \in 1..(Len(a) + Len(pairs)) : c[i] = pairs[k]
        BY <3>3, <3>4
      <4> HIDE DEF c
      <4> QED BY <4>1, <4>2
    <3>6. after[n] = c
      BY <3>1
    <3> HIDE DEF c
    <3> QED BY <3>5, <3>6
  <2>4. n \in 0..Rounds
    BY <1>2
  <2> QED BY <2>2, <2>3, <2>4
<1> HIDE DEF R
<1>6. Rounds \in R
  <2>1. \A n \in 0..Rounds : n \in R
    BY <1>2, <1>4, <1>5, BoundedInduction
  <2> QED BY <1>2, <2>1
<1> QED BY <1>1, <1>2, <1>6 DEF R
-----------------------------------------------------------------------------
(* What a log holds of its own pass. *)

Dumps == [dir : Passes, record : PassRecords]
Requests == [pass : Passes \cup {"other"}, turn : 0..Turns, pinned : Modes \cup {"no"}, handled : Modes]

OfMode(p) == {r \in PassRecords : r.mode = Mode(p)}
DumpsOf(p) == {d \in Dumps : d.dir = p /\ d.record.mode = Mode(p)}
OwnRecord(p, i) == [pass |-> p, turn |-> i, handled |-> Mode(p), ok |-> TRUE, mode |-> Mode(p)]

\* The records of a pass's variant: written, to be written, and read.
WrittenOf(p) == Keep(logs[p], OfMode(p))
Unwritten(p) == Keep(queue, DumpsOf(p))
Read(p) == Keep(loaded[p], OfMode(p))

AbTypeOK ==
    /\ proxy \in [mode : Modes, dir : Passes \cup {"own"}] /\ late \subseteq Passes
    /\ stage \in {"switch", "run", "load", "scored", "failed"} /\ pass \in Passes
    /\ turn \in Nat /\ open \subseteq Requests /\ queue \in Seq(Dumps)
    /\ logs \in [Passes -> Seq(PassRecords)] /\ loaded \in [Passes -> Seq(PassRecords)]
    /\ switched \subseteq Passes

ScoreInv ==
    /\ IF stage = "scored"
       THEN /\ verdict = <<Scorecard(loaded["A"], loaded["B"])>>
            /\ loaded["A"] # <<>> /\ loaded["B"] # <<>>
       ELSE verdict = <<>>
    /\ stage = "load" /\ pass = "B" => loaded["A"] # <<>>

\* Nothing is in a directory that no mode request has named.
SwitchedInv ==
    /\ proxy.dir \in Passes => proxy.dir \in switched
    /\ \A i \in 1..Len(queue) : queue[i].dir \in switched
    /\ \A p \in Passes : logs[p] # <<>> \/ loaded[p] # <<>> => p \in switched

NotBegun(p) ==
    \/ stage = "switch" /\ pass = p
    \/ stage \in {"switch", "run"} /\ pass = "A" /\ p = "B"

OwnRequest == [pass |-> pass, turn |-> turn + 1, pinned |-> "no", handled |-> Mode(pass)]

\* Without a fault the proxy is in the mode of the pass, which is the only one
\* with a request open.
Undisturbed ==
    /\ late = {}
    /\ stage = "run" => proxy = [mode |-> Mode(pass), dir |-> pass]
    /\ \A f \in open : f.pass \in Passes => stage = "run" /\ f = OwnRequest

\* And the records of the variant are those of the pass, in order.
AnsweredInOrder(p) ==
    /\ \A i \in 1..Len(WrittenOf(p)) : WrittenOf(p)[i] = OwnRecord(p, i)
    /\ \A i \in 1..Len(Unwritten(p)) : Unwritten(p)[i].record = OwnRecord(p, Len(WrittenOf(p)) + i)
    /\ stage = "run" /\ pass = p => Len(WrittenOf(p)) + Len(Unwritten(p)) = turn
    /\ NotBegun(p) => Len(WrittenOf(p)) = 0 /\ Len(Unwritten(p)) = 0

ReadInOrder(p) == \A i \in 1..Len(Read(p)) : Read(p)[i] = OwnRecord(p, i)

OwnAreOfMode ==
    /\ \A i \in 1..Len(queue) :
          queue[i].record.pass = queue[i].dir => queue[i].record.mode = Mode(queue[i].dir)
    /\ \A p \in Passes : \A i \in 1..Len(logs[p]) : logs[p][i].pass = p => logs[p][i].mode = Mode(p)
    /\ \A p \in Passes : \A i \in 1..Len(loaded[p]) : loaded[p][i].pass = p => loaded[p][i].mode = Mode(p)

CleanInv ==
    faults = {} => /\ Undisturbed /\ OwnAreOfMode
                   /\ \A p \in Passes : AnsweredInOrder(p) /\ ReadInOrder(p)

AbInv == AbTypeOK /\ ScoreInv /\ SwitchedInv /\ CleanInv
-----------------------------------------------------------------------------
(* The types. *)

LEMMA PassesAre == Mode("A") = "baseline" /\ Mode("B") = "optimized" /\ \A p \in Passes : Mode(p) \in Modes
BY DEF Passes, Mode, Modes

LEMMA RecordsOfRequests ==
    ASSUME NEW f \in Requests, NEW ok \in BOOLEAN, proxy.mode \in Modes
    PROVE  WireRecord(f, ok) \in PassRecords
<1>1. (IF f.pinned = "no" THEN proxy.mode ELSE f.pinned) \in Modes
  BY DEF Requests
<1> QED BY <1>1 DEF WireRecord, PassRecords, Requests

LEMMA AbTypeStarts == AbInit => AbTypeOK
<1>1. <<>> \in Seq(PassRecords) /\ <<>> \in Seq(Dumps)
  OBVIOUS
<1> QED BY <1>1 DEF AbInit, AbTypeOK, Passes, Modes

LEMMA AbTypeStep == AbTypeOK /\ [AbNext]_abVars => AbTypeOK'
<1> SUFFICES ASSUME AbTypeOK, [AbNext]_abVars PROVE AbTypeOK'
  OBVIOUS
<1> USE DEF AbTypeOK
<1>1. ASSUME NEW p \in Passes, SwitchTo(p) PROVE AbTypeOK'
  <2>1. Mode(p) \in Modes
    BY PassesAre
  <2>2. proxy' \in [mode : Modes, dir : Passes \cup {"own"}]
    BY <1>1, <2>1 DEF SwitchTo
  <2> QED BY <1>1, <2>2 DEF SwitchTo, Going
<1>2. ASSUME NEW p \in Passes, Ask(p) PROVE AbTypeOK'
  <2> DEFINE f == [pass |-> p, turn |-> turn + 1, pinned |-> "no", handled |-> proxy.mode]
  <2>1. turn + 1 \in 0..Turns
    BY <1>2, AbAssumption DEF Ask
  <2>2. f \in Requests
    BY <2>1 DEF Requests
  <2>3. open' = open \cup {f}
    BY <1>2 DEF Ask
  <2> HIDE DEF f
  <2> QED BY <1>2, <2>2, <2>3 DEF Ask
<1>3. ASSUME NEW p \in Passes, CommandEnds(p) PROVE AbTypeOK'
  <2>1. stage' \in {"switch", "load"} /\ pass' \in Passes
    BY <1>3 DEF CommandEnds, Going, Passes
  <2> QED BY <1>3, <2>1 DEF CommandEnds
<1>4. ASSUME NEW p \in Passes, SwitchLate(p) PROVE AbTypeOK'
  BY <1>4, PassesAre DEF SwitchLate
<1>5. ASSUME NEW pin \in Modes \cup {"no"}, AskOther(pin) PROVE AbTypeOK'
  <2> DEFINE f == [pass |-> "other", turn |-> 0, pinned |-> pin,
                   handled |-> IF pin = "no" THEN proxy.mode ELSE pin]
  <2>1. f \in Requests
    BY AbAssumption DEF Requests
  <2>2. open' = open \cup {f}
    BY <1>5 DEF AskOther
  <2> HIDE DEF f
  <2> QED BY <1>5, <2>1, <2>2 DEF AskOther
<1>6. ASSUME NEW f \in open, NEW ok \in BOOLEAN, Answer(f, ok) PROVE AbTypeOK'
  <2>1. WireRecord(f, ok) \in PassRecords
    BY RecordsOfRequests
  <2>2. queue' \in Seq(Dumps)
    <3>1. CASE proxy.dir \in Passes
      <4> DEFINE d == [dir |-> proxy.dir, record |-> WireRecord(f, ok)]
      <4>1. d \in Dumps
        BY <2>1, <3>1 DEF Dumps
      <4>2. queue' = Append(queue, d)
        BY <1>6, <3>1 DEF Answer
      <4> HIDE DEF d
      <4> QED BY <4>1, <4>2
    <3>2. CASE proxy.dir \notin Passes
      BY <1>6, <3>2 DEF Answer
    <3> QED BY <3>1, <3>2
  <2>3. turn' \in Nat /\ open' \subseteq Requests
    <3>1. turn' \in {turn, turn + 1} /\ open' = open \ {f}
      BY <1>6 DEF Answer
    <3> QED BY <3>1
  <2> QED BY <1>6, <2>2, <2>3 DEF Answer
<1>7. CASE WriteRecord
  <2>1. Head(queue) \in Dumps /\ Tail(queue) \in Seq(Dumps)
    BY <1>7, HeadAndTail DEF WriteRecord
  <2>2. Head(queue).dir \in Passes /\ Head(queue).record \in PassRecords
    BY <2>1 DEF Dumps
  <2>3. Append(logs[Head(queue).dir], Head(queue).record) \in Seq(PassRecords)
    BY <2>2
  <2>4. logs' \in [Passes -> Seq(PassRecords)]
    BY <1>7, <2>3 DEF WriteRecord
  <2> QED BY <1>7, <2>1, <2>4 DEF WriteRecord
<1>8. CASE LoadA
  BY <1>8 DEF LoadA, Going, Passes
<1>9. CASE Evaluate
  BY <1>9 DEF Evaluate, Going, Passes
<1>10. CASE UNCHANGED abVars
  BY <1>10 DEF abVars
<1> QED BY <1>1, <1>2, <1>3, <1>4, <1>5, <1>6, <1>7, <1>8, <1>9, <1>10 DEF AbNext
-----------------------------------------------------------------------------
(* A scorecard is of what was loaded, and what was loaded of passes that were *)
(* switched to.                                                               *)

LEMMA ScoreStep == AbTypeOK /\ ScoreInv /\ [AbNext]_abVars => ScoreInv'
<1> SUFFICES ASSUME AbTypeOK, ScoreInv, [AbNext]_abVars PROVE ScoreInv'
  OBVIOUS
<1>1. ASSUME NEW p \in Passes, SwitchTo(p) PROVE ScoreInv'
  BY <1>1 DEF SwitchTo, Going, ScoreInv
<1>2. ASSUME NEW p \in Passes, Ask(p) PROVE ScoreInv'
  BY <1>2 DEF Ask, ScoreInv
<1>3. ASSUME NEW p \in Passes, CommandEnds(p) PROVE ScoreInv'
  BY <1>3 DEF CommandEnds, Going, ScoreInv
<1>4. ASSUME NEW p \in Passes, SwitchLate(p) PROVE ScoreInv'
  BY <1>4 DEF SwitchLate, ScoreInv
<1>5. ASSUME NEW pin \in Modes \cup {"no"}, AskOther(pin) PROVE ScoreInv'
  BY <1>5 DEF AskOther, ScoreInv
<1>6. ASSUME NEW f \in open, NEW ok \in BOOLEAN, Answer(f, ok) PROVE ScoreInv'
  BY <1>6 DEF Answer, ScoreInv
<1>7. CASE WriteRecord
  BY <1>7 DEF WriteRecord, ScoreInv
<1>8. CASE LoadA
  BY <1>8 DEF LoadA, Going, ScoreInv, NoRecords, AbTypeOK, Passes
<1>9. CASE Evaluate
  <2>1. loaded'["A"] = loaded["A"] /\ loaded'["B"] = logs["B"] /\ loaded["A"] # <<>>
    BY <1>9 DEF Evaluate, ScoreInv, AbTypeOK, Passes
  <2>2. CASE NoRecords(logs["B"])
    BY <1>9, <2>2 DEF Evaluate, Going, ScoreInv
  <2>3. CASE ~NoRecords(logs["B"])
    <3>1. stage' = "scored" /\ verdict' = <<Scorecard(loaded'["A"], loaded'["B"])>>
      BY <1>9, <2>1, <2>3 DEF Evaluate, Going
    <3>2. loaded'["A"] # <<>> /\ loaded'["B"] # <<>>
      BY <2>1, <2>3 DEF NoRecords
    <3> QED BY <3>1, <3>2 DEF ScoreInv
  <2> QED BY <2>2, <2>3
<1>10. CASE UNCHANGED abVars
  BY <1>10 DEF abVars, ScoreInv
<1> QED BY <1>1, <1>2, <1>3, <1>4, <1>5, <1>6, <1>7, <1>8, <1>9, <1>10 DEF AbNext

LEMMA SwitchedStep == AbTypeOK /\ SwitchedInv /\ [AbNext]_abVars => SwitchedInv'
<1> SUFFICES ASSUME AbTypeOK, SwitchedInv, [AbNext]_abVars PROVE SwitchedInv'
  OBVIOUS
<1>1. ASSUME NEW p \in Passes, SwitchTo(p) PROVE SwitchedInv'
  <2>1. switched \subseteq switched' /\ (proxy'.dir \in Passes => proxy'.dir \in switched')
    BY <1>1 DEF SwitchTo, SwitchedInv
  <2> QED BY <1>1, <2>1 DEF SwitchTo, SwitchedInv
<1>2. ASSUME NEW p \in Passes, Ask(p) PROVE SwitchedInv'
  BY <1>2 DEF Ask, SwitchedInv
<1>3. ASSUME NEW p \in Passes, CommandEnds(p) PROVE SwitchedInv'
  BY <1>3 DEF CommandEnds, SwitchedInv
<1>4. ASSUME NEW p \in Passes, SwitchLate(p) PROVE SwitchedInv'
  BY <1>4 DEF SwitchLate, SwitchedInv
<1>5. ASSUME NEW pin \in Modes \cup {"no"}, AskOther(pin) PROVE SwitchedInv'
  BY <1>5 DEF AskOther, SwitchedInv
<1>6. ASSUME NEW f \in open, NEW ok \in BOOLEAN, Answer(f, ok) PROVE SwitchedInv'
  <2>1. CASE proxy.dir \in Passes
    <3> DEFINE d == [dir |-> proxy.dir, record |-> WireRecord(f, ok)]
    <3>1. queue' = Append(queue, d) /\ d.dir \in switched
      BY <1>6, <2>1 DEF Answer, SwitchedInv
    <3> HIDE DEF d
    <3>2. \A i \in 1..Len(queue') : queue'[i] = d \/ (i \in 1..Len(queue) /\ queue'[i] = queue[i])
      BY <3>1 DEF AbTypeOK
    <3> QED BY <1>6, <3>1, <3>2 DEF Answer, SwitchedInv
  <2>2. CASE proxy.dir \notin Passes
    BY <1>6, <2>2 DEF Answer, SwitchedInv
  <2> QED BY <2>1, <2>2
<1>7. CASE WriteRecord
  <2>1. /\ queue # <<>> /\ queue' = Tail(queue) /\ queue \in Seq(Dumps)
        /\ \A p \in Passes : p # Head(queue).dir => logs'[p] = logs[p]
    BY <1>7 DEF WriteRecord, AbTypeOK
  <2>2. 1 \in 1..Len(queue) /\ Head(queue) = queue[1]
        /\ \A i \in 1..Len(queue') : queue'[i] = queue[i + 1] /\ i + 1 \in 1..Len(queue)
    BY <2>1, HeadAndTail
  <2>3. Head(queue).dir \in switched
    BY <2>2 DEF SwitchedInv
  <2> QED BY <1>7, <2>1, <2>2, <2>3 DEF WriteRecord, SwitchedInv
<1>8. CASE LoadA
  BY <1>8 DEF LoadA, SwitchedInv, AbTypeOK
<1>9. CASE Evaluate
  BY <1>9 DEF Evaluate, SwitchedInv, AbTypeOK
<1>10. CASE UNCHANGED abVars
  BY <1>10 DEF abVars, SwitchedInv
<1> QED BY <1>1, <1>2, <1>3, <1>4, <1>5, <1>6, <1>7, <1>8, <1>9, <1>10 DEF AbNext
-----------------------------------------------------------------------------
(* The records of a pass stay in the order of its turns. *)

LEMMA LengthsAre ==
    ASSUME AbTypeOK, NEW p \in Passes
    PROVE  /\ WrittenOf(p) \in Seq(PassRecords) /\ Len(WrittenOf(p)) \in Nat
           /\ Unwritten(p) \in Seq(Dumps) /\ Len(Unwritten(p)) \in Nat
           /\ Read(p) \in Seq(PassRecords)
<1>1. logs[p] \in Seq(PassRecords) /\ loaded[p] \in Seq(PassRecords) /\ queue \in Seq(Dumps)
  BY DEF AbTypeOK
<1> QED BY <1>1, KeepType DEF WrittenOf, Unwritten, Read

\* Steps that leave the records of a pass alone, or at most read them.
LEMMA OrderStays ==
    ASSUME NEW p \in Passes, AnsweredInOrder(p),
           WrittenOf(p)' = WrittenOf(p), Unwritten(p)' = Unwritten(p),
           NotBegun(p)' => NotBegun(p),
           stage' = "run" /\ pass' = p => \/ NotBegun(p) /\ turn' = 0
                                          \/ stage = "run" /\ pass = p /\ turn' = turn
    PROVE  AnsweredInOrder(p)'
<1> DEFINE w == WrittenOf(p)
           u == Unwritten(p)
<1>1. WrittenOf(p)' = w /\ Unwritten(p)' = u
  OBVIOUS
<1>2. /\ \A i \in 1..Len(w) : w[i] = OwnRecord(p, i)
      /\ \A i \in 1..Len(u) : u[i].record = OwnRecord(p, Len(w) + i)
      /\ stage = "run" /\ pass = p => Len(w) + Len(u) = turn
      /\ NotBegun(p) => Len(w) = 0 /\ Len(u) = 0
  BY DEF AnsweredInOrder
<1> HIDE DEF w, u
<1>3. NotBegun(p)' => Len(w) = 0 /\ Len(u) = 0
  BY <1>2
<1>4. stage' = "run" /\ pass' = p => Len(w) + Len(u) = turn'
  BY <1>2
<1> QED BY <1>1, <1>2, <1>3, <1>4 DEF AnsweredInOrder

LEMMA RecordsStay ==
    ASSUME CleanInv, faults = {}, UNCHANGED <<queue, logs, loaded>>,
           \A p \in Passes : /\ NotBegun(p)' => NotBegun(p)
                             /\ stage' = "run" /\ pass' = p =>
                                   \/ NotBegun(p) /\ turn' = 0
                                   \/ stage = "run" /\ pass = p /\ turn' = turn
    PROVE  (\A p \in Passes : AnsweredInOrder(p) /\ ReadInOrder(p))' /\ OwnAreOfMode'
<1>1. \A p \in Passes : WrittenOf(p)' = WrittenOf(p) /\ Unwritten(p)' = Unwritten(p) /\ Read(p)' = Read(p)
  BY DEF WrittenOf, Unwritten, Read
<1>2. ASSUME NEW p \in Passes PROVE AnsweredInOrder(p)' /\ ReadInOrder(p)'
  <2>1. AnsweredInOrder(p) /\ ReadInOrder(p)
    BY DEF CleanInv
  <2>2. AnsweredInOrder(p)'
    BY <1>1, <2>1, OrderStays
  <2>3. ReadInOrder(p)'
    BY <1>1, <2>1 DEF ReadInOrder
  <2> QED BY <2>2, <2>3
<1>3. OwnAreOfMode'
  BY DEF CleanInv, OwnAreOfMode
<1> QED BY <1>2, <1>3

LEMMA FaultsStay ==
    ASSUME [AbNext]_abVars, faults' = {}
    PROVE  faults = {}
<1>1. ASSUME NEW fault, May(fault) PROVE FALSE
  BY <1>1 DEF May
<1>2. faults' = faults
  BY <1>1 DEF AbNext, abVars, SwitchTo, Ask, CommandEnds, SwitchLate, AskOther, Answer, WriteRecord,
     LoadA, Evaluate
<1> QED BY <1>2

LEMMA WrittenNow ==
    ASSUME AbTypeOK, Undisturbed, OwnAreOfMode, \A p \in Passes : AnsweredInOrder(p) /\ ReadInOrder(p),
           queue # <<>>, queue' = Tail(queue),
           UNCHANGED <<proxy, late, stage, pass, turn, open, loaded>>,
           logs' = [logs EXCEPT ![Head(queue).dir] = Append(@, Head(queue).record)]
    PROVE  Undisturbed' /\ OwnAreOfMode' /\ (\A p \in Passes : AnsweredInOrder(p) /\ ReadInOrder(p))'
<1> DEFINE d == Head(queue)
<1>1. Undisturbed'
  BY DEF Undisturbed, OwnRequest
<1>2. /\ d \in Dumps /\ queue \in Seq(Dumps) /\ queue' \in Seq(Dumps) /\ d = queue[1] /\ 1 \in 1..Len(queue)
      /\ \A i \in 1..Len(queue') : queue'[i] = queue[i + 1] /\ i + 1 \in 1..Len(queue)
  BY HeadAndTail DEF AbTypeOK
<1>3. d.dir \in Passes /\ d.record \in PassRecords /\ logs \in [Passes -> Seq(PassRecords)]
  BY <1>2 DEF Dumps, AbTypeOK
<1>4. /\ logs'[d.dir] = Append(logs[d.dir], d.record)
      /\ \A p \in Passes : p # d.dir => logs'[p] = logs[p]
  BY <1>3
<1> HIDE DEF d
<1>5. OwnAreOfMode'
  <2>1. d.record.pass = d.dir => d.record.mode = Mode(d.dir)
    BY <1>2 DEF OwnAreOfMode
  <2>2. ASSUME NEW p \in Passes, NEW i \in 1..Len(logs'[p]), logs'[p][i].pass = p
        PROVE  logs'[p][i].mode = Mode(p)
    <3>1. CASE p = d.dir
      <4>1. logs'[p][i] = d.record \/ (i \in 1..Len(logs[p]) /\ logs'[p][i] = logs[p][i])
        BY <1>3, <1>4, <3>1, AppendedIs
      <4> QED BY <2>1, <2>2, <3>1, <4>1 DEF OwnAreOfMode
    <3>2. CASE p # d.dir
      BY <1>4, <2>2, <3>2 DEF OwnAreOfMode
    <3> QED BY <3>1, <3>2
  <2>3. \A p \in Passes : \A i \in 1..Len(logs'[p]) : logs'[p][i].pass = p => logs'[p][i].mode = Mode(p)
    BY <2>2
  <2>4. \A i \in 1..Len(queue') :
            queue'[i].record.pass = queue'[i].dir => queue'[i].record.mode = Mode(queue'[i].dir)
    BY <1>2 DEF OwnAreOfMode
  <2> QED BY <2>3, <2>4 DEF OwnAreOfMode
<1>6. ASSUME NEW p \in Passes PROVE AnsweredInOrder(p)'
  <2> DEFINE w == WrittenOf(p)
             u == Unwritten(p)
             v == Keep(queue', DumpsOf(p))
  <2>1. NotBegun(p)' = NotBegun(p) /\ Unwritten(p)' = v
    BY DEF NotBegun, Unwritten
  <2>2. CASE d \notin DumpsOf(p)
    <3>1. Unwritten(p)' = Unwritten(p)
      BY <1>2, <2>1, <2>2, KeepFirst DEF Unwritten, d
    <3>2. WrittenOf(p)' = WrittenOf(p)
      <4>1. CASE p = d.dir
        <5>1. d.record \notin OfMode(p) /\ logs[p] \in Seq(PassRecords)
          BY <1>2, <1>3, <2>2, <4>1 DEF DumpsOf, OfMode
        <5> QED BY <1>3, <1>4, <4>1, <5>1, KeepAppend DEF WrittenOf
      <4>2. CASE p # d.dir
        BY <1>4, <4>2 DEF WrittenOf
      <4> QED BY <4>1, <4>2
    <3> QED BY <2>1, <3>1, <3>2, OrderStays
  <2>3. CASE d \in DumpsOf(p)
    <3>1. p = d.dir /\ d.record \in OfMode(p)
      BY <1>3, <2>3 DEF DumpsOf, OfMode
    <3>2. WrittenOf(p)' = Append(w, d.record)
      BY <1>3, <1>4, <3>1, KeepAppend DEF WrittenOf
    <3>3. Len(u) = Len(v) + 1 /\ u[1] = d /\ (\A i \in 1..Len(v) : u[i + 1] = v[i]) /\ v \in Seq(Dumps)
      BY <1>2, <2>3, KeepFirst, KeepType DEF Unwritten, d
    <3>4. /\ w \in Seq(PassRecords) /\ Len(w) \in Nat /\ Len(u) \in Nat /\ Len(v) \in Nat
          /\ \A i \in 1..Len(w) : w[i] = OwnRecord(p, i)
          /\ \A i \in 1..Len(u) : u[i].record = OwnRecord(p, Len(w) + i)
          /\ stage = "run" /\ pass = p => Len(w) + Len(u) = turn
          /\ NotBegun(p) => Len(w) = 0 /\ Len(u) = 0
      <4>1. Len(w) \in Nat /\ w \in Seq(PassRecords) /\ Len(u) \in Nat
        BY LengthsAre
      <4>2. Len(v) \in Nat
        <5> HIDE DEF v
        <5> QED BY <3>3
      <4>3. AnsweredInOrder(p)
        OBVIOUS
      <4> QED BY <4>1, <4>2, <4>3 DEF AnsweredInOrder
    <3> HIDE DEF w, u, v
    <3>5. ~NotBegun(p) /\ Len(Append(w, d.record)) = Len(w) + 1 /\ 1 \in 1..Len(u)
          /\ (Len(w) + 1) + Len(v) = Len(w) + Len(u)
      BY <3>3, <3>4
    <3>6. d.record = OwnRecord(p, Len(w) + 1)
      BY <3>3, <3>4, <3>5
    <3>7. ASSUME NEW i \in 1..(Len(w) + 1) PROVE Append(w, d.record)[i] = OwnRecord(p, i)
      <4>1. CASE i = Len(w) + 1
        BY <3>4, <3>6, <4>1
      <4>2. CASE i \in 1..Len(w)
        BY <3>4, <4>2
      <4> QED BY <3>4, <4>1, <4>2
    <3>8. ASSUME NEW i \in 1..Len(v) PROVE v[i].record = OwnRecord(p, (Len(w) + 1) + i)
      <4>1. i + 1 \in 1..Len(u) /\ Len(w) + (i + 1) = (Len(w) + 1) + i
        BY <3>3, <3>4
      <4> QED BY <3>3, <3>4, <4>1
    <3> QED BY <2>1, <3>2, <3>4, <3>5, <3>7, <3>8 DEF AnsweredInOrder
  <2> QED BY <2>2, <2>3
<1>7. ASSUME NEW p \in Passes PROVE ReadInOrder(p)'
  BY DEF ReadInOrder, Read
<1> QED BY <1>1, <1>5, <1>6, <1>7

LEMMA ReadNow ==
    ASSUME AbTypeOK, Undisturbed, OwnAreOfMode, \A p \in Passes : AnsweredInOrder(p) /\ ReadInOrder(p),
           NEW q \in Passes, stage = "load", stage' \in {"failed", "load", "scored"},
           UNCHANGED <<proxy, late, open, queue, logs>>,
           loaded' = [loaded EXCEPT ![q] = logs[q]]
    PROVE  Undisturbed' /\ OwnAreOfMode' /\ (\A p \in Passes : AnsweredInOrder(p) /\ ReadInOrder(p))'
<1>1. Undisturbed'
  BY DEF Undisturbed
<1>2. loaded'[q] = logs[q] /\ \A p \in Passes : p # q => loaded'[p] = loaded[p]
  BY DEF AbTypeOK
<1>3. OwnAreOfMode'
  <2>1. ASSUME NEW p \in Passes, NEW i \in 1..Len(loaded'[p]), loaded'[p][i].pass = p
        PROVE  loaded'[p][i].mode = Mode(p)
    BY <1>2, <2>1 DEF OwnAreOfMode
  <2>2. \A p \in Passes : \A i \in 1..Len(loaded'[p]) :
            loaded'[p][i].pass = p => loaded'[p][i].mode = Mode(p)
    BY <2>1
  <2> QED BY <2>2 DEF OwnAreOfMode
<1>4. ASSUME NEW p \in Passes PROVE AnsweredInOrder(p)' /\ ReadInOrder(p)'
  <2>1. WrittenOf(p)' = WrittenOf(p) /\ Unwritten(p)' = Unwritten(p) /\ ~NotBegun(p)' /\ stage' # "run"
    BY DEF WrittenOf, Unwritten, NotBegun
  <2>2. AnsweredInOrder(p)'
    BY <2>1, OrderStays
  <2>3. Read(p)' = IF p = q THEN WrittenOf(p) ELSE Read(p)
    BY <1>2 DEF Read, WrittenOf
  <2>4. (\A i \in 1..Len(WrittenOf(p)) : WrittenOf(p)[i] = OwnRecord(p, i)) /\ ReadInOrder(p)
    BY DEF AnsweredInOrder
  <2>5. ReadInOrder(p)'
    BY <2>3, <2>4 DEF ReadInOrder
  <2> QED BY <2>2, <2>5
<1> QED BY <1>1, <1>3, <1>4

LEMMA CleanStep ==
    ASSUME AbTypeOK, CleanInv, [AbNext]_abVars
    PROVE  CleanInv'
<1> SUFFICES ASSUME faults' = {}
             PROVE  Undisturbed' /\ OwnAreOfMode' /\ (\A p \in Passes : AnsweredInOrder(p) /\ ReadInOrder(p))'
  BY DEF CleanInv
<1> DEFINE Goal == Undisturbed' /\ OwnAreOfMode' /\ (\A p \in Passes : AnsweredInOrder(p) /\ ReadInOrder(p))'
<1>0. /\ faults = {} /\ Undisturbed /\ OwnAreOfMode
      /\ \A p \in Passes : AnsweredInOrder(p) /\ ReadInOrder(p)
      /\ \A fault : ~May(fault)
  <2>1. faults = {}
    BY FaultsStay
  <2> QED BY <2>1 DEF CleanInv, May
<1>1. ASSUME NEW p \in Passes, SwitchTo(p) PROVE Goal
  <2>1. stage = "switch" /\ pass = p /\ stage' = "run" /\ pass' = p /\ turn' = 0
        /\ proxy' = [mode |-> Mode(p), dir |-> p] /\ UNCHANGED <<late, open, queue, logs, loaded>>
    BY <1>0, <1>1 DEF SwitchTo, Going
  <2>2. Undisturbed'
    BY <1>0, <2>1 DEF Undisturbed
  <2>3. \A q \in Passes : /\ NotBegun(q)' => NotBegun(q)
                          /\ stage' = "run" /\ pass' = q => NotBegun(q) /\ turn' = 0
    BY <2>1 DEF NotBegun
  <2> QED BY <1>0, <2>1, <2>2, <2>3, RecordsStay
<1>2. ASSUME NEW p \in Passes, Ask(p) PROVE Goal
  <2>1. stage = "run" /\ pass = p /\ UNCHANGED <<proxy, late, stage, pass, turn, queue, logs, loaded>>
    BY <1>2 DEF Ask
  <2>2. open' = open \cup {OwnRequest}
    BY <1>0, <1>2 DEF Ask, Undisturbed, OwnRequest
  <2>3. OwnRequest' = OwnRequest
    BY <2>1 DEF OwnRequest
  <2>4. Undisturbed'
    BY <1>0, <2>1, <2>2, <2>3 DEF Undisturbed
  <2>5. \A q \in Passes : NotBegun(q)' => NotBegun(q)
    BY <2>1 DEF NotBegun
  <2> QED BY <1>0, <2>1, <2>4, <2>5, RecordsStay
<1>3. ASSUME NEW p \in Passes, CommandEnds(p) PROVE Goal
  <2>1. /\ stage = "run" /\ pass = p /\ UNCHANGED <<proxy, late, turn, open, queue, logs, loaded>>
        /\ \/ p = "A" /\ stage' = "switch" /\ pass' = "B"
           \/ p = "B" /\ stage' = "load" /\ pass' = "A"
    BY <1>3 DEF CommandEnds, Going, Passes
  <2>2. \A f \in open : f.pass # p
    BY <1>0, <1>3 DEF CommandEnds, Own
  <2>3. \A f \in open : f.pass \notin Passes
    BY <1>0, <2>1, <2>2 DEF Undisturbed, OwnRequest
  <2>4. Undisturbed'
    BY <1>0, <2>1, <2>3 DEF Undisturbed
  <2>5. \A q \in Passes : NotBegun(q)' => NotBegun(q)
    BY <2>1 DEF NotBegun
  <2> QED BY <1>0, <2>1, <2>4, <2>5, RecordsStay
<1>4. ASSUME NEW p \in Passes, SwitchLate(p) PROVE Goal
  BY <1>0, <1>4 DEF SwitchLate, Undisturbed
<1>5. ASSUME NEW pin \in Modes \cup {"no"}, AskOther(pin) PROVE Goal
  <2>1. UNCHANGED <<proxy, late, stage, pass, turn, queue, logs, loaded>>
    BY <1>5 DEF AskOther
  <2>2. \A f \in open' : f \in open \/ f.pass = "other"
    BY <1>5 DEF AskOther
  <2>3. OwnRequest' = OwnRequest /\ "other" \notin Passes
    BY <2>1 DEF OwnRequest, Passes
  <2>4. Undisturbed'
    BY <1>0, <2>1, <2>2, <2>3 DEF Undisturbed
  <2>5. \A q \in Passes : NotBegun(q)' => NotBegun(q)
    BY <2>1 DEF NotBegun
  <2> QED BY <1>0, <2>1, <2>4, <2>5, RecordsStay
<1>6. ASSUME NEW f \in open, NEW ok \in BOOLEAN, Answer(f, ok) PROVE Goal
  <2> DEFINE d == [dir |-> proxy.dir, record |-> WireRecord(f, ok)]
  <2>1. /\ UNCHANGED <<proxy, late, stage, pass, logs, loaded>> /\ open' = open \ {f} /\ ok = TRUE
        /\ queue' = IF proxy.dir \in Passes THEN Append(queue, d) ELSE queue
        /\ turn' = IF stage = "run" /\ pass = f.pass THEN turn + 1 ELSE turn
        /\ f.pass = "other" /\ proxy.dir \in Passes => d.record.mode # Mode(proxy.dir)
    BY <1>0, <1>6 DEF Answer
  <2>2. f \in Requests /\ queue \in Seq(Dumps) /\ proxy.mode \in Modes /\ d.dir = proxy.dir
        /\ (f.pass \notin Passes => f.pass = "other") /\ pass \in Passes /\ "other" \notin Passes
    BY DEF AbTypeOK, Requests, Passes
  <2>3. d.record.pass = f.pass /\ d.record \in PassRecords
    BY <2>2, RecordsOfRequests DEF WireRecord
  <2>4. \A q \in Passes : NotBegun(q)' = NotBegun(q) /\ WrittenOf(q)' = WrittenOf(q) /\ Read(q)' = Read(q)
    BY <2>1 DEF NotBegun, WrittenOf, Read
  <2>5. \A q \in Passes : ReadInOrder(q)'
    BY <1>0, <2>4 DEF ReadInOrder
  <2>6. CASE f.pass \notin Passes
    <3>1. turn' = turn
      BY <2>1, <2>2, <2>6
    <3>2. Undisturbed'
      BY <1>0, <2>1, <3>1 DEF Undisturbed, OwnRequest
    <3>3. CASE proxy.dir \notin Passes
      <4>1. UNCHANGED <<queue, logs, loaded>>
        BY <2>1, <3>3
      <4> QED BY <1>0, <2>1, <2>4, <3>1, <3>2, <4>1, RecordsStay
    <3>4. CASE proxy.dir \in Passes
      <4>1. queue' = Append(queue, d) /\ d \in Dumps /\ \A q \in Passes : d \notin DumpsOf(q)
        BY <2>1, <2>2, <2>3, <2>6, <3>4 DEF DumpsOf, Dumps
      <4> HIDE DEF d
      <4>2. \A q \in Passes : Unwritten(q)' = Unwritten(q)
        BY <2>2, <4>1, KeepAppend DEF Unwritten
      <4>3. \A q \in Passes : AnsweredInOrder(q)'
        BY <1>0, <2>1, <2>4, <3>1, <4>2, OrderStays
      <4>4. d.record.pass # d.dir
        BY <2>2, <2>3, <2>6, <3>4
      <4>5. OwnAreOfMode'
        BY <1>0, <2>1, <2>2, <4>1, <4>4, AppendedIs DEF OwnAreOfMode
      <4> QED BY <2>5, <3>2, <4>3, <4>5
    <3> QED BY <3>3, <3>4
  <2>7. CASE f.pass \in Passes
    <3>1. /\ stage = "run" /\ f = OwnRequest /\ f.pass = pass /\ f.turn = turn + 1 /\ f.handled = Mode(pass)
          /\ f.pinned = "no" /\ proxy.mode = Mode(pass) /\ proxy.dir = pass /\ turn' = turn + 1
      BY <1>0, <2>1, <2>7 DEF Undisturbed, OwnRequest
    <3>2. Undisturbed'
      BY <1>0, <2>1, <3>1 DEF Undisturbed
    <3>3. d.record = OwnRecord(pass, turn + 1) /\ d.dir = pass /\ queue' = Append(queue, d)
      BY <2>1, <2>2, <3>1 DEF WireRecord, OwnRecord
    <3>4. d \in Dumps /\ d \in DumpsOf(pass) /\ \A q \in Passes : q # pass => d \notin DumpsOf(q)
      BY <2>2, <2>3, <3>1, <3>3 DEF Dumps, DumpsOf, OwnRecord
    <3> HIDE DEF d
    <3>5. ASSUME NEW q \in Passes, q # pass PROVE AnsweredInOrder(q)'
      <4>1. Unwritten(q)' = Unwritten(q)
        BY <2>2, <3>3, <3>4, <3>5, KeepAppend DEF Unwritten
      <4> QED BY <1>0, <2>1, <2>4, <3>5, <4>1, OrderStays
    <3>6. ASSUME NEW q \in Passes, q = pass PROVE AnsweredInOrder(q)'
      <4> DEFINE w == WrittenOf(q)
                 u == Unwritten(q)
      <4>1. Unwritten(q)' = Append(u, d)
        BY <2>2, <3>3, <3>4, <3>6, KeepAppend DEF Unwritten
      <4>2. WrittenOf(q)' = w
        BY <2>4
      <4>3. /\ u \in Seq(Dumps) /\ Len(u) \in Nat /\ Len(w) \in Nat /\ Len(w) + Len(u) = turn
            /\ \A i \in 1..Len(w) : w[i] = OwnRecord(q, i)
            /\ \A i \in 1..Len(u) : u[i].record = OwnRecord(q, Len(w) + i)
        BY <1>0, <3>1, <3>6, LengthsAre DEF AnsweredInOrder
      <4> HIDE DEF w, u
      <4>4. Len(Append(u, d)) = Len(u) + 1 /\ Len(w) + (Len(u) + 1) = turn + 1
        BY <4>3
      <4>5. ASSUME NEW i \in 1..(Len(u) + 1) PROVE Append(u, d)[i].record = OwnRecord(q, Len(w) + i)
        <5>1. CASE i = Len(u) + 1
          BY <3>3, <3>6, <4>3, <4>4, <5>1
        <5>2. CASE i \in 1..Len(u)
          BY <4>3, <5>2
        <5> QED BY <4>3, <5>1, <5>2
      <4>6. ~NotBegun(q)'
        BY <2>1, <3>1, <3>6 DEF NotBegun, Passes
      <4> QED BY <2>1, <3>1, <4>1, <4>2, <4>3, <4>4, <4>5, <4>6 DEF AnsweredInOrder
    <3>7. OwnAreOfMode'
      <4>1. d.record.mode = Mode(d.dir)
        BY <3>3 DEF OwnRecord
      <4> QED BY <1>0, <2>1, <2>2, <3>3, <3>4, <4>1, AppendedIs DEF OwnAreOfMode
    <3>8. \A q \in Passes : AnsweredInOrder(q)'
      BY <3>5, <3>6
    <3> QED BY <2>5, <3>2, <3>7, <3>8
  <2> QED BY <2>6, <2>7
<1>7. CASE WriteRecord
  <2>1. /\ queue # <<>> /\ queue' = Tail(queue) /\ queue \in Seq(Dumps)
        /\ UNCHANGED <<proxy, late, stage, pass, turn, open, loaded>>
        /\ logs' = [logs EXCEPT ![Head(queue).dir] = Append(@, Head(queue).record)]
    BY <1>0, <1>7 DEF WriteRecord, AbTypeOK
  <2> QED BY <1>0, <2>1, WrittenNow
<1>8. CASE LoadA
  <2>1. /\ "A" \in Passes /\ stage = "load" /\ stage' \in {"failed", "load"}
        /\ UNCHANGED <<proxy, late, open, queue, logs>>
        /\ loaded' = [loaded EXCEPT !["A"] = logs["A"]]
    BY <1>8 DEF LoadA, Going, Passes
  <2> QED BY <1>0, <2>1, ReadNow
<1>9. CASE Evaluate
  <2>1. /\ "B" \in Passes /\ stage = "load" /\ stage' \in {"failed", "scored"}
        /\ UNCHANGED <<proxy, late, open, queue, logs>>
        /\ loaded' = [loaded EXCEPT !["B"] = logs["B"]]
    BY <1>9 DEF Evaluate, Going, Passes
  <2> QED BY <1>0, <2>1, ReadNow
<1>10. CASE UNCHANGED abVars
  <2>1. UNCHANGED <<proxy, late, stage, pass, turn, open, queue, logs, loaded>>
    BY <1>10 DEF abVars
  <2>2. Undisturbed'
    BY <1>0, <2>1 DEF Undisturbed, OwnRequest
  <2>3. \A q \in Passes : NotBegun(q)' => NotBegun(q)
    BY <2>1 DEF NotBegun
  <2> QED BY <1>0, <2>1, <2>2, <2>3, RecordsStay
<1> QED BY <1>1, <1>2, <1>3, <1>4, <1>5, <1>6, <1>7, <1>8, <1>9, <1>10 DEF AbNext
-----------------------------------------------------------------------------
(* What is scored. *)

\* What OfVariant keeps: what is of the variant, if anything is.
LEMMA VariantIs ==
    ASSUME NEW log \in Seq(PassRecords), NEW p \in Passes, NEW other \in Modes, other # Mode(p)
    PROVE  OfVariant(log, other) = IF Keep(log, OfMode(p)) # <<>> THEN Keep(log, OfMode(p)) ELSE log
<1> DEFINE S == {r \in ToSet(log) : r.mode # other}
<1>1. \A i \in 1..Len(log) : log[i] \in PassRecords /\ log[i] \in ToSet(log)
  BY DEF ToSet
<1>2. \A r \in PassRecords : r.mode # other <=> r.mode = Mode(p)
  BY PassesAre DEF PassRecords, Modes
<1>3. \A i \in 1..Len(log) : (log[i] \in S) = (log[i] \in OfMode(p))
  BY <1>1, <1>2 DEF OfMode
<1>4. Keep(log, S) = Keep(log, OfMode(p))
  BY <1>3, KeepAlike DEF Alike
<1> QED BY <1>4 DEF OfVariant

LEMMA PairsAre ==
    ASSUME NEW base \in Seq(PassRecords), NEW opt \in Seq(PassRecords), base # <<>>, opt # <<>>
    PROVE  /\ Pairs(base, opt) \in Seq(PairSet) /\ Len(Pairs(base, opt)) \in Nat \ {0}
           /\ \A k \in DOMAIN Pairs(base, opt) :
                 /\ k \in 1..Len(OfVariant(base, "optimized")) /\ k \in 1..Len(OfVariant(opt, "baseline"))
                 /\ Pairs(base, opt)[k] = [base |-> OfVariant(base, "optimized")[k],
                                           opt |-> OfVariant(opt, "baseline")[k]]
<1> DEFINE b == OfVariant(base, "optimized")
           o == OfVariant(opt, "baseline")
           n == Min({Len(b), Len(o)})
<1>1. b \in Seq(PassRecords) /\ o \in Seq(PassRecords) /\ b # <<>> /\ o # <<>>
  <2>1. ASSUME NEW log \in Seq(PassRecords), log # <<>>, NEW p \in Passes, NEW other \in Modes, other # Mode(p)
        PROVE  OfVariant(log, other) \in Seq(PassRecords) /\ OfVariant(log, other) # <<>>
    <3>1. Keep(log, OfMode(p)) \in Seq(PassRecords)
      BY KeepType
    <3> QED BY <2>1, <3>1, VariantIs
  <2>2. "A" \in Passes /\ "B" \in Passes /\ "optimized" \in Modes /\ "baseline" \in Modes
        /\ "optimized" # Mode("A") /\ "baseline" # Mode("B")
    BY DEF Passes, Modes, Mode
  <2> QED BY <2>1, <2>2
<1>2. Pairs(base, opt) = [i \in 1..n |-> [base |-> b[i], opt |-> o[i]]]
  BY DEF Pairs
<1> HIDE DEF b, o
<1>3. Len(b) \in Nat \ {0} /\ Len(o) \in Nat \ {0}
  BY <1>1
<1>4. n \in Nat \ {0} /\ n <= Len(b) /\ n <= Len(o)
  BY <1>3 DEF Min
<1> HIDE DEF n
<1>5. \A i \in 1..n : [base |-> b[i], opt |-> o[i]] \in PairSet /\ i \in 1..Len(b) /\ i \in 1..Len(o)
  BY <1>1, <1>3, <1>4 DEF PairSet
<1> DEFINE pairs == Pairs(base, opt)
<1>6. pairs \in [1..n -> PairSet]
  BY <1>2, <1>5
<1>7. pairs \in Seq(PairSet) /\ Len(pairs) = n
  <2> HIDE DEF pairs
  <2>1. pairs \in Seq(PairSet)
    BY <1>4, <1>6, FunctionIsSeq
  <2> QED BY <1>4, <1>6, <2>1
<1> QED BY <1>2, <1>4, <1>5, <1>7 DEF b, o

LEMMA ScoredIs ==
    ASSUME AbTypeOK, ScoreInv, NEW i \in Scored
    PROVE  /\ loaded["A"] \in Seq(PassRecords) /\ loaded["B"] \in Seq(PassRecords)
           /\ loaded["A"] # <<>> /\ loaded["B"] # <<>>
           /\ verdict[i] = Scorecard(loaded["A"], loaded["B"])
<1>1. loaded["A"] \in Seq(PassRecords) /\ loaded["B"] \in Seq(PassRecords)
  BY DEF AbTypeOK, Passes
<1>2. verdict # <<>>
  BY DEF Scored
<1>3. /\ verdict = <<Scorecard(loaded["A"], loaded["B"])>>
      /\ loaded["A"] # <<>> /\ loaded["B"] # <<>>
  BY <1>2 DEF ScoreInv
<1>4. i = 1
  BY <1>3 DEF Scored
<1> QED BY <1>1, <1>3, <1>4

LEMMA ScorecardIs ==
    ASSUME NEW base, NEW opt
    PROVE  LET turns == Evaluated(Pairs(base, opt))
               total == TokensOf(turns, "base")
           IN  /\ Scorecard(base, opt).pairs = Pairs(base, opt)
               /\ Scorecard(base, opt).parity = (\A i \in DOMAIN turns : InParity(turns[i]))
               /\ Scorecard(base, opt).passed = IF total > 0 THEN Reaches(Reduced(turns), total)
                                                ELSE FailUnder = 0
BY Zenon DEF Scorecard

LEMMA PairsAreRight == AbTypeOK /\ ScoreInv /\ CleanInv => PairsAreOfOneTurn
<1> SUFFICES ASSUME AbTypeOK, ScoreInv, CleanInv, faults = {},
                    \A p \in Passes : \E k \in DOMAIN loaded[p] : loaded[p][k].pass = p,
                    NEW i \in Scored, NEW k \in DOMAIN verdict[i].pairs
             PROVE  LET p == verdict[i].pairs[k] IN
                    /\ p.base.pass = "A" /\ p.opt.pass = "B" /\ p.base.turn = p.opt.turn
                    /\ p.base.handled = "baseline" /\ p.opt.handled = "optimized"
  BY DEF PairsAreOfOneTurn
<1>1. ASSUME NEW p \in Passes, NEW other \in Modes, other # Mode(p)
      PROVE  OfVariant(loaded[p], other) = Read(p)
  <2>1. loaded[p] \in Seq(PassRecords)
    BY DEF AbTypeOK
  <2>2. PICK j \in 1..Len(loaded[p]) : loaded[p][j].pass = p
    BY <2>1
  <2>3. loaded[p][j] \in OfMode(p)
    BY <2>1, <2>2 DEF CleanInv, OwnAreOfMode, OfMode
  <2>4. \E m \in DOMAIN Keep(loaded[p], OfMode(p)) : TRUE
    BY <2>1, <2>3, OfSetIsKept
  <2>5. Keep(loaded[p], OfMode(p)) # <<>>
    BY <2>4
  <2> QED BY <1>1, <2>1, <2>5, VariantIs DEF Read
<1>2. "A" \in Passes /\ "B" \in Passes /\ "optimized" \in Modes /\ "baseline" \in Modes
      /\ "optimized" # Mode("A") /\ "baseline" # Mode("B")
      /\ Mode("A") = "baseline" /\ Mode("B") = "optimized"
  BY DEF Passes, Modes, Mode
<1>3. OfVariant(loaded["A"], "optimized") = Read("A") /\ OfVariant(loaded["B"], "baseline") = Read("B")
  BY <1>1, <1>2
<1>4. verdict[i].pairs = Pairs(loaded["A"], loaded["B"])
  <2>1. verdict[i] = Scorecard(loaded["A"], loaded["B"])
    BY ScoredIs
  <2>2. Scorecard(loaded["A"], loaded["B"]).pairs = Pairs(loaded["A"], loaded["B"])
    BY Zenon, ScorecardIs
  <2> QED BY <2>1, <2>2, Zenon
<1>5. /\ k \in 1..Len(Read("A")) /\ k \in 1..Len(Read("B"))
      /\ verdict[i].pairs[k] = [base |-> Read("A")[k], opt |-> Read("B")[k]]
  BY <1>3, <1>4, ScoredIs, PairsAre
<1>6. Read("A")[k] = OwnRecord("A", k) /\ Read("B")[k] = OwnRecord("B", k)
  BY <1>2, <1>5 DEF CleanInv, ReadInOrder
<1> QED BY <1>2, <1>5, <1>6 DEF OwnRecord

\* The percentage of the sums is that of the sums of all rounds.
Percentage(b, o, r, n) ==
    /\ r * b > 0
    /\ 100 * Less(r * b, r * o) >= n * (r * b) <=> 100 * o <= (100 - n) * b \/ n = 0
    /\ 100 * Less(r * b, r * o) = n * (r * b) /\ n # 0 => 100 * o = (100 - n) * b
    /\ 100 * Less(r * b, r * o) \in Nat /\ n * (r * b) \in Nat

LEMMA PercentageIs ==
    ASSUME NEW b \in Nat \ {0}, NEW o \in Nat, NEW r \in Nat \ {0}, NEW n \in 0..100
    PROVE  Percentage(b, o, r, n)
<1> USE DEF Percentage
<1>1. r * b \in Nat /\ r * b > 0
  OBVIOUS
<1>2. CASE b <= o
  <2>1. r * b <= r * o /\ r * o \in Nat
    BY <1>2
  <2>2. Less(r * b, r * o) = 0
    BY <1>1, <2>1 DEF Less
  <2>3. n * (r * b) \in Nat /\ (n # 0 => n * (r * b) > 0)
    BY <1>1
  <2>4. n # 0 => (100 - n) * b < 100 * b
    OBVIOUS
  <2>5. n # 0 => ~(100 * o <= (100 - n) * b)
    <3>1. (100 - n) * b \in Int
      OBVIOUS
    <3> QED BY <1>2, <2>4, <3>1
  <2>6. 100 * 0 >= n * (r * b) <=> n = 0
    BY <2>3
  <2>7. 100 * 0 = n * (r * b) /\ n # 0 => FALSE
    BY <2>3
  <2> QED BY <1>1, <2>2, <2>3, <2>5, <2>6, <2>7
<1>3. CASE b > o
  <2> DEFINE c == b - o
  <2>1. c \in Nat /\ c > 0 /\ b = o + c
    BY <1>3
  <2>2. r * b - r * o = r * c /\ r * c \in Nat /\ r * c > 0
    BY <2>1
  <2>3. Less(r * b, r * o) = r * c
    <3>1. r * o \in Nat
      OBVIOUS
    <3> QED BY <1>1, <2>2, <3>1 DEF Less
  <2> HIDE DEF c
  <2> DEFINE x == 100 * c
             y == n * b
  <2>4. x \in Nat /\ y \in Nat /\ 100 * (r * c) = r * x /\ n * (r * b) = r * y
    BY <2>1
  <2>5. (r * x >= r * y <=> x >= y) /\ (r * x = r * y => x = y) /\ r * x \in Nat /\ r * y \in Nat
    <3> HIDE DEF x, y
    <3>1. x >= y => r * x >= r * y
      BY <2>4
    <3>2. ASSUME x < y PROVE r * x < r * y
      BY <2>4, <3>2
    <3>3. ASSUME y < x PROVE r * y < r * x
      BY <2>4, <3>3
    <3>4. r * x \in Nat /\ r * y \in Nat
      BY <2>4
    <3> QED BY <2>4, <3>1, <3>2, <3>3, <3>4
  <2>6. (100 - n) * b = 100 * b - y /\ 100 * b = 100 * o + x
    BY <2>1
  <2>7. (x >= y <=> 100 * o <= (100 - n) * b) /\ (x = y => 100 * o = (100 - n) * b)
    <3>1. 100 * o \in Nat /\ 100 * b \in Nat
      OBVIOUS
    <3> HIDE DEF x, y
    <3> QED BY <2>4, <2>6, <3>1
  <2>8. n = 0 => x >= y
    BY <2>1
  <2> HIDE DEF x, y
  <2> QED BY <1>1, <2>3, <2>4, <2>5, <2>7, <2>8
<1> QED BY <1>2, <1>3

\* What the threshold lets through, whichever way the rounding goes.
LEMMA ReachesIs ==
    ASSUME AbAssumption, NEW b \in Nat \ {0}, NEW o \in Nat
    PROVE  LET reached == Reaches(Less(Rounds * b, Rounds * o), Rounds * b) IN
           /\ Rounds * b > 0
           /\ reached => 100 * o <= (100 - FailUnder) * b \/ FailUnder = 0
           /\ 100 * o < (100 - FailUnder) * b \/ FailUnder = 0 => reached
<1> DEFINE x == 100 * Less(Rounds * b, Rounds * o)
           y == FailUnder * (Rounds * b)
           z == (100 - FailUnder) * b
<1>1. /\ Rounds * b > 0
      /\ x >= y <=> 100 * o <= z \/ FailUnder = 0
      /\ x = y /\ FailUnder # 0 => 100 * o = z
      /\ x \in Nat /\ y \in Nat
  <2>1. Rounds \in Nat \ {0} /\ FailUnder \in 0..100
    BY AbAssumption
  <2>2. Percentage(b, o, Rounds, FailUnder)
    BY <2>1, PercentageIs
  <2> QED BY <2>2 DEF Percentage
<1>2. Reaches(Less(Rounds * b, Rounds * o), Rounds * b) <=> x > y \/ (x = y /\ FailUnder \notin FallShort)
  BY DEF Reaches
<1>3. 0 \notin FallShort
  BY DEF FallShort
<1>4. z \in Int /\ 100 * o \in Nat
  BY AbAssumption
<1> HIDE DEF x, y, z
<1>5. x > y \/ x = y => 100 * o <= z \/ FailUnder = 0
  BY <1>1
<1>6. ASSUME 100 * o < z \/ FailUnder = 0
      PROVE  x > y \/ (x = y /\ FailUnder \notin FallShort)
  <2>1. x >= y
    BY <1>1, <1>4, <1>6
  <2>2. x = y => FailUnder = 0
    BY <1>1, <1>4, <1>6
  <2> QED BY <1>1, <1>3, <2>1, <2>2
<1> QED BY <1>1, <1>2, <1>5, <1>6 DEF z

LEMMA WholeIsJudged == AbTypeOK /\ ScoreInv => GateIsOfTheWhole
<1> SUFFICES ASSUME AbTypeOK, ScoreInv, NEW i \in Scored
             PROVE  LET pairs == verdict[i].pairs
                        fine == \A k \in DOMAIN pairs : pairs[k].base.ok /\ pairs[k].opt.ok
                        inStep == \A k \in DOMAIN pairs : pairs[k].base.turn = pairs[k].opt.turn
                    IN  /\ verdict[i].parity => fine
                        /\ fine /\ inStep => verdict[i].parity
                        /\ verdict[i].passed => TokensEnough(pairs) \/ FailUnder = 0
                        /\ TokensLess(pairs) \/ FailUnder = 0 => verdict[i].passed
  BY Zenon DEF GateIsOfTheWhole
<1> DEFINE pairs == Pairs(loaded["A"], loaded["B"])
           turns == Evaluated(pairs)
           b == TokensOf(pairs, "base")
           o == TokensOf(pairs, "opt")
<1>1. pairs \in Seq(PairSet) /\ Len(pairs) \in Nat \ {0}
  BY ScoredIs, PairsAre
<1>2. /\ verdict[i].pairs = pairs
      /\ verdict[i].parity = (\A k \in DOMAIN turns : InParity(turns[k]))
      /\ verdict[i].passed = IF TokensOf(turns, "base") > 0
                             THEN Reaches(Reduced(turns), TokensOf(turns, "base"))
                             ELSE FailUnder = 0
  <2>1. verdict[i] = Scorecard(loaded["A"], loaded["B"])
    BY ScoredIs
  <2> DEFINE card == Scorecard(loaded["A"], loaded["B"])
  <2>2. /\ card.pairs = pairs
        /\ card.parity = (\A k \in DOMAIN turns : InParity(turns[k]))
        /\ card.passed = IF TokensOf(turns, "base") > 0
                         THEN Reaches(Reduced(turns), TokensOf(turns, "base"))
                         ELSE FailUnder = 0
    BY ScorecardIs, Zenon
  <2> HIDE DEF card, pairs, turns
  <2>3. verdict[i] = card
    BY <2>1 DEF card
  <2> QED BY <2>2, <2>3, Zenon
<1> HIDE DEF pairs
<1>3. /\ \A k \in DOMAIN turns : \E j \in DOMAIN pairs : turns[k] = pairs[j]
      /\ \A j \in DOMAIN pairs : \E k \in DOMAIN turns : turns[k] = pairs[j]
      /\ TokensOf(turns, "base") = Rounds * b /\ TokensOf(turns, "opt") = Rounds * o
  BY <1>1, RoundsAre DEF Sides
<1> HIDE DEF turns
<1>4. (\A k \in DOMAIN turns : InParity(turns[k])) <=> (\A k \in DOMAIN pairs : InParity(pairs[k]))
  BY <1>3, Zenon
<1>5. ASSUME NEW k \in DOMAIN pairs
      PROVE  /\ InParity(pairs[k]) => pairs[k].base.ok /\ pairs[k].opt.ok
             /\ pairs[k].base.ok /\ pairs[k].opt.ok /\ pairs[k].base.turn = pairs[k].opt.turn
                => InParity(pairs[k])
  BY Zenon DEF InParity
<1>6. b \in Nat \ {0} /\ o \in Nat
  <2>1. b \in Nat /\ o \in Nat /\ Len(pairs) <= b
    BY <1>1, TokensConcat DEF Sides
  <2> HIDE DEF b
  <2> QED BY <1>1, <2>1
<1>7. Reduced(turns) = Less(Rounds * b, Rounds * o)
  BY <1>3 DEF Reduced
<1> HIDE DEF b, o
<1>8. LET reached == Reaches(Less(Rounds * b, Rounds * o), Rounds * b) IN
      /\ Rounds * b > 0
      /\ reached => 100 * o <= (100 - FailUnder) * b \/ FailUnder = 0
      /\ 100 * o < (100 - FailUnder) * b \/ FailUnder = 0 => reached
  BY <1>6, AbAssumption, ReachesIs
<1>9. verdict[i].passed <=> Reaches(Less(Rounds * b, Rounds * o), Rounds * b)
  <2>1. TokensOf(turns, "base") > 0
    BY <1>3, <1>8
  <2>2. verdict[i].passed = Reaches(Reduced(turns), TokensOf(turns, "base"))
    BY <1>2, <2>1, Zenon
  <2>3. verdict[i].passed = Reaches(Less(Rounds * b, Rounds * o), Rounds * b)
    BY <1>3, <1>7, <2>2, Zenon
  <2> QED BY <2>3, Zenon
<1>10. /\ TokensEnough(pairs) <=> 100 * o <= (100 - FailUnder) * b
       /\ TokensLess(pairs) <=> 100 * o < (100 - FailUnder) * b
  BY DEF TokensEnough, TokensLess, b, o
<1>11. /\ verdict[i].passed => TokensEnough(pairs) \/ FailUnder = 0
       /\ TokensLess(pairs) \/ FailUnder = 0 => verdict[i].passed
  BY <1>8, <1>9, <1>10, Zenon
<1>12. verdict[i].parity <=> \A k \in DOMAIN pairs : InParity(pairs[k])
  BY <1>2, <1>4, Zenon
<1> QED BY <1>2, <1>5, <1>11, <1>12, Zenon

LEMMA SwitchedIsRight == AbTypeOK /\ ScoreInv /\ SwitchedInv => UnswitchedPassIsNotScored
<1> SUFFICES ASSUME AbTypeOK, ScoreInv, SwitchedInv, NEW i \in Scored PROVE switched = Passes
  BY DEF UnswitchedPassIsNotScored
<1>1. loaded["A"] # <<>> /\ loaded["B"] # <<>>
  BY ScoredIs
<1> QED BY <1>1 DEF SwitchedInv, AbTypeOK, Passes

LEMMA AbStarts == AbInit => AbInv
<1> SUFFICES ASSUME AbInit PROVE AbInv
  OBVIOUS
<1>1. AbTypeOK
  BY AbTypeStarts
<1>2. ScoreInv /\ SwitchedInv
  BY DEF AbInit, ScoreInv, SwitchedInv, Passes
<1>3. ASSUME NEW p \in Passes
      PROVE  Len(WrittenOf(p)) = 0 /\ Len(Unwritten(p)) = 0 /\ Len(Read(p)) = 0
  <2>1. logs[p] = <<>> /\ loaded[p] = <<>> /\ queue = <<>> /\ Len(<<>>) = 0
    BY DEF AbInit
  <2> QED BY <2>1, KeepEmpty DEF WrittenOf, Unwritten, Read
<1>4. CleanInv
  <2>1. Undisturbed
    BY DEF AbInit, Undisturbed
  <2>2. OwnAreOfMode
    <3>1. Len(queue) = 0 /\ \A p \in Passes : Len(logs[p]) = 0 /\ Len(loaded[p]) = 0
      BY DEF AbInit
    <3> QED BY <3>1 DEF OwnAreOfMode
  <2>3. \A p \in Passes : AnsweredInOrder(p) /\ ReadInOrder(p)
    BY <1>3 DEF AnsweredInOrder, ReadInOrder, AbInit
  <2> QED BY <2>1, <2>2, <2>3 DEF CleanInv
<1> QED BY <1>1, <1>2, <1>4 DEF AbInv

LEMMA AbStep == AbInv /\ [AbNext]_abVars => AbInv'
BY AbTypeStep, ScoreStep, SwitchedStep, CleanStep DEF AbInv

(* A verdict of the workload test is about the two passes of one workload in *)
(* their two modes, turn by turn, as far as the code lets it be, and about   *)
(* all the turns it paired (ab_test.py:72-122, evaluation.py:638-675).       *)
THEOREM VerdictIsOfTheWorkload == AbSpec => []ScoredPassesAreComparable
<1>1. AbInv => ScoredPassesAreComparable
  BY PairsAreRight, WholeIsJudged, SwitchedIsRight DEF AbInv, ScoredPassesAreComparable
<1> QED BY <1>1, AbStarts, AbStep, PTL DEF AbSpec
=============================================================================
