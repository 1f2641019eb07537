----------------------------- MODULE ProxyAddon -----------------------------
(***************************************************************************)
(* The mitmproxy addon (proxy/addon.py and proxy/steps): the life of the   *)
(* flows of several agents through its hooks, the switch between baseline  *)
(* (passive) and optimized (active) mode, the live counters, the response  *)
(* cache and the wire records.                                             *)
(*                                                                         *)
(* mitmproxy runs every hook on one event loop, so a hook is one step; the *)
(* hooks of different flows interleave, and a mode switch may fall between *)
(* two hooks of a flow.  The cache is the set of what was stored (expiry   *)
(* and sweeps are in HybridCache) and the wire log the sequence of records *)
(* handed to it (its threads are in WireLog).                              *)
(***************************************************************************)
EXTENDS Naturals, Sequences, FiniteSets

CONSTANTS
    Flows,         \* flow ids
    Prompts,       \* what agents ask, up to what the cache's matching ignores
    Wordless,      \* prompts that only an exact match can find
    Requests,      \* the requests agents send
    Dirs,          \* wire log directories
    PassiveEnv,    \* HOLON_PASSIVE_MONITORING of the proxy
    Faults,        \* which fallible steps may raise
    MaxSwitches    \* bound on mode switches

Families == {"openai", "anthropic", "gemini"}
Modes == {"baseline", "optimized"}

Request == [
    family : Families \cup {"unknown"},     \* what detect_provider says
    local  : BOOLEAN,                       \* bound for a host-local engine
    stream : BOOLEAN,
    header : Modes \cup {"none"},           \* X-Holon-Mode or X-Holon-Passive
    json   : BOOLEAN,                       \* the body parses
    prompt : Prompts]

ASSUME ConstantsAssumption ==
    /\ Requests \subseteq Request
    /\ Wordless \subseteq Prompts
    /\ PassiveEnv \in BOOLEAN
    /\ Faults \subseteq {"adapt", "clean", "lookup", "account", "put", "dump"}
    /\ MaxSwitches \in Nat

VARIABLES
    flow,           \* each flow
    defaultPassive, \* addon.default_passive
    wireDir,        \* addon.wire_log_dir
    hits,           \* addon.cache_hits
    received,       \* addon.total_requests
    metrics,        \* CumulativeMetrics: requests, hits and turns
    cache,          \* stored responses
    wire,           \* records handed to the wire log
    switches

counters == <<hits, received, metrics>>
vars == <<flow, defaultPassive, wireDir, counters, cache, wire, switches>>

\* req_data: the cleaned payload, the cleaned payload without cache_control,
\* the payload as it arrived, or not set.
Forms == {"clean", "stripped", "raw", "unset"}

Entry == [prov : Families, prompt : Prompts, form : Forms, format : Families, from : Flows]
Record == [flow : Flows, action : {"HIT", "MISS"}, mode : Modes, dir : Dirs]

\* handling and dir tell what the request hook did and where the flow's record
\* was due then; kept, whether its reply was stored; served, the entry of a hit.
NewFlow(q) == [
    stage |-> "new", request |-> q, bridged |-> "no", form |-> "unset",
    cached |-> FALSE, sse |-> FALSE, handling |-> "none", dir |-> wireDir,
    kept |-> FALSE, served |-> {}]

Init ==
    /\ defaultPassive = PassiveEnv
    /\ wireDir \in Dirs
    /\ flow \in [Flows -> {NewFlow(q) : q \in Requests}]
    /\ hits = 0
    /\ received = 0
    /\ metrics = [requests |-> 0, hits |-> 0, turns |-> 0]
    /\ cache = {}
    /\ wire = <<>>
    /\ switches = 0

\* is_flow_passive: the header decides, else the addon's default.  (An operator
\* that says Mutant is the one after it with a mistake, which the project's runs
\* must notice.)
MutantPassive(q) == defaultPassive
Passive(q) == q.header = "baseline" \/ (q.header = "none" /\ defaultPassive)

\* The wire record of a flow takes its mode and directory when it is built.
Dump(f, action) ==
    \/ wire' = Append(wire, [flow |-> f, action |-> action, dir |-> wireDir,
           mode |-> IF Passive(flow[f].request) THEN "baseline" ELSE "optimized"])
    \/ "dump" \in Faults /\ UNCHANGED wire

-----------------------------------------------------------------------------
(* The request hook                                                        *)

Count == received' = received + 1 /\ metrics' = [metrics EXCEPT !.requests = @ + 1]

\* adapt_local_protocol translates Gemini for a local engine; the flow is marked
\* as bridged before the translation, which may raise.
Bridged(q, how) == IF q.family = "gemini" /\ q.local THEN how ELSE "no"

\* Forward the flow, having set the fields in `fields'.
Forward(f, handling, form, bridged) ==
    flow' = [flow EXCEPT ![f].stage = "sent", ![f].handling = handling,
                         ![f].form = form, ![f].bridged = bridged, ![f].dir = wireDir]

\* Traffic of no LLM provider is not counted and not touched.
Bypass(f) ==
    /\ flow[f].stage = "new"
    /\ flow[f].request.family = "unknown"
    /\ Forward(f, "none", "unset", "no")
    /\ UNCHANGED <<defaultPassive, wireDir, counters, cache, wire, switches>>

\* A body that is not JSON: the request is counted and forwarded.
Unparsed(f) ==
    /\ flow[f].stage = "new"
    /\ flow[f].request.family \in Families /\ ~flow[f].request.json
    /\ Count
    /\ Forward(f, "none", "unset", "no")
    /\ UNCHANGED <<defaultPassive, wireDir, hits, cache, wire, switches>>

Parsed(f) ==
    /\ flow[f].stage = "new"
    /\ flow[f].request.family \in Families /\ flow[f].request.json
    /\ Count

\* The adaptation or the cleaning raises: the request goes out without req_data.
HookFails(f) ==
    /\ Parsed(f)
    /\ \/ /\ "adapt" \in Faults /\ flow[f].request.local /\ flow[f].request.family # "openai"
          /\ Forward(f, "none", "unset", Bridged(flow[f].request, "marked"))
       \/ /\ "clean" \in Faults /\ ~Passive(flow[f].request)
          /\ Forward(f, "none", "unset", Bridged(flow[f].request, "translated"))
    /\ UNCHANGED <<defaultPassive, wireDir, hits, cache, wire, switches>>

\* Baseline: the payload is forwarded as it came, without a lookup.
PassThrough(f) ==
    /\ Parsed(f)
    /\ Passive(flow[f].request)
    /\ Forward(f, "baseline", "raw", Bridged(flow[f].request, "translated"))
    /\ UNCHANGED <<defaultPassive, wireDir, hits, cache, wire, switches>>

\* A lookup finds the payload as cleaned, or by its words, under the provider
\* the client talks to.
MutantMatches(q) == {e \in cache : e.prov = q.family /\ e.prompt = q.prompt /\ e.form = "clean"}
MutantAnyMatches(q) == {e \in cache : e.prompt = q.prompt /\ q.prompt \notin Wordless}
Matches(q) ==
    {e \in cache : /\ e.prov = q.family
                   /\ e.prompt = q.prompt
                   /\ e.form = "clean" \/ q.prompt \notin Wordless}

\* cache_control is stripped for a local Anthropic engine after the lookup.
CleanForm(q) == IF q.family = "anthropic" /\ q.local THEN "stripped" ELSE "clean"

\* Optimized and not in the cache, not looked up because it streams, or the
\* lookup raised.
Miss(f) ==
    /\ Parsed(f)
    /\ ~Passive(flow[f].request)
    /\ \/ Matches(flow[f].request) = {}
       \/ flow[f].request.stream
       \/ "lookup" \in Faults
    /\ Forward(f, "optimized", CleanForm(flow[f].request), Bridged(flow[f].request, "translated"))
    /\ UNCHANGED <<defaultPassive, wireDir, hits, cache, wire, switches>>

\* Optimized and served from the cache: the flow never goes upstream.
Hit(f) ==
    /\ flow[f].stage = "new"
    /\ flow[f].request.family \in Families /\ flow[f].request.json
    /\ ~Passive(flow[f].request) /\ ~flow[f].request.stream
    /\ \E e \in Matches(flow[f].request) :
          flow' = [flow EXCEPT ![f].stage = "sent", ![f].handling = "optimized",
                       ![f].form = CleanForm(flow[f].request), ![f].dir = wireDir,
                       ![f].bridged = Bridged(flow[f].request, "translated"),
                       ![f].cached = TRUE, ![f].served = {e}]
    /\ received' = received + 1
    /\ hits' = hits + 1
    /\ metrics' = [requests |-> metrics.requests + 1,
                   hits |-> metrics.hits + 1, turns |-> metrics.turns + 1]
    /\ Dump(f, "HIT")
    /\ UNCHANGED <<defaultPassive, wireDir, cache, switches>>

-----------------------------------------------------------------------------
(* The response hooks.  mitmproxy runs both for a flow the addon answered  *)
(* itself, too.                                                            *)

\* The content type of a reply: serve_cached answers with JSON, an engine with
\* JSON or an event stream, whatever was asked for.
ContentTypes(f) == IF flow[f].cached THEN {"json"} ELSE {"json", "event-stream"}

\* responseheaders taps an event stream; of any other reply it takes the time.
ResponseHeaders(f) ==
    /\ flow[f].stage = "sent" /\ ~flow[f].sse
    /\ flow[f].request.family # "unknown"
    /\ "event-stream" \in ContentTypes(f)
    /\ flow' = [flow EXCEPT ![f].sse = TRUE]
    /\ UNCHANGED <<defaultPassive, wireDir, counters, cache, wire, switches>>

\* Nothing to do: no LLM flow, or one served from the cache.
MutantIgnored(f) == flow[f].request.family = "unknown"
Ignored(f) == flow[f].request.family = "unknown" \/ flow[f].cached

IgnoreResponse(f) ==
    /\ flow[f].stage = "sent"
    /\ Ignored(f)
    /\ flow' = [flow EXCEPT ![f].stage = "done"]
    /\ UNCHANGED <<defaultPassive, wireDir, counters, cache, wire, switches>>

Answered(f) == flow[f].stage = "sent" /\ ~Ignored(f)

MutantTurn == UNCHANGED metrics
Turn == metrics' = [metrics EXCEPT !.turns = @ + 1]

\* What store_response puts: under the provider of the request that went out,
\* which for a bridged flow is OpenAI, the reply translated back.
Stored(f) == [
    prov   |-> IF flow[f].bridged = "translated" THEN "openai"
               ELSE flow[f].request.family,
    prompt |-> flow[f].request.prompt,
    form   |-> IF flow[f].form = "unset" THEN "raw" ELSE flow[f].form,
    format |-> flow[f].request.family,
    from   |-> f]

\* store_response: active mode, now; a whole JSON reply to a request that does
\* not stream, and no API error.
MutantStores(f, reply) == ~Passive(flow[f].request) /\ reply = "completion"
Stores(f, reply) ==
    /\ ~Passive(flow[f].request)
    /\ ~flow[f].sse
    /\ ~flow[f].request.stream
    /\ reply = "completion"

Finish(f, kept) == flow' = [flow EXCEPT ![f].stage = "done", ![f].kept = kept]

Store(f, reply) ==
    \/ Stores(f, reply) /\ cache' = cache \cup {Stored(f)} /\ Finish(f, TRUE)
    \/ Stores(f, reply) /\ "put" \in Faults /\ UNCHANGED cache /\ Finish(f, FALSE)
    \/ ~Stores(f, reply) /\ UNCHANGED cache /\ Finish(f, FALSE)

\* Status 200 with a JSON body, or any stream: store, record, count.
Succeed(f, reply) ==
    /\ Answered(f)
    /\ flow[f].request.json
    /\ Store(f, reply)
    /\ Dump(f, "MISS")
    /\ Turn
    /\ UNCHANGED <<defaultPassive, wireDir, hits, received, switches>>

\* Status 200 whose pipeline stops early: an empty or unparseable body on either
\* side, or a step that raises, before or after the reply was stored.
Abandon(f) ==
    /\ Answered(f)
    /\ \/ UNCHANGED cache /\ Finish(f, FALSE)
       \/ "account" \in Faults /\ flow[f].request.json /\ Store(f, "completion")
    /\ UNCHANGED <<defaultPassive, wireDir, counters, wire, switches>>

\* Any other status: record and count, store nothing.
Refused(f) ==
    /\ Answered(f)
    /\ Finish(f, FALSE)
    /\ Dump(f, "MISS")
    /\ Turn
    /\ UNCHANGED <<defaultPassive, wireDir, hits, received, cache, switches>>

\* The connection breaks: mitmproxy calls no further hook of the addon.
Break(f) ==
    /\ flow[f].stage = "sent"
    /\ flow' = [flow EXCEPT ![f].stage = "broken"]
    /\ UNCHANGED <<defaultPassive, wireDir, counters, cache, wire, switches>>

-----------------------------------------------------------------------------
\* POST /holon/api/mode, answered inside the request hook of a flow of its own.
SwitchMode(mode, dir) ==
    /\ switches < MaxSwitches
    /\ switches' = switches + 1
    /\ defaultPassive' = (mode = "baseline")
    /\ wireDir' = dir
    /\ UNCHANGED <<flow, counters, cache, wire>>

RequestHook(f) == Bypass(f) \/ Unparsed(f) \/ HookFails(f) \/ PassThrough(f) \/ Miss(f) \/ Hit(f)

ResponseHook(f) ==
    \/ IgnoreResponse(f)
    \/ \E reply \in {"completion", "error"} : Succeed(f, reply)
    \/ Abandon(f)
    \/ Refused(f)

Next ==
    \/ \E f \in Flows : RequestHook(f) \/ ResponseHeaders(f) \/ ResponseHook(f) \/ Break(f)
    \/ \E mode \in Modes, dir \in Dirs : SwitchMode(mode, dir)

Spec == Init /\ [][Next]_vars

-----------------------------------------------------------------------------
Flow == [
    stage : {"new", "sent", "done", "broken"}, request : Requests,
    bridged : {"no", "marked", "translated"}, form : Forms, cached : BOOLEAN,
    sse : BOOLEAN, handling : Modes \cup {"none"}, dir : Dirs, kept : BOOLEAN,
    served : SUBSET Entry]

TypeOK ==
    /\ flow \in [Flows -> Flow]
    /\ defaultPassive \in BOOLEAN
    /\ wireDir \in Dirs
    /\ hits \in Nat /\ received \in Nat
    /\ metrics \in [requests : Nat, hits : Nat, turns : Nat]
    /\ cache \subseteq Entry
    /\ wire \in Seq(Record)
    /\ switches \in 0..MaxSwitches

\* What holds of a flow at each stage: a flow nobody has handled carries
\* nothing, a served one neither streams nor fills the cache, and only a
\* finished one has filled it.
FlowInv ==
    \A f \in Flows :
        /\ flow[f].stage = "new" => ~flow[f].cached /\ ~flow[f].sse
        /\ flow[f].kept => flow[f].stage = "done" /\ ~flow[f].sse /\ ~flow[f].request.stream
        /\ flow[f].cached =>
              /\ flow[f].request.family # "unknown"
              /\ ~flow[f].kept /\ ~flow[f].sse /\ ~flow[f].request.stream

\* A record belongs to a flow that was served or is over.
WireInv ==
    \A i \in DOMAIN wire :
        flow[wire[i].flow].stage # "new" /\ (flow[wire[i].flow].cached \/ flow[wire[i].flow].stage = "done")

\* What is stored is the reply to the flow that stored it.
EntryInv == \A e \in cache : flow[e.from].kept /\ e.prompt = flow[e.from].request.prompt

FlowsInv == TypeOK /\ FlowInv /\ WireInv /\ EntryInv

\* What the counters say of the log, whichever step fails.
CountersInv ==
    /\ metrics.requests = received /\ metrics.hits = hits
    /\ metrics.turns <= received
    /\ Len(wire) <= metrics.turns
    /\ Cardinality({i \in DOMAIN wire : wire[i].action = "HIT"}) <= hits

(* A hook that fails half-way leaves flows, records, entries and counters   *)
(* consistent: a failed dump or step may cost a record or a turn, but no    *)
(* flow is recorded that was not counted, none is counted that was not      *)
(* received, nothing is stored but by a flow that is over, and the hit rate *)
(* stays within 1 (base.py:42-44 and 148-158, addon.py:340-378).            *)
AddonInv == FlowsInv /\ CountersInv

(* A flow leaves at most one wire record, a HIT exactly if it was served    *)
(* from the cache, although mitmproxy runs the response hook for served     *)
(* flows too (addon.py:369-374, base.py:96-99).                             *)
OneRecordPerFlow ==
    /\ \A i, j \in DOMAIN wire : wire[i].flow = wire[j].flow => i = j
    /\ \A i \in DOMAIN wire : (wire[i].action = "HIT") <=> flow[wire[i].flow].cached

(* The live counters and the wire log tell the same story: one turn per     *)
(* record, one hit per HIT, and never more turns than requests, so that the *)
(* hit rate stays within 1 (metrics.py:46-69, steps/base.py:42-44).         *)
LogAgreesWithMetrics ==
    /\ metrics.turns = Len(wire)
    /\ metrics.hits = Cardinality({i \in DOMAIN wire : wire[i].action = "HIT"})
    /\ metrics.hits = hits /\ metrics.requests = received
    /\ metrics.turns <= received

(* An agent that pins a flow to baseline by its header keeps it out of the  *)
(* cache and in the baseline log, whatever mode switches happen meanwhile   *)
(* (wire_log.py:61-78).                                                     *)
PinnedBaselineIsUntouched ==
    /\ \A f \in Flows : flow[f].request.header = "baseline" => ~flow[f].cached /\ ~flow[f].kept
    /\ \A i \in DOMAIN wire :
          flow[wire[i].flow].request.header = "baseline" => wire[i].mode = "baseline"

(* Streams neither fill the cache nor are served from it, however the reply *)
(* to a request that did not ask for one arrives (apply_cache.py:59-66,     *)
(* addon.py:154-160 and 205-210); what is stored came from upstream.        *)
StreamsBypassCache ==
    /\ \A e \in cache : ~flow[e.from].sse /\ ~flow[e.from].request.stream /\ ~flow[e.from].cached
    /\ \A f \in Flows : flow[f].cached => ~flow[f].request.stream

Same(f, g) ==
    /\ flow[f].request.family = flow[g].request.family
    /\ flow[f].request.local = flow[g].request.local
    /\ flow[f].request.prompt = flow[g].request.prompt

(* A request that repeats one whose reply was stored is short-circuited     *)
(* (README.md:18-19, docs/methods/local_cache_layer.md:9-16).               *)
RepeatIsServed ==
    [][\A f, g \in Flows :
         /\ flow[f].stage = "new" /\ flow'[f].handling = "optimized"
         /\ ~flow[f].request.stream
         /\ flow[g].kept /\ flow[g].handling = "optimized" /\ Same(f, g)
         => flow'[f].cached]_vars

(* "The returned completion must be identical to the authentic provider     *)
(* output" (docs/methods/local_cache_layer.md:205): what a hit serves is in *)
(* the wire format of the provider the client talks to.                     *)
HitIsAuthentic ==
    \A f \in Flows : \A e \in flow[f].served : e.format = flow[f].request.family

(* "Pass 1 runs in passive monitoring mode [...] where all LLM requests are *)
(* forwarded unmodified" (docs/ab_testing_guide.md:54): a record is filed   *)
(* under the mode and directory its request was handled in.                 *)
RecordBelongsToVariant ==
    \A i \in DOMAIN wire :
        LET f == flow[wire[i].flow]
        IN  f.handling # "none" => wire[i].mode = f.handling /\ wire[i].dir = f.dir
=============================================================================
