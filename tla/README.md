# holon-coherence, specified in TLA+

holon-coherence is a mitmproxy addon, with the command line around it, that sits
between coding agents and LLM providers: it cleans request payloads, serves
repeated requests from a local SQLite cache, translates between provider formats
for host-local engines, and keeps a wire log from which an A/B comparison of a
*baseline* (passive) and an *optimized* (active) run is computed.

This directory models the parts of it in which several actors meet - the hooks of
interleaved flows, the background wire log thread, the cache file that several
proxies share, the commands that start, join and recreate one proxy container, the
processes that make one CA - and the parts that decide what a client, a model server
or a reader of the figures gets to see: the context cleaner, the two directions of
the Gemini bridge, the routing of host-local endpoints, the figures, the A/B
verdict and the CI timing gate. Paths below are relative to `src/holon_coherence/`
of the repository unless they start with `docs/`, `scripts/` or `README.md`.

## Inventory

| component | state | operations | interacts with | what is hard |
|---|---|---|---|---|
| wire log (`proxy/wire_log.py`) | executor, pending futures, one lock; turn files and `transactions.jsonl` | `dump_wire_transaction`, `flush_wire_logs`, `shutdown_wire_logs`, the worker's write and done-callback | called by the addon; read by `metrics`, `ab-test` | two threads and a lock, a join, flush timeouts, failing file operations, kills |
| response cache (`hybrid_cache.py`) | one table in `~/.holon/cache/llm_cache.db`; per process a sweep gate | `get`, `put` with `_prune_expired`, `clear` | called by the addon of each proxy container on the same file | statements of several processes interleave; two clocks; batches |
| addon and pipelines (`proxy/addon.py`, `proxy/steps`, `proxy/metrics.py`) | default mode, log directory, counters; attributes on each flow | `request`, `responseheaders`, `response`, `done`, `POST /holon/api/mode` | cache, wire log, translation, cleaner | hooks of flows interleave; mode switches between two hooks of a flow; steps that raise |
| SSE tap and translation (`proxy/steps/sse_tap.py`, `providers/translation.py`) | per-flow chunk buffer and tool-call buffer | per-chunk wrapper | responseheaders and response hooks | events split over chunks, streams that end early, the buffer cap |
| context cleaner (`payload_cleaner.py`, `providers/*.py`) | none | deduplicate, summarise, merge, inject cache breakpoints | request hook | boundaries of summarisation, tool call/result pairing |
| host-local routing (`host_local.py`, `server_connect`) | cached gateway address | decide and rewrite a dial address, prune NO_PROXY | addon, `start`, agents | equivalence of authorities, self-loops |
| proxy lifecycle (`commands/start.py`, `agents.py`, `docker_ops.py`) | containers, ports | ensure running, recreate, stop | several agent sessions | check-then-act on ports and container names, ephemeral sessions sharing a proxy |
| CA and trust bundle (`ca_generator.py`, `commands/ca.py`) | certificate files | generate, reuse, merge | start, agents | generators interleaving, partial writes, freshness by mtime |
| metrics (`metrics/`, `metrics_math.py`, `proxy/timing.py`) | live sums; the log offline | record, aggregate | addon, log | live and offline figures agree, missing stamps |
| A/B testing (`ab_testing/`, `commands/ab_test.py`) | two logs, a scorecard | run passes, evaluate | mode switch, log | passes overlapping, unpaired turns |
| CI timing gate (`scripts/ci_timing_gate.py` at the repository root) | none | compare durations with budgets | CI | thresholds |
| dashboard, scrubbing, CLI glue, orchestration helpers | none that interacts | – | – | – |

What makes each of them correct:

* **wire log** – every accepted record is settled once and in order; a flush waits
  for everything dumped before it; the pending set does not leak; the index never
  names a file that is not there; shutdown returns.
* **cache** – a reply is fresh and fits the request, whatever other processes do
  between the statements of the lookup; a sweep removes all and only what has
  expired, ends, and runs at most once per interval; a request gets what the
  provider would have answered to it.
* **addon** – one record per flow; counters and log agree; the cache holds complete
  replies of the flows it was told to keep; a repeat is served; a hit is what the
  client's provider would have said; baseline flows are left alone.
* **bridge** – answers find their calls whatever the ids; nothing is lost, repeated or
  mixed however the network cuts the stream; what is accounted is what was sent.
* **cleaner** – calls keep their results, references resolve, recent turns are kept
  and the newest is verbatim, the provider's limit of cache marks is kept.
* **routing** – a declared endpoint is reached through the proxy, by each spelling that
  its declaration covers; nothing is redirected without a declaration; the proxy never
  dials itself.
* **lifecycle** – a session is on its port with its endpoint intercepted, a recreation
  loses nobody's endpoint while docker answers, a failed start leaves nothing, a teardown
  removes only the session's own container, every command ends.
* **CA** – certificate, key and copies are of one pair, wherever earlier processes
  died; the bundle an agent trusts is whole, and current while file times follow the
  writes.
* **metrics, A/B, gate** – the log yields the figures the proxies measured; compared
  turns are the same turn in the two modes while nothing goes wrong around the test; a
  regression is stopped, an ordinary run
  is not.

`PROJECT.json` lists the hazards at their lines with the properties that watch
them. A note says what a property is conditional on, where the code does not do
more.

## Modules

| module | what it is |
|---|---|
| `WireJournal` | abstract: an ordered journal with accept, refuse, settle, crash |
| `WireLog` | the wire log, thread step by thread step; implements `WireJournal` |
| `WireLogInv`, `WireLogProofs` | its inductive invariant, and the proofs |
| `HybridCache`, `HybridCacheProofs` | the cache, statement by statement, and the proofs |
| `ProxyAddon`, `ProxyAddonProofs` | the life of flows through the addon's hooks, and the proofs |
| `Filter`, `SequenceFacts` | selection from a sequence as a recursive function; induction over prefixes, and facts about sequences |
| `AgentLoop` | an agent's conversation against the cache, the likeness of requests worked out from the messages |
| `ProxyLifecycle` | `run-agent`, `start`, `stop` and the one container, call by call |
| `CaStore` | CA files, their copies and the merged bundle, write by write |
| `HostLocal` | declared endpoints, NO_PROXY, the dial addresses of the proxy |
| `ContextCleaner` | the cleaner of the three formats on a growing conversation |
| `GeminiRequest`, `SseBridge` | the bridge: requests out, streams back |
| `Telemetry` | stamps, rates, live counters and the offline reader of the log |
| `AbWorkload` | the workload A/B test: two passes, two logs, one verdict |
| `TimingGate` | the CI timing gate and the artefacts main leaves |
| `SessionProofs` | the proofs about `ProxyLifecycle` and `CaStore` |
| `RequestProofs` | the proofs about `HostLocal` and `ContextCleaner` |
| `BridgeProofs` | the proofs about `GeminiRequest` and `SseBridge` |
| `VerdictProofs` | the proofs about `Telemetry`, `AbWorkload` and `TimingGate` |
| `MC*` | instances for TLC: request sets, symmetry; `MCSessions` puts the lifecycle and the CA side by side, `MCTransforms` the seven parts that share no state |

Some helper operators are preceded by one named `Mutant...`: the same operator
with one plausible mistake. They are used by nothing; replacing the operator by
its mutant must make TLC report the property `PROJECT.json` pairs it with.

### WireLog

A step is what a thread does between two points where another can run. The
dumping side is `GetExecutor` (under the lock), `Submit` (outside it, and refused
with RuntimeError if the executor was shut meanwhile, which
`_dump_flow_transaction` swallows), `Register` (lock) and `Hook`
(`add_done_callback`, which runs the callback in the caller if the future is done
already). `Flush` copies the pending set under the lock and then either
`FlushReturns` or `FlushTimesOut`; `shutdown` is a flush followed by `Close`, which
keeps the lock, and `Join`. The worker is `TakeWork`, `WriteTmp`, `Publish`
(`os.replace`), `AppendLine`, `SetResult` and `DiscardPending`; `WriteFails` is the
exception path of each file operation, with the torn line a failed append may
leave. `Crash` kills the process at any point and a new one starts with empty
module state. The work queue and the future's state transitions belong to
`concurrent.futures` and are modelled from how the module uses them.

In production only mitmproxy's event loop calls the module; the runs use two
callers all the same, since the module has a lock for them and `atexit` calls
`shutdown_wire_logs` as well.

The refinement `JournalSpec` maps the queue and the record being written to the
journal's waiting line and the whole lines of `transactions.jsonl` to the journal;
a torn line counts as dropped.

### HybridCache

A key is a normalised payload together with its provider; the similarity score is
a relation between keys (`Similar`), its system prompt a function. A lookup is the
exact SELECT, then either the hit-count UPDATE that precedes serving it, or the
candidate SELECT and the scan, which backfills legacy rows and commits in one
transaction. A put stamps `created_at`, runs the sweep if the monotonic gate is
due, and upserts. The sweep is SELECT and DELETE, committed batch by batch.
`Fail` is any statement raising; `Tick` and `StepWallClock` are the environment's.
SQLite's WAL mode makes each statement a step on its own. The requests of the instances
are `plan` and `ask`, alike; `persona`, like them under another
system prompt; `mirror`, like them for another provider; and `blank`, without words and like
none of them.

### ProxyAddon

mitmproxy runs all hooks on one event loop, so a hook is one step, and its steps
(pipelines in `proxy/steps/__init__.py`) are inside it: `Bypass`, `Unparsed`, `HookFails`,
`PassThrough`, `Miss` and `Hit` are the ways through the request hook; `IgnoreResponse`,
`Succeed`, `Abandon` and `Refused` those through the response hook. `ResponseHeaders` taps
an event stream, whatever was asked for, and runs for a served flow too, whose reply is
JSON (`ContentTypes`). `SwitchMode` is the control endpoint. What a flow's attributes hold
is the record `flow[f]`; `handling`, `dir`, `kept` and `served` are history that
properties read and no action does. `Faults` names the steps that may raise. Cleaning and
translation are values here: the *form* in which a payload is stored or looked up, and the
*format* of a reply. Expiry is in `HybridCache` only, and records count as handed over
once dumped: `WireLog` says what then becomes of them.

### AgentLoop

`HybridCache` takes the similarity of two requests as a relation. Here the requests
are an agent's conversations and the relation is what the code computes: the words of
the last two user messages (`UserWords`), compared by their Jaccard score. The formats
differ in what a user message is (`IsUser`) and whether a tool's answer has words
(`TextOf`).

### ProxyLifecycle

A command is a program counter, `cmd[c].stage`, named for the call it makes next;
each action is one call to docker or one look at a port, since another command or the
user may come in between. `ensure_proxy_running` is `CheckPort`, then `FoundBusy`,
`ReadSpec`, `StopToRecreate`, `PortFreed`/`PortNotFreed` on the branch of a busy port,
or `FoundIdle`; both go on with `EnsureImage`, `RemoveOld`, `DockerRun`,
`ProxyReady`/`ProxyNotReady` and `GiveUp`. `handle_start` shares the calls from
`StartPort` on. `RunAgent`, `AgentEnds` and `Interrupted` are `run_agent`;
`StopCommand`, `ContainerStops`, `ContainerAnswers` and `OthersListen` are what else
happens on the machine. `container` is what docker knows under the one name;
`container.lineage`, `container.by`, `cmd[c].replaced` and `cmd[c].before` are history
for the properties, read by no guard. `serial`,
`obeys` and `reads` are chosen at the start: whether the user gives the commands one after
the other; whether `docker rm -f` works, whose failure the code prints and ignores; and
whether docker answers its queries, each of which the code otherwise takes for the
answer "no" (`is_container_running`, `is_container_bound_to_port`) or for an empty
allow list (`SpecsRead`).

### CaStore

Each file is a variable of its own and holds a pair's number, nothing, or a cut-off
text. `Look`, `Judge`, `Remove`, `TruncateKey`, `WriteKey`, `WriteCert`, `Verify` are
`_ensure_root_ca`; `StartCopy`, `FinishCopy`, `ReadPair`, `WritePem`, `CopyFails`
`_sync_mitmproxy_ca`; `CheckBundle`, `Compose`, `WriteTmp`, `ReplaceBundle`
`get_or_create_merged_ca_bundle`. `Leaves` is a process that is done, or dies, at any
stage. Of modification times the model keeps `age`, the bundle's beside the certificate's:
`newer`, as it should be after a merge; `older`; or `tied`, a certificate written after
the bundle whose time is not later, because both fell in one tick of the clock or the clock was
stepped back. `WriteTmp` gives the temporary file its time, which may also be older than
the certificate's; any later write of the certificate (`Outdates`) makes the published
bundle, and those still to be published, older or tied. The freshness test reads nothing else.
The system's own roots may ask for a merge at any time (`CheckBundle`).

### The parts of MCTransforms

They share no variable; `part` says which of them moves.

* `HostLocal` – a session declares a target (`Join`): it is expanded, merged into the
  allow list, and the agent's NO_PROXY pruned if the probe succeeded. `Dialled` is what
  `server_connect` makes of a connection, the self-addressed request included. The
  gateway's address is resolved once (`resolved`), and until then a connection is dialled
  as it is. The machine may move to another address.
* `ContextCleaner` – the agent's conversation grows; `CleanMessages` is the whole of what
  happens to it: fingerprints and references (`Remember`, `DedupBlock`), the summary and
  the suffix it keeps (`CleanUser`, `SuffixIdx`, `Summarized`), merging of roles, and the
  cache marks (`Inject`). A body is known by its length class.
* `GeminiRequest` – a Gemini conversation, with ids or without, with parallel and
  repeated calls and answers in any order, and its OpenAI translation, item by item
  (`TranslateItem`) and part by part (`Processed`, `Answered`). A part is known by its
  place; an id is a tuple, so that a client's and a made-up one differ.
* `SseBridge` – the model server emits events, the network cuts them into chunks where
  it likes; `Translate` and `TranslateChunk` carry the buffered tool calls, `Tap`
  the capped copy.
* `Telemetry` – `Timing` on every combination of stamps, then records, counters,
  restarts, lost and torn lines, torn inside a character or not (`Cut`, `Torn`), records
  written onto them, and `Offline`, which a line that does not decode ends with nothing.
* `AbWorkload` – passes of a workload through a proxy whose mode requests can fail or
  come late, with another agent, with failed turns and lost or late records. `faults`
  is history: what has happened that the pairing relies on not happening. Parity
  (`InParity`) is of the statuses and of the list a request holds; the percentage is
  compared as the code's floating point does (`Reaches`): a quotient is rounded the same
  whatever its terms, and `FallShort` are the whole percentages it falls short of.
* `TimingGate` – artefacts of main and of forks appear and expire, readable or not;
  `Compare` is `run_compare` at a given answer of the store, `Skip` a job without a start
  timestamp.

## What the runs show

| run | instance | result |
|---|---|---|
| `wire_log` | 2 callers, 2 records, 1 kill, fair threads | `LogInv`, `FlushCoversDumped`, `PendingDoesNotLeak`, `LineHasTurnFile` and the refinement `JournalSpec`; `EveryDumpSettles`; `ShutdownReturnsOrCallback`: a shutdown returns or is in the known deadlock |
| `wire_log_shutdown` | fair threads, no kill | **violated**: `ShutdownReturns` |
| `cache_one_process` | 5 keys of two providers, two system prompts, alike or not, a table of 2 rows, batches of 1, TTL 1, interval 2, 1 clock step | `AnswerIsFresh`, `AnswerFits`, `SweepIsRateLimited`, `SweepIsComplete` |
| `cache_shared` | 2 processes, one of which only stores, sweeps and clears; 2 keys, batches of 1, TTL 1 | `CacheInv`, `SweepTerminates` |
| `cache_sweep_race` | 2 processes, 1 key | **violated**: `SweepSparesFresh` |
| `addon` | 3 flows of 7 kinds, 1 switch, faults in cleaning, accounting and storing | `OneRecordPerFlow`, `LogAgreesWithMetrics`, `PinnedBaselineIsUntouched`, `HitIsAuthentic`, `RepeatIsServed` |
| `addon_faults` | 2 flows of host-local engines, 2 directories, 2 switches, all faults | `AddonInv`, `StreamsBypassCache` |
| `addon_bridged` | 2 flows, Gemini and OpenAI clients of one engine | **violated**: `HitIsAuthentic` |
| `addon_variant` | 1 flow, 1 switch | **violated**: `RecordBelongsToVariant` |
| `agent_loop` | 1 question, 1 tool result, 4 messages | **violated**: `AnsweredCallIsNotServed` |
| `sessions` | 2 commands, 2 ports, 2 endpoints, 1 event around them; 2 CA processes, 2 pairs, 4 launches | `TargetsAreCovered`, `FailedStartLeavesNothing`, `TeardownSparesPreexisting`, `EveryCommandSettles`; `CaInv`, `LoneMakerLeavesWholeCa`, `BundleIsCurrent` |
| `transforms` | seven parts, bounds in `MCTransforms.cfg` | `EndpointIsReached`, `RedirectionNeedsDeclaration`; `CallsKeepResults`, `ReferencesResolve`, `RecentTurnsAreKept`, `CacheMarksWithinLimit`; `BridgedRequestIsFaithful`, `StreamIsFaithful`, `KeptIsPrefix`; `FiguresAgreeWithLog`, `MeasuredByOneClock`; `ScoredPassesAreComparable`; `GateJudgesByMain` |

Several of the invariants are conjunctions of parts with a name and a comment each:
`TargetsAreCovered` is `JoinCoversTarget` and, while docker answers, `RecreatedWithUnion`,
and so on. Where the code keeps a promise only under a condition, the property has the
condition, and the list further down says what happens without it.

The five violations are disagreements between the code and its own documentation:

1. *Shutdown.* `shutdown_wire_logs` joins the worker while holding
   `_wire_log_lock`. If the last write's done-callback has not run by then, it waits for
   that lock, for ever, and so does the shutdown. That is so when the flush timed
   out because a write takes longer than the timeout, and it can be so when it
   returned in time: `set_result` wakes the waiter before the callbacks run.
   `ShutdownReturnsOrCallback` shows that this situation, however it came about, is the
   only one a shutdown hangs in.
2. *Sweep.* Two proxy containers share the database: one sweep's DELETE, by key,
   removes a row that the other container has just refreshed. One process alone
   cannot: between its SELECT and its DELETE nothing else runs.
3. *Bridged replies.* A Gemini request to a local engine goes out under the OpenAI
   path, so its reply is cached under `openai`, translated back to Gemini already.
   An OpenAI client with the same prompt is served a Gemini body. (For the same
   reason a repeat of the Gemini request is never served; `RepeatIsServed` is
   checked without bridged flows. It also speaks of requests whose prompt has
   words, and of entries that have not expired: a wordless local Anthropic
   prompt is stored stripped and looked up unstripped, so only the similarity
   step could find it again.)
4. *Variants.* The wire record takes mode and directory when the response arrives.
   A switch in between files an optimized request under baseline, or the reverse.
5. *Agents and the cache.* What the similarity compares is the text of the last user
   messages. An OpenAI tool message is not a user message, and a Gemini
   functionResponse has no text, so the request that carries a tool's answer is as
   like as can be to the one that led to the call, and a non-streaming agent is served
   the call it has just answered. `docs/methods/local_cache_layer.md:205` wants the
   authentic provider output. With Anthropic the text of a tool result counts, and TLC
   finds no violation at the same bounds.

Properties with a condition, and what happens without it. Of the first group a document
says more than the code does; in each of them TLC finds the counterexample once the
condition is dropped:

* *A query docker does not answer.* `container_host_local_spec`
  (`commands/start.py:246-261`) makes an empty allow list of it. Nothing is then covered, so
  the container is recreated for the new endpoint alone, and the sessions before it lose
  theirs; `README.md:349-350` says "the union of existing and new targets". The part
  `RecreatedWithUnion` of `TargetsAreCovered` is of behaviours in which docker answers.
* *Ties of file times.* `commands/ca.py:73` takes the bundle for fresh if it is not older
  than the certificate. One made in the same tick, or after the clock was stepped back, is
  missed, and the agent does not trust the proxy, which `ca.py:105-108` promises.
  `BundleIsCurrent` is of a bundle whose `age` is not `tied`.
* *Recent turns.* All but the newest two messages are deduplicated
  (`providers/anthropic.py:130`), although ten are to be "preserved verbatim"
  (`payload_cleaner.py:24`) and recent turns are "**never** pruned or summarized"
  (`docs/ab_testing_guide.md:157`). `RecentTurnsAreKept` has the newest message verbatim, and
  the other kept turns but for repeated contents.
* *Spellings.* `README.md:336` has localhost, the loopback addresses and the LAN address be
  the same machine. They are if a loopback is declared; with the LAN address declared,
  localhost is neither pruned from NO_PROXY nor rewritten, as
  `tests/test_host_local.py:127-132` and `230-234` assert. `EndpointIsReached` is of the
  spellings a declaration covers.
* *A cut character.* Records are written unescaped (`proxy/wire_log.py:125`) and read as
  strict UTF-8 (`metrics/aggregation.py:215`): one append torn inside a character ends the
  reading of the log, every time, with no figures at all, although `README.md:398` has them
  computed from this log. `FiguresAgreeWithLog` says that figures are of all whole records or
  that there are none, and that there are some if every line decodes.
* *The percentage.* 29 of 100 tokens saved are 28.999999999999996 percent in floating point
  (`ab_testing/evaluation.py:605`), so `--fail-under-reduction 29` fails them; 57 and 58
  behave like 29. `GateIsOfTheWhole` leaves exactly the minimum to the rounding.
* *A late mode request.* `set_proxy_mode` gives up after three seconds and its result is
  ignored (`commands/ab_test.py:95`, `104`): if the request is applied later, turns handled
  in the other mode are scored as turns of the pass, although
  `docs/ab_testing_guide.md:54` says which mode each pass runs in. `PairsAreOfOneTurn` is of
  tests without a fault of this kind.

Of the second group no document promises more:

* Overlapping commands: two recreations lose each other's endpoint, a second start
  removes the first's container, an ephemeral session's recreation may take over a
  container others use. `TargetsAreCovered` and `TeardownSparesPreexisting` are of
  commands that do not overlap; `FailedStartLeavesNothing` and `EveryCommandSettles` of
  all. Teardown spares what ran before the session, not those who joined it since.
* Overlapping generators leave certificate and key of two pairs; with one at a time
  no kill does. With an unwritable copy the generator returns all the same.
* The suffix a Gemini summary keeps may open with an answer whose call is gone; OpenAI's
  merging of roles drops the id of the second of two parallel results, and its search
  for the suffix looks forward first, keeping fewer turns than configured.
  References to turns that a summary then removes dangle.
* The proxy answers a self-addressed request from `targets[0]`: two sessions with
  different ports on one proxy get the first one's model server. A peer that is given
  an address this machine had before is dialled at the gateway. Once a loopback is
  declared, loopbacks are the host's at every port (`test_host_local.py:169-177`). A
  declared peer is dialled at the gateway as well: `server_connect` takes what is declared
  for the host's, so `EndpointIsReached` is of endpoints on the session's own machine.
* Made-up tool ids are first in, first out by function name: an interrupted call leaves
  its id to the next answer. What stands beside an answer in one item is dropped.
* A streamed tool call is flushed by `finish_reason: tool_calls` only; an event cut by a
  chunk boundary is lost.
* The A/B test ignores a failed mode request (its pass then finds no records and the
  test errs), and pairing by position follows lost and repeated turns; with no record of
  its own, another agent's are scored. `PairsAreOfOneTurn` is of tests with none of that.

### Bounds and why they are enough

* Wire log: the hazards need a record being written, another waiting or being
  registered, and a second thread in flush, shutdown or dump; two callers and two
  records give every combination. One kill suffices, since a kill resets all but
  the disk and the settled futures. Callers and records are interchangeable, so the
  first dump is the first record's, by the first caller.
* Cache: TTL 1 with clocks up to 2 makes a row fresh, expiring and expired; batches of one
  and a table of two rows give sweeps of zero to two full batches, including the one whose
  last batch is full. One clock step covers a step in either direction at any point. Two
  processes race on one key; more keys add nothing to a race on a row. What a call
  remembers is checked with two keys, of two providers, where a second process stores,
  sweeps or clears between any two of its statements; that one looking up as well changes
  nothing for the first, since a lookup writes nothing but hit counts and the words of
  legacy rows. Which row may be served depends on the rows and the request: the five
  requests differ from one another in every way the lookup tells apart, and a table of two
  rows (`MaxRows`) has a row that might be served in the place of the right one.
* Addon: a property relates at most two flows of one prompt plus one that interferes; a
  switch falls between any two hooks. `Faults` in the `addon` run leaves out a failing
  lookup, for which a repeat is rightly not served, and a failing dump, for which log and
  counters rightly differ; `addon_faults` has both, and checks what holds of flows,
  records, entries and counters whichever step fails.
* Sessions: a second command is what joins, recreates or races with the first; port 2 is
  also an endpoint's, so that the fallback port of `start` can meet it. One event is one
  stop, crash, interrupt or foreign listener at any point. Two pairs are a CA and its
  successor; four launches are a first run killed, a second, a bundle, and one more.
  Commands that overlap need one endpoint or none, which is enough for one of them to
  recreate what the other uses; commands one after the other need either of two, or none,
  for the union. That docker leaves a query unanswered is tried for every query, in
  commands that do not overlap. The command that begins first is the first. A `docker rm
  -f` may fail where commands do not overlap; only `FailedStartLeavesNothing` supposes it
  obeyed.
* Transforms: seven messages of two texts, `max_turns` 4 and three recent turns, one more
  than deduplication spares, so that conversations of each format are summarized with each
  possible boundary; five events of two parallel calls in chunks of at most two; six items
  of a Gemini client, with up to two calls of two functions in a reply; two sessions and
  two addresses; three requests; two turns evaluated twice, with one fault of any kind,
  judged by 29 percent, which the rounding falls short of; baselines of two among four
  artefacts. A property fails, where a helper is replaced by its mutant, well inside these
  bounds.

`CHECK_DEADLOCK FALSE` is set where the system may rightly stop: when no call is
under way, the clocks are at their bound, all flows and commands are over, or a
bounded conversation, stream or log is full.

### Fairness

`WireLog`: weak fairness of the worker and of each caller *inside* a call, which is
that threads are scheduled and `wait` returns at its timeout. Nothing makes a caller
start a call. `HybridCache`: weak fairness of a sweep under way. `SweepTerminates`
is checked without wall-clock steps: if the clock of another process is set back, it
can insert rows older than the cutoff for as long as that lasts.
`EveryDumpSettles` excludes the moment a shutdown joins the worker, since by violation
1 it may never end. `ProxyLifecycle`: weak fairness of each command's own steps, which
is that its process is scheduled and that every wait in it has a deadline (ten seconds
for the port, the readiness timeout, docker's own errors); nothing is assumed of the
user, of the agent, of the container's start or of other programs, which is why the
property ends where the agent begins.

## What is proved

TLAPS proves, for any value of the constants (any number of callers, records, processes,
keys, flows, requests, directories, faults, kills, switches, commands, ports, endpoints,
events, CA processes and pairs, sessions, messages, summary and suffix lengths, tools,
items and calls of a bridged conversation, stream events and cuts, tap caps, requests and
restarts, artefacts and durations, turns, rounds and other agents):

| module | theorem | states |
|---|---|---|
| `WireLogProofs` | `TypeCorrect`, `LogIsConsistent` | types, `LogInv` |
| | `LogIsAJournal` | `JournalSpec`, the refinement |
| | `LinesHaveTurnFiles`, `FlushCovers`, `PendingIsBounded` | `LineHasTurnFile`, `FlushCoversDumped`, `PendingDoesNotLeak` |
| `HybridCacheProofs` | `CallsAreConsistent`, `RepliesAreServed`, `RepliesFit`, `SweepsAreLimited` | `CacheInv`, `AnswerIsFresh`, `AnswerFits`, `SweepIsRateLimited` |
| | `SweepsAreComplete` (if `Alone`, and finitely many keys) | `SweepIsComplete` |
| `ProxyAddonProofs` | `AddonIsConsistent`, `RecordsAreUnique` | `AddonInv`, `OneRecordPerFlow` |
| | `PinnedFlowsAreUntouched`, `StreamsAreNotCached` | `PinnedBaselineIsUntouched`, `StreamsBypassCache` |
| | `CountersAgree` (if no dump fails) | `LogAgreesWithMetrics`; whatever fails, hits and requests are as counted and turns at most the requests |
| | `HitsAreAuthentic` (if `NothingIsBridged`) | `HitIsAuthentic` |
| | `RepeatsAreServed` (if `NothingIsBridged`, `StrippedHaveWords`, and no lookup fails) | `RepeatIsServed` |
| `SessionProofs` | `LifeTypes`, `FailuresCleanUp` | `LifeInv`, `FailedStartLeavesNothing` |
| | `SessionsAreServed`, `PreexistingIsSpared` | `TargetsAreCovered`, `TeardownSparesPreexisting` |
| | `CaTypes`, `LoneMakersAreSound`, `BundlesAreCurrent` | `CaInv`, `LoneMakerLeavesWholeCa`, `BundleIsCurrent` |
| `RequestProofs` | `EndpointsAreReached`, `OthersAreLeftAlone` | `EndpointIsReached`, `RedirectionNeedsDeclaration` |
| | `CallsAreKept`, `ReferencesAreResolved` | `CallsKeepResults`, `ReferencesResolve` |
| | `RecentTurnsAreSent`, `MarksAreLimited` | `RecentTurnsAreKept`, `CacheMarksWithinLimit` |
| `BridgeProofs` | `RequestTypes` | `RequestInv`: who says what, and what answers what |
| | `BridgedRequests` | `BridgedRequestIsFaithful` |
| | `StreamIsReadAsOne` | `ChunksDoNotMatter`: chunk by chunk is as all at once |
| | `StreamsAreFaithful`, `PrefixIsKept` | `StreamIsFaithful`, `KeptIsPrefix` |
| `VerdictProofs` | `TelemetryIsKept` | `TelemetryInv`: figures and log agree line by line |
| | `OneClockMeasures`, `FiguresAgree` | `MeasuredByOneClock`, `FiguresAgreeWithLog` |
| | `GateIsRight` | `GateJudgesByMain` |
| | `VerdictIsOfTheWorkload` | `ScoredPassesAreComparable` |

The only assumptions are those the modules state on their constants, and these four, without
each of which the theorem is false:

* `NothingIsBridged` - no Gemini request is for a host-local engine. Such a reply is stored
  under another provider than it is looked up for (violation 3).
* `StrippedHaveWords` - a local Anthropic request has a prompt with words. A wordless one
  is stored without its `cache_control` and looked up with it, and has no words to be
  found by.
* No failing dump, for the records of the log to be as many as the counters' turns; no
  failing lookup, for a repeat to be served. Both failures are swallowed by the code.
* `Alone` - one process on the cache file, for a sweep to leave nothing that has expired. With
  two, the other may store a row by a clock that is behind while the sweep goes on.

*Wire log.* `LogInv` is inductive. `FlushCoversDumped` alone is not: that a record
whose dump has returned is pending depends on `DumpInv` (a caller between submit and
hook owns its record, which is queued, running or done) and on `TrackInv` (such a
record has its callback registered, so only the callback removes it), which depend on
`QueueInv` (a record is queued once, and its future tells where it is). `LineInv`
adds that a worker about to append has published its file. `LockInv` says that a
shut executor, a held lock and one joining caller go together.

`LogIsAJournal` is shown step by step: a `Submit` accepts or refuses, the end of a write -
whole, torn or failed - settles the record (`SettleImplements`), a `Crash` drops what
waits and refuses what was not yet submitted, and every other step leaves what the journal
sees as it was (`Unseen`). `RefInv` needs `SettledInv`: a line is that of a record that is
done, lost, or just written by the worker, so the record about to be settled has none yet.
The mapping takes the whole lines of the index by `Keep`, and `SequenceFacts` says what one
line more, torn or whole, does to that.

*Cache.* `CacheInv` adds to the types what a call remembers between statements: rows
read are fresh as of the lookup's start and of its provider, and an exact hit has
read the very key. No step of another process touches these, which is why an answer
stays right although its row may be gone. That sweeps are rate-limited needs `GateInv`:
each sweep moves the gate an interval at least from where the monotonic clock was, so the
number of sweeps times the interval is at most the gate, and the gate at most an interval
ahead of that clock; the wall clock is in neither. For `SweepIsComplete`, `BatchInv` says that
the batch a sweep is about to delete is of expired rows, as many as there are or as the limit
allows: a short batch, the one the loop ends on, is all of them.

*Addon.* `RecordInv` is `AddonInv` and `OneRecordPerFlow` together: a record belongs to a
flow that was served or is over (`WireInv`), so the hooks that record, which need a flow
that is neither, cannot record twice; an entry belongs to a flow that was kept
(`EntryInv`), and a kept flow did not stream (`FlowInv`). Every hook is shown to be an
instance of one relation, `Hooked`, from which preservation follows once. `HitIsAuthentic`
needs `AuthenticInv`: no flow is translated, so an entry's format is that of the provider
it is stored under, which is the one a lookup asks for. `CountersAgree` needs `CountInv`
and `DumpInv`: the counters are the numbers of flows at their stages, and every flow that
counted a turn has its record. `RepeatIsServed` needs `KeptInv`: what a kept flow stored
is `Findable`, under the provider and in the form in which its repeat is looked up;
entries are overwritten, but never by something the same lookup would not find.

*Lifecycle.* `FailedStartLeavesNothing` follows in every interleaving from `OwnerInv`:
a running container that a command ran goes with a command at a stage from which it
still removes it or has succeeded; a recreation by another command changes the owner
with the container. What holds of commands that do not overlap needs `SerialInv`: at most
one command is under way, what that command has found out about the container is still
so (`Knows`), because only it, a stop or a crash touches the container, and the
containers a session saw at its beginning are not what runs after it has started its own
(`Lineages`, with `HasStarted` and `Recreates`). Each step is first shown to be an
instance of a `Frame` that says what it may do to the other commands and to the
container, so the quantified part of `Lineages` is argued once and not sixteen times.

*CA.* `CaInv` splits into what it says of a process (`MakerInv`) and of the directory
(`Directory`), in terms of texts that exist (`Text`). With one process at a time,
`AloneInv` says what the process at work has written by its stage (`Holds`) and what any
process that died may have left (`Sound`): the key of a certificate that is there
and not expiring is its own, because the certificate is removed first and written last.

*Routing.* `HostInv` says of every session that its specification is its target, expanded
with the address the machine had when it joined; that the allow list covers the targets of
all sessions and holds nothing else; and that a session whose probe succeeded has lost the
NO_PROXY entries that would have bypassed its target (`IsPruned`). The rest is a case
analysis over the spellings of a host: which of them a declaration covers
(`EquivalentHosts`), and that each of these is pruned, allow-listed and local. What is
redirected was allow-listed, hence declared, or is the self-addressed request, which the
common port sends to the sessions' own.

*Cleaner.* `CleanerInv` is about what was sent last and the history it was made from
(`SentInv`). Where calls come `OneByOne` - always, but for OpenAI's parallel calls, whose
results are messages of their own - a history is `InOrder`: roles alternate, and the
results of a message are the calls of the one before. What is sent is the history with
repeats replaced, or a summary and a suffix of that, merged by roles and marked. Then:

* `CallsKeepResults`: replacing keeps types and ids (`AlikeMessages`), merging does
  nothing where roles alternate (`Alternates`), and a suffix that opens with a message
  with nothing to answer is `Matched` if the whole was, which is how the three formats
  choose it.
* `ReferencesResolve`: the map of what has been seen is correct after every block
  (`Known`): the turn it names for a content is sent, no later, and holds that content in
  full, because a replaced block is never remembered.
* `RecentTurnsAreKept`: of the newest two messages nothing is replaced, the suffix is a
  suffix (`Shortened`), and merging leaves the end of a conversation at its end
  (`EndsWith`).
* `CacheMarksWithinLimit`: the marks after the injection are those before it and those it placed
  (`MarkedAt`), whose number is bounded by the room there was.

*Bridged request.* `RequestInv` says which conversations a client can have: a call is at
its place, a reply has no answers and a question no calls, and the answers of an item are
those to the calls of the item before, once each, those of a function in the order of its
calls (`InOrder`). That is inductive; faithfulness is not, and needs no step of its own:
it follows for every such conversation by going through its items, and within an item
through its parts.

* Nothing is lost (`TranslatedSays`): the texts sent so far, joined, are the texts said, and the
  places of the calls sent are those of the calls made. An item with answers has no calls, so
  what is dropped beside an answer is text only.
* Ids are unique (`Identified`): a client's id names its call's place; a made-up one is the name
  with a count that has been used, and the next count has not been. The counts stay below
  (`MaxCalls` + 1) per item, as far as `Distinguishable` looks.
* Answers find their calls (`Follows`): after an item the pending ids of a function are
  exactly its calls in that item, in their order (`Waiting`), and none after any other
  item, as no call was interrupted. The first answer to a function is to the first of its
  calls, so the id at the head is its call's, and the rest still waits (`Answering`).
  After the last answer nothing waits. With ids of the client's own the call is sent under
  the id the answer carries.

*Stream.* `ChunksDoNotMatter` is the heart: translating the chunks one by one, with the
tool calls carried over, yields what translating all the lines at once would, but for a
line that was cut. It holds after every chunk because translation is a function of the
calls so far and the next line. With the order in which a model server emits (`Grammar`: a
call is named once, and nothing but the usage follows the reason), what has come out is
then read off from what was emitted (`IsOutput`).

*Figures.* `Agree(journal, Ever)` relates the lines of the log to the sum of the counters
of all the proxies that wrote it: as many replies, totals and samples as were measured,
fewer where a line was lost, torn or written onto a torn one, and equal where none was. It
is kept by every line appended, by every line spoilt (`Spoilt`) and by any number of
restarts, which only move counters from `live` to `earlier`. Whether a line decodes is no
part of it: that only decides whether there are figures.

*Timing gate.* An answer is about the artefacts and labels there are (`GateInv`), so the
rest is about one comparison. The i-th record that is read is the i-th readable one of
main's latest (`Placing`, by induction over the artefacts), and there are as many as
count. The median of any sequence is the mean of two of its values (`MedianIsOfValues`:
sorting by insertion keeps to the values), and a run longer than both by the tolerance and
the least delta is longer than their mean by them (`HalvesAreLonger`).

*A/B test.* `ScoreInv` ties the scorecard to what was loaded, `SwitchedInv` what is
queued, written or loaded to a mode request that was applied. `PairsAreOfOneTurn` needs
`CleanInv`, about behaviours without a fault so far: the proxy is in the mode of the pass
under way, whose turn is the only one that can be open (`Undisturbed`), and what is
written of the variant, followed by what is queued of it, is the pass's turns from the
first to the last answered (`AnsweredInOrder`), which every answer extends and every write
only moves along. That the percentage is judged of the sums is arithmetic (`PercentageIs`)
on sums that are the same number of times as large after all rounds (`RoundsAre`): the
rounding decides only where they are just at the percentage. Parity follows turn by turn,
a turn being in parity with itself.

*Induction.* The library's induction theorems take an operator as a parameter, which the
provers cannot instantiate. What a recursive function computes is therefore shown over the
*set* of the indices at which a claim holds (`BoundedInduction`), or as the agreement of
two functions that begin and go on alike (`Agreement`), both of which follow from the
well-foundedness of the naturals. This is why the parts that are proved about select with
`Keep` and run through their messages, lines and records with recursive functions.

Every safety property of a passing run is stated by a theorem. Only model-checked are the
liveness properties (`EveryDumpSettles`, `ShutdownReturnsOrCallback`, `SweepTerminates`,
`EveryCommandSettles`), out of this prover's reach.

One condition is part of a property: `BridgedRequestIsFaithful` supposes that made-up ids
of two functions differ (`Distinguishable`). The text of an id is a string built from a
name and a number, of which the provers know nothing; TLC evaluates it for the functions
of the run. Without it the property is false: the second call of `f` and the first of
`f_2` are both `call_f_2`.

## What is left out

File names and modes, JSON text, the scrubbing of records, logging, telemetry headers;
logging switched off; the failing translation of a bridged reply; `hit_count`. In the
lifecycle: the docker command lines, the building of images, the environment and
configuration files of agents. In the CA: the installation in the system's store and the
text of certificates. In the routing: the texts of the probe. In the bridge: a whole,
unstreamed reply and tool declarations. In the A/B component: the live replay and the
offline evaluation, which send or read one request at a time, and averages of timings.

Not modelled at all: the dashboard (a static page), the command line and its small
commands, the orchestration helpers (thin clients of external tools), and CI scripts
other than the timing gate. They keep no state that two actors share.

## What would come next

1. A composition of `ProxyAddon`, `HybridCache` and `WireLog` over one flow: a record
   dumped by a hook reaches the journal; a reply stored is served until it expires.
2. The live replay, and the first listing page of the timing gate's artefacts.
