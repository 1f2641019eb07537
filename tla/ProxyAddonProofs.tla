-------------------------- MODULE ProxyAddonProofs --------------------------
(***************************************************************************)
(* Proofs about ProxyAddon, for any flows, requests, directories, faults   *)
(* and mode switches.                                                      *)
(***************************************************************************)
EXTENDS ProxyAddon, SequenceTheorems, FiniteSetTheorems, TLAPS

USE DEF counters

\* A hook touches one flow and never its request.
Moved(f) ==
    /\ flow' \in [Flows -> Flow]
    /\ flow'[f].request = flow[f].request
    /\ \A g \in Flows : g # f => flow'[g] = flow[g]

\* What is proved to be inductive.
RecordInv == FlowsInv /\ OneRecordPerFlow

LEMMA FlowIsTyped ==
    ASSUME TypeOK, NEW f \in Flows
    PROVE  flow[f] \in Flow /\ flow[f].request \in Requests /\ flow[f].request \in Request
BY ConstantsAssumption DEF TypeOK, Flow

LEMMA WireIsTyped ==
    ASSUME TypeOK, NEW i \in DOMAIN wire
    PROVE  wire[i] \in Record /\ wire[i].flow \in Flows
<1>1. wire \in Seq(Record) /\ i \in 1..Len(wire)
  BY DEF TypeOK
<1>2. wire[i] \in Record
  BY <1>1, ElementOfSeq
<1> QED BY <1>2 DEF Record

LEMMA NewFlowIsTyped ==
    ASSUME NEW q \in Requests, wireDir \in Dirs
    PROVE  /\ NewFlow(q) \in Flow /\ NewFlow(q).request = q
           /\ NewFlow(q).stage = "new" /\ ~NewFlow(q).cached /\ ~NewFlow(q).sse /\ ~NewFlow(q).kept
BY DEF NewFlow, Flow, Forms, Modes

LEMMA AddonInit == Init => RecordInv /\ PinnedBaselineIsUntouched
<1> SUFFICES ASSUME Init PROVE RecordInv /\ PinnedBaselineIsUntouched
  OBVIOUS
<1>1. wireDir \in Dirs
  BY DEF Init
<1>2. \A f \in Flows : \E q \in Requests : flow[f] = NewFlow(q)
  BY DEF Init
<1>3. \A f \in Flows : /\ flow[f] \in Flow
                       /\ flow[f].stage = "new"
                       /\ ~flow[f].cached /\ ~flow[f].sse /\ ~flow[f].kept
  BY <1>1, <1>2, NewFlowIsTyped
<1>4. flow \in [Flows -> Flow]
  <2>1. DOMAIN flow = Flows /\ flow = [f \in Flows |-> flow[f]]
    BY DEF Init
  <2> QED BY <1>3, <2>1
<1>5. TypeOK
  BY <1>4, ConstantsAssumption DEF Init, TypeOK
<1>6. wire = <<>> /\ cache = {} /\ DOMAIN wire = {}
  BY DEF Init
<1> QED BY <1>3, <1>5, <1>6
       DEF RecordInv, FlowsInv, FlowInv, WireInv, EntryInv, OneRecordPerFlow,
           PinnedBaselineIsUntouched

\* What the request hook does to a flow it forwards.
LEMMA ForwardMoves ==
    ASSUME TypeOK, NEW f \in Flows, NEW handling \in Modes \cup {"none"}, NEW form \in Forms,
           NEW bridged \in {"no", "marked", "translated"},
           Forward(f, handling, form, bridged)
    PROVE  /\ Moved(f)
           /\ flow'[f].stage = "sent"
           /\ flow'[f].cached = flow[f].cached /\ flow'[f].sse = flow[f].sse
           /\ flow'[f].kept = flow[f].kept
<1>1. flow[f] \in Flow /\ wireDir \in Dirs
  BY FlowIsTyped DEF TypeOK
<1>2. [flow[f] EXCEPT !.stage = "sent", !.handling = handling, !.form = form,
                      !.bridged = bridged, !.dir = wireDir] \in Flow
  BY <1>1 DEF Flow
<1>3. flow' = [flow EXCEPT ![f] = [flow[f] EXCEPT !.stage = "sent", !.handling = handling,
                 !.form = form, !.bridged = bridged, !.dir = wireDir]]
  BY DEF Forward, TypeOK
<1>4. flow'[f] = [flow[f] EXCEPT !.stage = "sent", !.handling = handling, !.form = form,
                      !.bridged = bridged, !.dir = wireDir]
  BY <1>3 DEF TypeOK
<1>5. flow' \in [Flows -> Flow] /\ \A g \in Flows : g # f => flow'[g] = flow[g]
  BY <1>2, <1>3 DEF TypeOK
<1> QED BY <1>1, <1>4, <1>5 DEF Moved, Flow

LEMMA FinishMoves ==
    ASSUME TypeOK, NEW f \in Flows, NEW kept \in BOOLEAN, Finish(f, kept)
    PROVE  /\ Moved(f)
           /\ flow'[f].stage = "done" /\ flow'[f].kept = kept
           /\ flow'[f].cached = flow[f].cached /\ flow'[f].sse = flow[f].sse
<1> DEFINE g == [flow[f] EXCEPT !.stage = "done", !.kept = kept]
<1>1. flow[f] \in Flow
  BY FlowIsTyped
<1>2. g \in Flow /\ g.stage = "done" /\ g.kept = kept
      /\ g.request = flow[f].request /\ g.cached = flow[f].cached /\ g.sse = flow[f].sse
  BY <1>1 DEF Flow
<1>3. flow' = [flow EXCEPT ![f] = g]
  BY DEF Finish, TypeOK
<1> HIDE DEF g
<1> QED BY <1>2, <1>3 DEF TypeOK, Moved

\* Where a step records the flow, or does not.
Dumped(f, action) ==
    /\ wire' \in Seq(Record)
    /\ Len(wire) + 1 \notin DOMAIN wire
    /\ DOMAIN wire' = DOMAIN wire \cup {Len(wire) + 1}
    /\ \A i \in DOMAIN wire : wire'[i] = wire[i]
    /\ wire'[Len(wire) + 1].flow = f
    /\ wire'[Len(wire) + 1].action = action
    /\ flow[f].request.header = "baseline" => wire'[Len(wire) + 1].mode = "baseline"

LEMMA DumpAppends ==
    ASSUME TypeOK, NEW f \in Flows, NEW action \in {"HIT", "MISS"}, Dump(f, action)
    PROVE  UNCHANGED wire \/ Dumped(f, action)
<1> DEFINE r == [flow |-> f, action |-> action, dir |-> wireDir,
           mode |-> IF Passive(flow[f].request) THEN "baseline" ELSE "optimized"]
<1>1. r \in Record /\ r.flow = f /\ r.action = action
  BY DEF TypeOK, Record, Modes
<1>2. flow[f].request.header = "baseline" => r.mode = "baseline"
  BY DEF Passive
<1>3. wire \in Seq(Record) /\ Len(wire) \in Nat /\ DOMAIN wire = 1..Len(wire)
  BY DEF TypeOK
<1>4. UNCHANGED wire \/ wire' = Append(wire, r)
  BY DEF Dump
<1> HIDE DEF r
<1>5. ASSUME wire' = Append(wire, r)
      PROVE  Dumped(f, action)
  <2>1. /\ wire' \in Seq(Record)
        /\ Len(wire') = Len(wire) + 1
        /\ \A i \in 1..Len(wire) : wire'[i] = wire[i]
        /\ wire'[Len(wire) + 1] = r
    BY <1>1, <1>3, <1>5, AppendProperties
  <2>2. DOMAIN wire' = 1..Len(wire')
    BY <2>1
  <2>3. DOMAIN wire' = DOMAIN wire \cup {Len(wire) + 1} /\ Len(wire) + 1 \notin DOMAIN wire
    BY <1>3, <2>1, <2>2
  <2> QED BY <1>1, <1>2, <1>3, <2>1, <2>3 DEF Dumped
<1> QED BY <1>4, <1>5

\* What a hook may do to a flow and to its traces in the cache and in the log.
Hooked(f, action) ==
    /\ Moved(f)
    /\ flow'[f].stage # "new"
    /\ flow[f].stage = "done" => flow'[f].stage = "done"
    /\ flow[f].kept => flow'[f].kept
    /\ flow'[f].kept => flow'[f].stage = "done" /\ ~flow'[f].sse /\ ~flow'[f].request.stream
    /\ flow'[f].cached => /\ flow'[f].request.family # "unknown"
                          /\ ~flow'[f].kept /\ ~flow'[f].sse /\ ~flow'[f].request.stream
    /\ flow'[f].cached = flow[f].cached \/ flow[f].stage = "new"
    /\ flow[f].request.header = "baseline" =>
          flow'[f].cached = flow[f].cached /\ flow'[f].kept = flow[f].kept
    /\ \/ UNCHANGED cache
       \/ cache' = cache \cup {Stored(f)} /\ flow'[f].kept
    /\ \/ UNCHANGED wire
       \/ /\ Dumped(f, action)
          /\ flow[f].stage # "done" /\ ~flow[f].cached
          /\ IF action = "HIT" THEN flow'[f].cached ELSE ~flow'[f].cached /\ flow'[f].stage = "done"

LEMMA HookStep ==
    ASSUME RecordInv, TypeOK', NEW f \in Flows, NEW action \in {"HIT", "MISS"}, Hooked(f, action)
    PROVE  RecordInv'
<1> USE DEF Hooked, RecordInv, FlowsInv
<1>1. FlowInv'
  BY DEF FlowInv, Moved
<1>2. \A i \in DOMAIN wire : wire[i].flow \in Flows
  BY WireIsTyped
<1>3. WireInv'
  BY <1>2 DEF WireInv, Moved, Dumped
<1>4. EntryInv'
  <2>1. \A e \in cache : e.from \in Flows
    BY DEF TypeOK, Entry
  <2>2. Stored(f).from = f /\ Stored(f).prompt = flow[f].request.prompt
    BY DEF Stored
  <2> QED BY <2>1, <2>2 DEF EntryInv, Moved
<1>5. OneRecordPerFlow'
  <2>1. CASE UNCHANGED wire
    <3>1. \A i \in DOMAIN wire : flow'[wire[i].flow].cached = flow[wire[i].flow].cached
      BY <1>2, <2>1 DEF WireInv, Moved
    <3> QED BY <2>1, <3>1 DEF OneRecordPerFlow
  <2>2. CASE Dumped(f, action) /\ flow[f].stage # "done" /\ ~flow[f].cached
             /\ IF action = "HIT" THEN flow'[f].cached ELSE ~flow'[f].cached
    <3>1. \A i \in DOMAIN wire : wire[i].flow # f
      BY <2>2 DEF WireInv
    <3>2. \A i \in DOMAIN wire : flow'[wire[i].flow] = flow[wire[i].flow] /\ wire'[i] = wire[i]
      BY <1>2, <2>2, <3>1 DEF Moved, Dumped
    <3>3. (wire'[Len(wire) + 1].action = "HIT") <=> flow'[wire'[Len(wire) + 1].flow].cached
      BY <2>2 DEF Dumped
    <3> QED BY <2>2, <3>1, <3>2, <3>3 DEF OneRecordPerFlow, Dumped
  <2> QED BY <2>1, <2>2
<1> QED BY <1>1, <1>3, <1>4, <1>5

\* Type correctness of a hook that keeps the switches.
LEMMA HookTypes ==
    ASSUME TypeOK, NEW f \in Flows, Moved(f),
           UNCHANGED <<defaultPassive, wireDir, switches>>,
           hits' \in Nat, received' \in Nat,
           metrics' \in [requests : Nat, hits : Nat, turns : Nat],
           cache' \subseteq Entry, wire' \in Seq(Record)
    PROVE  TypeOK'
BY DEF TypeOK, Moved

\* A hook that only moves its flow, with what it carried, and may count.
LEMMA QuietStep ==
    ASSUME RecordInv, NEW f \in Flows, Moved(f),
           UNCHANGED <<cache, wire, defaultPassive, wireDir, switches, hits>>,
           UNCHANGED <<received, metrics>> \/ Count,
           flow'[f].stage # "new", flow[f].stage # "done",
           flow'[f].cached = flow[f].cached, flow'[f].kept = flow[f].kept,
           flow'[f].sse = flow[f].sse \/ ~flow[f].cached
    PROVE  RecordInv' /\ Hooked(f, "MISS")
<1>1. TypeOK'
  <2>1. received' \in Nat /\ metrics' \in [requests : Nat, hits : Nat, turns : Nat]
    BY DEF Count, RecordInv, FlowsInv, TypeOK
  <2> QED BY <2>1, HookTypes DEF RecordInv, FlowsInv, TypeOK
<1>2. Hooked(f, "MISS")
  BY DEF Hooked, Moved, RecordInv, FlowsInv, FlowInv
<1> QED BY <1>1, <1>2, HookStep

LEMMA ForwardStep ==
    ASSUME RecordInv, NEW f \in Flows, flow[f].stage = "new",
           Bypass(f) \/ Unparsed(f) \/ HookFails(f) \/ PassThrough(f) \/ Miss(f)
    PROVE  RecordInv' /\ Hooked(f, "MISS")
<1>1. \E handling \in Modes \cup {"none"}, form \in Forms, bridged \in {"no", "marked", "translated"} :
         Forward(f, handling, form, bridged)
  BY Zenon DEF Bypass, Unparsed, HookFails, PassThrough, Miss, Modes, Forms, Bridged, CleanForm
<1>2. UNCHANGED <<cache, wire, defaultPassive, wireDir, switches, hits>>
      /\ (UNCHANGED <<received, metrics>> \/ Count)
  BY DEF Bypass, Unparsed, HookFails, PassThrough, Miss, Parsed
<1> QED BY <1>1, <1>2, ForwardMoves, QuietStep DEF RecordInv, FlowsInv

LEMMA HitStep ==
    ASSUME RecordInv, NEW f \in Flows, Hit(f)
    PROVE  RecordInv' /\ Hooked(f, "HIT")
<1>1. PICK e \in Matches(flow[f].request) :
         flow' = [flow EXCEPT ![f].stage = "sent", ![f].handling = "optimized",
                      ![f].form = CleanForm(flow[f].request), ![f].dir = wireDir,
                      ![f].bridged = Bridged(flow[f].request, "translated"),
                      ![f].cached = TRUE, ![f].served = {e}]
  BY DEF Hit
<1>2. TypeOK /\ flow[f] \in Flow /\ e \in Entry
  BY FlowIsTyped DEF RecordInv, FlowsInv, TypeOK, Matches
<1> DEFINE g == [flow[f] EXCEPT !.stage = "sent", !.handling = "optimized",
                    !.form = CleanForm(flow[f].request), !.dir = wireDir,
                    !.bridged = Bridged(flow[f].request, "translated"),
                    !.cached = TRUE, !.served = {e}]
<1>3. /\ g \in Flow /\ g.stage = "sent" /\ g.cached
      /\ g.request = flow[f].request /\ g.kept = flow[f].kept /\ g.sse = flow[f].sse
  <2>1. CleanForm(flow[f].request) \in Forms
        /\ Bridged(flow[f].request, "translated") \in {"no", "marked", "translated"}
        /\ wireDir \in Dirs
    BY <1>2 DEF CleanForm, Forms, Bridged, TypeOK
  <2> QED BY <1>2, <2>1 DEF Flow, Modes
<1>4. flow' = [flow EXCEPT ![f] = g]
  BY <1>1, <1>2 DEF TypeOK
<1> HIDE DEF g
<1>5. Moved(f) /\ flow'[f] = g
  BY <1>2, <1>3, <1>4 DEF TypeOK, Moved
<1>6. UNCHANGED wire \/ Dumped(f, "HIT")
  BY <1>2, DumpAppends DEF Hit
<1>7. /\ flow[f].stage = "new" /\ flow[f].request.family # "unknown"
      /\ ~flow[f].request.stream /\ flow[f].request.header # "baseline"
      /\ UNCHANGED <<defaultPassive, wireDir, cache, switches>>
  BY DEF Hit, Families, Passive
<1>8. Hooked(f, "HIT")
  BY <1>3, <1>5, <1>6, <1>7 DEF Hooked, RecordInv, FlowsInv, FlowInv
<1>9. TypeOK'
  <2>1. /\ hits' \in Nat /\ received' \in Nat
        /\ metrics' \in [requests : Nat, hits : Nat, turns : Nat]
    BY <1>2 DEF Hit, TypeOK
  <2>2. wire' \in Seq(Record) /\ cache' \subseteq Entry
    BY <1>2, <1>6, <1>7 DEF Dumped, TypeOK
  <2> QED BY <1>2, <1>5, <1>7, <2>1, <2>2, HookTypes
<1> QED BY <1>8, <1>9, HookStep

LEMMA HeadersStep ==
    ASSUME RecordInv, NEW f \in Flows, ResponseHeaders(f)
    PROVE  RecordInv' /\ Hooked(f, "MISS")
<1> DEFINE g == [flow[f] EXCEPT !.sse = TRUE]
<1>1. TypeOK /\ flow[f] \in Flow
  BY FlowIsTyped DEF RecordInv, FlowsInv
<1>2. /\ g \in Flow /\ g.request = flow[f].request /\ g.stage = flow[f].stage
      /\ g.cached = flow[f].cached /\ g.kept = flow[f].kept
  BY <1>1 DEF Flow
<1>3. flow' = [flow EXCEPT ![f] = g]
  BY <1>1 DEF ResponseHeaders, TypeOK
<1> HIDE DEF g
<1>4. Moved(f) /\ flow'[f] = g
  BY <1>1, <1>2, <1>3 DEF TypeOK, Moved
<1>5. flow[f].stage = "sent" /\ ~flow[f].cached
      /\ UNCHANGED <<cache, wire, defaultPassive, wireDir, switches, hits, received, metrics>>
  BY DEF ResponseHeaders, ContentTypes
<1> QED BY <1>2, <1>4, <1>5, QuietStep

\* mitmproxy drops a flow, or the response hook has nothing to do.
LEMMA EndStep ==
    ASSUME RecordInv, NEW f \in Flows, IgnoreResponse(f) \/ Break(f)
    PROVE  RecordInv' /\ Hooked(f, "MISS")
<1>1. PICK stage \in {"done", "broken"} : flow' = [flow EXCEPT ![f].stage = stage]
  BY DEF IgnoreResponse, Break
<1> DEFINE g == [flow[f] EXCEPT !.stage = stage]
<1>2. TypeOK /\ flow[f] \in Flow
  BY FlowIsTyped DEF RecordInv, FlowsInv
<1>3. /\ g \in Flow /\ g.request = flow[f].request /\ g.stage = stage
      /\ g.cached = flow[f].cached /\ g.kept = flow[f].kept /\ g.sse = flow[f].sse
  BY <1>2 DEF Flow
<1>4. flow' = [flow EXCEPT ![f] = g]
  BY <1>1, <1>2 DEF TypeOK
<1> HIDE DEF g
<1>5. Moved(f) /\ flow'[f] = g
  BY <1>2, <1>3, <1>4 DEF TypeOK, Moved
<1>6. flow[f].stage = "sent"
      /\ UNCHANGED <<cache, wire, defaultPassive, wireDir, switches, hits, received, metrics>>
  BY DEF IgnoreResponse, Break
<1> QED BY <1>3, <1>5, <1>6, QuietStep

LEMMA StoredIsTyped ==
    ASSUME TypeOK, NEW f \in Flows, flow[f].request.family # "unknown"
    PROVE  Stored(f) \in Entry
<1>1. flow[f] \in Flow /\ flow[f].request \in Request
  BY FlowIsTyped
<1>2. flow[f].request.family \in Families
  BY <1>1 DEF Request, Families
<1> QED BY <1>1, <1>2 DEF Stored, Entry, Flow, Request, Forms, Families

\* What storing does: the flow is over, and kept exactly if its reply is stored.
LEMMA StoreEffect ==
    ASSUME RecordInv, NEW f \in Flows, NEW reply, Answered(f),
           Store(f, reply) \/ (UNCHANGED cache /\ Finish(f, FALSE))
    PROVE  /\ Moved(f) /\ flow'[f].stage = "done"
           /\ flow'[f].cached = flow[f].cached /\ flow'[f].sse = flow[f].sse
           /\ \/ UNCHANGED cache /\ ~flow'[f].kept
              \/ /\ cache' = cache \cup {Stored(f)} /\ flow'[f].kept
                 /\ ~flow[f].sse /\ ~flow[f].request.stream
                 /\ flow[f].request.header # "baseline"
           /\ cache' \subseteq Entry
<1>1. TypeOK
  BY DEF RecordInv, FlowsInv
<1>2. \/ UNCHANGED cache /\ Finish(f, FALSE)
      \/ /\ cache' = cache \cup {Stored(f)} /\ Finish(f, TRUE)
         /\ ~flow[f].sse /\ ~flow[f].request.stream
         /\ flow[f].request.header # "baseline"
  BY DEF Store, Stores, Passive
<1>3. cache \subseteq Entry /\ Stored(f) \in Entry
  BY <1>1, StoredIsTyped DEF TypeOK, Answered, Ignored
<1>4. CASE UNCHANGED cache /\ Finish(f, FALSE)
  BY <1>1, <1>3, <1>4, FinishMoves
<1>5. CASE /\ cache' = cache \cup {Stored(f)} /\ Finish(f, TRUE)
           /\ ~flow[f].sse /\ ~flow[f].request.stream
           /\ flow[f].request.header # "baseline"
  BY <1>1, <1>3, <1>5, FinishMoves
<1> QED BY <1>2, <1>4, <1>5

LEMMA ResponseStep ==
    ASSUME RecordInv, NEW f \in Flows,
           \/ \E reply \in {"completion", "error"} : Succeed(f, reply)
           \/ Abandon(f)
           \/ Refused(f)
    PROVE  RecordInv' /\ Hooked(f, "MISS")
<1>1. TypeOK
  BY DEF RecordInv, FlowsInv
<1>2. Answered(f) /\ UNCHANGED <<defaultPassive, wireDir, switches, hits, received>>
  BY DEF Succeed, Abandon, Refused
<1>3. \E reply : Store(f, reply) \/ (UNCHANGED cache /\ Finish(f, FALSE))
  BY DEF Succeed, Abandon, Refused
<1>4. UNCHANGED wire \/ Dumped(f, "MISS")
  BY <1>1, DumpAppends DEF Succeed, Abandon, Refused
<1>5. metrics' \in [requests : Nat, hits : Nat, turns : Nat]
  <2>1. UNCHANGED metrics \/ Turn
    BY DEF Succeed, Abandon, Refused
  <2>2. metrics \in [requests : Nat, hits : Nat, turns : Nat]
    BY <1>1 DEF TypeOK
  <2> QED BY <2>1, <2>2 DEF Turn
<1>6. /\ Moved(f) /\ flow'[f].stage = "done"
      /\ flow'[f].cached = flow[f].cached /\ flow'[f].sse = flow[f].sse
      /\ \/ UNCHANGED cache /\ ~flow'[f].kept
         \/ /\ cache' = cache \cup {Stored(f)} /\ flow'[f].kept
            /\ ~flow[f].sse /\ ~flow[f].request.stream
            /\ flow[f].request.header # "baseline"
      /\ cache' \subseteq Entry
  BY <1>2, <1>3, StoreEffect
<1>7. flow[f].stage = "sent" /\ ~flow[f].cached /\ ~flow[f].kept
      /\ flow[f].kept \in BOOLEAN /\ flow'[f].kept \in BOOLEAN
  BY <1>1, <1>2, <1>6, FlowIsTyped DEF Answered, Ignored, RecordInv, FlowsInv, FlowInv, Moved, Flow
<1>8. Hooked(f, "MISS")
  BY <1>4, <1>6, <1>7 DEF Hooked, Moved
<1>9. TypeOK'
  <2>1. wire' \in Seq(Record)
    BY <1>1, <1>4 DEF Dumped, TypeOK
  <2> QED BY <1>1, <1>2, <1>5, <1>6, <2>1, HookTypes DEF TypeOK
<1> QED BY <1>8, <1>9, HookStep

LEMMA HookInv ==
    ASSUME RecordInv, NEW f \in Flows,
           RequestHook(f) \/ ResponseHeaders(f) \/ ResponseHook(f) \/ Break(f)
    PROVE  RecordInv' /\ \E action \in {"HIT", "MISS"} : Hooked(f, action)
<1>1. \/ flow[f].stage = "new" /\
            (Bypass(f) \/ Unparsed(f) \/ HookFails(f) \/ PassThrough(f) \/ Miss(f))
      \/ Hit(f)
      \/ ResponseHeaders(f)
      \/ IgnoreResponse(f) \/ Break(f)
      \/ \/ \E reply \in {"completion", "error"} : Succeed(f, reply)
         \/ Abandon(f)
         \/ Refused(f)
  BY DEF RequestHook, ResponseHook, Bypass, Unparsed, HookFails, PassThrough, Miss, Parsed
<1> QED BY <1>1, ForwardStep, HitStep, HeadersStep, EndStep, ResponseStep

LEMMA SwitchStep ==
    ASSUME RecordInv, NEW mode \in Modes, NEW dir \in Dirs, SwitchMode(mode, dir)
    PROVE  RecordInv'
<1>1. TypeOK'
  BY ConstantsAssumption DEF RecordInv, FlowsInv, SwitchMode, TypeOK
<1> QED BY <1>1 DEF RecordInv, FlowsInv, SwitchMode, FlowInv, WireInv, EntryInv, OneRecordPerFlow, Stored

LEMMA AddonStep == RecordInv /\ [Next]_vars => RecordInv'
<1> SUFFICES ASSUME RecordInv, [Next]_vars PROVE RecordInv'
  OBVIOUS
<1>1. CASE UNCHANGED vars
  BY <1>1 DEF vars, RecordInv, FlowsInv, TypeOK, FlowInv, WireInv, EntryInv, OneRecordPerFlow
<1>2. ASSUME NEW f \in Flows,
             RequestHook(f) \/ ResponseHeaders(f) \/ ResponseHook(f) \/ Break(f)
      PROVE  RecordInv'
  BY <1>2, HookInv
<1>3. ASSUME NEW mode \in Modes, NEW dir \in Dirs, SwitchMode(mode, dir)
      PROVE  RecordInv'
  BY <1>3, SwitchStep
<1> QED BY <1>1, <1>2, <1>3 DEF Next

LEMMA PinnedStep ==
    ASSUME RecordInv, PinnedBaselineIsUntouched, [Next]_vars
    PROVE  PinnedBaselineIsUntouched'
<1> USE DEF PinnedBaselineIsUntouched
<1>1. \A i \in DOMAIN wire : wire[i].flow \in Flows
  BY WireIsTyped DEF RecordInv, FlowsInv
<1>2. ASSUME NEW f \in Flows, NEW action \in {"HIT", "MISS"}, Hooked(f, action)
      PROVE  PinnedBaselineIsUntouched'
  <2>1. \A g \in Flows : flow'[g].request = flow[g].request
    BY <1>2 DEF Hooked, Moved
  <2>2. \A g \in Flows : flow'[g].request.header = "baseline" => ~flow'[g].cached /\ ~flow'[g].kept
    BY <1>2, <2>1 DEF Hooked, Moved
  <2>3. CASE UNCHANGED wire
    BY <1>1, <2>1, <2>2, <2>3
  <2>4. CASE Dumped(f, action)
    BY <1>1, <2>1, <2>2, <2>4 DEF Dumped
  <2> QED BY <1>2, <2>3, <2>4 DEF Hooked
<1>3. CASE UNCHANGED vars
  BY <1>3 DEF vars
<1>4. ASSUME NEW mode \in Modes, NEW dir \in Dirs, SwitchMode(mode, dir)
      PROVE  PinnedBaselineIsUntouched'
  BY <1>4 DEF SwitchMode
<1> QED BY <1>2, <1>3, <1>4, HookInv DEF Next

-----------------------------------------------------------------------------
(* What a hit serves, when no Gemini request is for a host-local engine.    *)

NothingIsBridged == \A q \in Requests : ~(q.family = "gemini" /\ q.local)

Authentic(f) ==
    /\ flow[f].bridged = "no"
    /\ \A e \in flow[f].served : e.format = flow[f].request.family

\* A flow is not translated, so what it stores is under its own provider.
AuthenticInv ==
    /\ \A f \in Flows : Authentic(f)
    /\ \A e \in cache : e.format = e.prov

LEMMA AuthenticInit == Init => AuthenticInv
<1> SUFFICES ASSUME Init PROVE AuthenticInv
  OBVIOUS
<1>1. \A f \in Flows : \E q \in Requests : flow[f] = NewFlow(q)
  BY DEF Init
<1>2. \A q \in Requests : NewFlow(q).bridged = "no" /\ NewFlow(q).served = {}
  BY DEF NewFlow
<1>3. \A f \in Flows : flow[f].bridged = "no" /\ flow[f].served = {}
  BY <1>1, <1>2
<1> QED BY <1>3 DEF Init, AuthenticInv, Authentic

\* A hook that leaves its flow untranslated and served what it was.
LEMMA ForwardIsAuthentic ==
    ASSUME TypeOK, NEW f \in Flows, Authentic(f),
           NEW handling, NEW form, Forward(f, handling, form, "no")
    PROVE  Authentic(f)'
<1>1. flow \in [Flows -> Flow] /\ flow[f] \in Flow
  BY FlowIsTyped DEF TypeOK
<1>2. flow'[f] = [flow[f] EXCEPT !.stage = "sent", !.handling = handling, !.form = form,
                     !.bridged = "no", !.dir = wireDir]
  BY <1>1 DEF Forward
<1>3. /\ flow'[f].bridged = "no" /\ flow'[f].served = flow[f].served
      /\ flow'[f].request = flow[f].request
  BY <1>1, <1>2 DEF Flow
<1> QED BY <1>3 DEF Authentic

LEMMA HitIsAuthenticToo ==
    ASSUME TypeOK, AuthenticInv, NEW f \in Flows, Bridged(flow[f].request, "translated") = "no", Hit(f)
    PROVE  Authentic(f)' /\ UNCHANGED cache
<1>1. flow \in [Flows -> Flow] /\ flow[f] \in Flow
  BY FlowIsTyped DEF TypeOK
<1>2. PICK e \in Matches(flow[f].request) :
         flow' = [flow EXCEPT ![f].stage = "sent", ![f].handling = "optimized",
                      ![f].form = CleanForm(flow[f].request), ![f].dir = wireDir,
                      ![f].bridged = "no", ![f].cached = TRUE, ![f].served = {e}]
  BY DEF Hit
<1>3. e.format = flow[f].request.family
  BY DEF Matches, AuthenticInv
<1>4. flow'[f] = [flow[f] EXCEPT !.stage = "sent", !.handling = "optimized",
                     !.form = CleanForm(flow[f].request), !.dir = wireDir,
                     !.bridged = "no", !.cached = TRUE, !.served = {e}]
  BY <1>1, <1>2
<1>5. flow'[f].bridged = "no" /\ flow'[f].served = {e} /\ flow'[f].request = flow[f].request
  BY <1>1, <1>4 DEF Flow
<1> QED BY <1>3, <1>5 DEF Authentic, Hit

LEMMA ResponseIsAuthentic ==
    ASSUME TypeOK, NEW f \in Flows, Authentic(f),
           ResponseHeaders(f) \/ ResponseHook(f) \/ Break(f)
    PROVE  Authentic(f)' /\ cache' \subseteq cache \cup {Stored(f)}
<1>1. flow \in [Flows -> Flow] /\ flow[f] \in Flow
  BY FlowIsTyped DEF TypeOK
<1>2. cache' \subseteq cache \cup {Stored(f)}
  BY DEF ResponseHeaders, ResponseHook, IgnoreResponse, Succeed, Store, Abandon, Refused, Break
<1>3. \/ flow' = [flow EXCEPT ![f].sse = TRUE]
      \/ \E stage : flow' = [flow EXCEPT ![f].stage = stage]
      \/ \E kept : flow' = [flow EXCEPT ![f].stage = "done", ![f].kept = kept]
  BY Zenon DEF ResponseHeaders, ResponseHook, IgnoreResponse, Succeed, Store, Abandon, Refused, Finish, Break
<1>4. \/ flow'[f] = [flow[f] EXCEPT !.sse = TRUE]
      \/ \E stage : flow'[f] = [flow[f] EXCEPT !.stage = stage]
      \/ \E kept : flow'[f] = [flow[f] EXCEPT !.stage = "done", !.kept = kept]
  BY <1>1, <1>3
<1>5. /\ flow'[f].bridged = flow[f].bridged /\ flow'[f].served = flow[f].served
      /\ flow'[f].request = flow[f].request
  BY <1>1, <1>4 DEF Flow
<1> QED BY <1>2, <1>5 DEF Authentic

LEMMA AuthenticStep ==
    ASSUME NothingIsBridged, RecordInv, AuthenticInv, [Next]_vars
    PROVE  AuthenticInv'
<1>1. TypeOK
  BY DEF RecordInv, FlowsInv
<1>2. ASSUME NEW f \in Flows,
             RequestHook(f) \/ ResponseHeaders(f) \/ ResponseHook(f) \/ Break(f)
      PROVE  AuthenticInv'
  <2>1. \A g \in Flows : g # f => flow'[g] = flow[g]
    BY <1>2, HookInv DEF Hooked, Moved
  <2>2. \A how : Bridged(flow[f].request, how) = "no"
    BY <1>1, FlowIsTyped DEF NothingIsBridged, Bridged
  <2>3. Stored(f).format = Stored(f).prov
    BY DEF Stored, AuthenticInv, Authentic
  <2>4. Authentic(f)' /\ cache' \subseteq cache \cup {Stored(f)}
    <3>1. CASE Hit(f)
      BY <1>1, <2>2, <3>1, HitIsAuthenticToo
    <3>2. CASE Bypass(f) \/ Unparsed(f) \/ HookFails(f) \/ PassThrough(f) \/ Miss(f)
      <4>1. \E handling, form : Forward(f, handling, form, "no")
        BY <2>2, <3>2, Zenon DEF Bypass, Unparsed, HookFails, PassThrough, Miss
      <4>2. UNCHANGED cache
        BY <3>2 DEF Bypass, Unparsed, HookFails, PassThrough, Miss
      <4> QED BY <1>1, <4>1, <4>2, ForwardIsAuthentic DEF AuthenticInv
    <3>3. CASE ResponseHeaders(f) \/ ResponseHook(f) \/ Break(f)
      BY <1>1, <3>3, ResponseIsAuthentic DEF AuthenticInv
    <3> QED BY <1>2, <3>1, <3>2, <3>3 DEF RequestHook
  <2> QED BY <2>1, <2>3, <2>4 DEF AuthenticInv, Authentic
<1>3. CASE UNCHANGED vars
  BY <1>3 DEF vars, AuthenticInv, Authentic
<1>4. ASSUME NEW mode \in Modes, NEW dir \in Dirs, SwitchMode(mode, dir)
      PROVE  AuthenticInv'
  BY <1>4 DEF SwitchMode, AuthenticInv, Authentic
<1> QED BY <1>2, <1>3, <1>4 DEF Next

-----------------------------------------------------------------------------
(* The counters count the flows: the requests those whose hook has run, the *)
(* turns at most those that are answered.                                   *)

Counted == {f \in Flows : flow[f].stage # "new" /\ flow[f].request.family # "unknown"}
AnsweredFlows ==
    {f \in Flows : flow[f].request.family # "unknown" /\ (flow[f].cached \/ flow[f].stage = "done")}
HitRecords == {i \in DOMAIN wire : wire[i].action = "HIT"}

CountInv ==
    /\ metrics.hits = hits /\ metrics.requests = received
    /\ IsFiniteSet(Counted) /\ received = Cardinality(Counted)
    /\ metrics.turns <= Cardinality(AnsweredFlows)

\* What the log holds was counted.
BoundInv ==
    /\ Len(wire) <= metrics.turns
    /\ IsFiniteSet(HitRecords) /\ Cardinality(HitRecords) <= metrics.hits

\* With a wire log that takes every record.
DumpInv ==
    /\ metrics.turns = Len(wire)
    /\ IsFiniteSet(HitRecords) /\ metrics.hits = Cardinality(HitRecords)

LEMMA AnsweredAreCounted ==
    ASSUME RecordInv, CountInv
    PROVE  /\ AnsweredFlows \subseteq Counted
           /\ IsFiniteSet(AnsweredFlows)
           /\ Cardinality(AnsweredFlows) \in Nat /\ Cardinality(Counted) \in Nat
           /\ Cardinality(AnsweredFlows) <= Cardinality(Counted)
<1>1. AnsweredFlows \subseteq Counted
  BY DEF AnsweredFlows, Counted, RecordInv, FlowsInv, FlowInv
<1> QED BY <1>1, FS_Subset, FS_CardinalityType DEF CountInv

LEMMA CountInit == Init => CountInv /\ BoundInv /\ DumpInv
<1> SUFFICES ASSUME Init PROVE CountInv /\ BoundInv /\ DumpInv
  OBVIOUS
<1>1. \A f \in Flows : flow[f].stage = "new" /\ ~flow[f].cached
  BY DEF Init, NewFlow
<1>2. Counted = {} /\ AnsweredFlows = {} /\ HitRecords = {}
  BY <1>1 DEF Init, Counted, AnsweredFlows, HitRecords
<1> QED BY <1>2, FS_EmptySet DEF Init, CountInv, BoundInv, DumpInv

\* What a hook does to the two sets of flows.
LEMMA CountedMoves ==
    ASSUME RecordInv, CountInv, NEW f \in Flows, Moved(f), flow'[f].stage # "new"
    PROVE  /\ IsFiniteSet(Counted') /\ Cardinality(Counted') \in Nat
           /\ Cardinality(Counted') =
                 IF flow[f].stage = "new" /\ flow[f].request.family # "unknown"
                 THEN Cardinality(Counted) + 1 ELSE Cardinality(Counted)
<1>1. Counted' = IF flow[f].request.family # "unknown" THEN Counted \cup {f} ELSE Counted
  BY DEF Counted, Moved
<1>2. f \in Counted <=> flow[f].stage # "new" /\ flow[f].request.family # "unknown"
  BY DEF Counted
<1> QED BY <1>1, <1>2, FS_AddElement, FS_CardinalityType DEF CountInv

LEMMA AnsweredMoves ==
    ASSUME RecordInv, CountInv, NEW f \in Flows, Moved(f),
           flow[f].cached => flow'[f].cached, flow[f].stage = "done" => flow'[f].stage = "done"
    PROVE  /\ Cardinality(AnsweredFlows') \in Nat
           /\ Cardinality(AnsweredFlows) <= Cardinality(AnsweredFlows')
           /\ (/\ flow[f].request.family # "unknown"
               /\ ~flow[f].cached /\ flow[f].stage # "done"
               /\ flow'[f].cached \/ flow'[f].stage = "done")
              => Cardinality(AnsweredFlows') = Cardinality(AnsweredFlows) + 1
<1>1. AnsweredFlows' = IF flow[f].request.family # "unknown" /\ (flow'[f].cached \/ flow'[f].stage = "done")
                       THEN AnsweredFlows \cup {f} ELSE AnsweredFlows
  BY DEF AnsweredFlows, Moved
<1>2. f \in AnsweredFlows <=> /\ flow[f].request.family # "unknown"
                              /\ flow[f].cached \/ flow[f].stage = "done"
  BY DEF AnsweredFlows
<1>3. IsFiniteSet(AnsweredFlows) /\ Cardinality(AnsweredFlows) \in Nat
  BY AnsweredAreCounted
<1>4. Cardinality(AnsweredFlows \cup {f}) =
         IF f \in AnsweredFlows THEN Cardinality(AnsweredFlows) ELSE Cardinality(AnsweredFlows) + 1
  BY <1>3, FS_AddElement
<1> QED BY <1>1, <1>2, <1>3, <1>4

\* What a hook counts, and when.
LEMMA HookCounts ==
    ASSUME NEW f \in Flows,
           RequestHook(f) \/ ResponseHeaders(f) \/ ResponseHook(f) \/ Break(f)
    PROVE  \/ /\ flow[f].stage # "new" \/ flow[f].request.family = "unknown"
              /\ UNCHANGED <<received, metrics, hits, wire>>
           \/ /\ flow[f].stage = "new" /\ flow[f].request.family # "unknown"
              /\ Count /\ UNCHANGED <<hits, wire>>
           \/ Hit(f)
           \/ /\ Answered(f)
              /\ \E reply : Store(f, reply) \/ (UNCHANGED cache /\ Finish(f, FALSE))
              /\ Turn /\ Dump(f, "MISS") /\ UNCHANGED <<received, hits>>
<1>1. CASE Bypass(f)
  BY <1>1 DEF Bypass
<1>2. CASE Unparsed(f) \/ HookFails(f) \/ PassThrough(f) \/ Miss(f)
  BY <1>2 DEF Unparsed, HookFails, PassThrough, Miss, Parsed, Families
<1>3. CASE ResponseHeaders(f) \/ IgnoreResponse(f) \/ Abandon(f) \/ Break(f)
  BY <1>3 DEF ResponseHeaders, IgnoreResponse, Abandon, Answered, Break
<1>4. CASE Refused(f) \/ \E reply \in {"completion", "error"} : Succeed(f, reply)
  BY <1>4 DEF Refused, Succeed
<1> QED BY <1>1, <1>2, <1>3, <1>4 DEF RequestHook, ResponseHook

LEMMA CountStep ==
    ASSUME RecordInv, CountInv, NEW f \in Flows,
           RequestHook(f) \/ ResponseHeaders(f) \/ ResponseHook(f) \/ Break(f)
    PROVE  CountInv'
<1>1. PICK action \in {"HIT", "MISS"} : Hooked(f, action)
  BY HookInv
<1>2. TypeOK /\ metrics \in [requests : Nat, hits : Nat, turns : Nat] /\ hits \in Nat /\ received \in Nat
  BY DEF RecordInv, FlowsInv, TypeOK
<1>3. /\ Moved(f) /\ flow'[f].stage # "new"
      /\ flow[f].stage = "done" => flow'[f].stage = "done"
      /\ flow[f].cached => flow'[f].cached
      /\ flow[f].cached => flow[f].stage # "new"
  BY <1>1 DEF Hooked, RecordInv, FlowsInv, FlowInv
<1>4. /\ IsFiniteSet(Counted') /\ Cardinality(Counted') \in Nat
      /\ Cardinality(Counted') =
            IF flow[f].stage = "new" /\ flow[f].request.family # "unknown"
            THEN Cardinality(Counted) + 1 ELSE Cardinality(Counted)
  BY <1>3, CountedMoves
<1>5. /\ Cardinality(AnsweredFlows') \in Nat
      /\ Cardinality(AnsweredFlows) <= Cardinality(AnsweredFlows')
      /\ (/\ flow[f].request.family # "unknown"
          /\ ~flow[f].cached /\ flow[f].stage # "done"
          /\ flow'[f].cached \/ flow'[f].stage = "done")
         => Cardinality(AnsweredFlows') = Cardinality(AnsweredFlows) + 1
  BY <1>3, AnsweredMoves
<1>6. Cardinality(AnsweredFlows) \in Nat
  BY AnsweredAreCounted
<1>7. CASE /\ flow[f].stage # "new" \/ flow[f].request.family = "unknown"
           /\ UNCHANGED <<received, metrics, hits, wire>>
  BY <1>2, <1>4, <1>5, <1>6, <1>7 DEF CountInv
<1>8. CASE /\ flow[f].stage = "new" /\ flow[f].request.family # "unknown"
           /\ Count /\ UNCHANGED <<hits, wire>>
  BY <1>2, <1>4, <1>5, <1>6, <1>8 DEF CountInv, Count
<1>9. CASE Hit(f)
  <2>1. /\ flow[f].stage = "new" /\ flow[f].request.family # "unknown"
        /\ received' = received + 1 /\ hits' = hits + 1
        /\ metrics' = [requests |-> metrics.requests + 1,
                       hits |-> metrics.hits + 1, turns |-> metrics.turns + 1]
    BY <1>9 DEF Hit, Families
  <2>2. flow'[f].cached
    <3>1. \E e \in Matches(flow[f].request) :
             flow' = [flow EXCEPT ![f].stage = "sent", ![f].handling = "optimized",
                          ![f].form = CleanForm(flow[f].request), ![f].dir = wireDir,
                          ![f].bridged = Bridged(flow[f].request, "translated"),
                          ![f].cached = TRUE, ![f].served = {e}]
      BY <1>9 DEF Hit
    <3> QED BY <1>2, <3>1, FlowIsTyped DEF TypeOK, Flow
  <2> QED BY <1>2, <1>3, <1>4, <1>5, <1>6, <2>1, <2>2 DEF CountInv
<1>10. CASE /\ Answered(f)
            /\ \E reply : Store(f, reply) \/ (UNCHANGED cache /\ Finish(f, FALSE))
            /\ Turn /\ Dump(f, "MISS") /\ UNCHANGED <<received, hits>>
  <2>1. flow[f].stage = "sent" /\ flow[f].request.family # "unknown" /\ ~flow[f].cached
    BY <1>10 DEF Answered, Ignored
  <2>2. flow'[f].stage = "done"
    BY <1>10, StoreEffect
  <2>3. metrics' = [metrics EXCEPT !.turns = @ + 1]
    BY <1>10 DEF Turn
  <2> QED BY <1>2, <1>4, <1>5, <1>6, <1>10, <2>1, <2>2, <2>3 DEF CountInv
<1> QED BY <1>7, <1>8, <1>9, <1>10, HookCounts

\* What handing over a record does to the log and to the hits in it.
LEMMA DumpRecords ==
    ASSUME TypeOK, NEW f \in Flows, NEW action \in {"HIT", "MISS"}, Dump(f, action)
    PROVE  \/ "dump" \in Faults /\ UNCHANGED wire
           \/ /\ Len(wire') = Len(wire) + 1
              /\ HitRecords' = IF action = "HIT" THEN HitRecords \cup {Len(wire) + 1} ELSE HitRecords
              /\ Len(wire) + 1 \notin HitRecords
<1> DEFINE record == [flow |-> f, action |-> action, dir |-> wireDir,
           mode |-> IF Passive(flow[f].request) THEN "baseline" ELSE "optimized"]
<1>1. wire \in Seq(Record) /\ Len(wire) \in Nat
  BY DEF TypeOK
<1>2. record \in Record /\ record.action = action
  BY DEF Record, Modes, TypeOK
<1>3. wire' = Append(wire, record) \/ ("dump" \in Faults /\ UNCHANGED wire)
  BY DEF Dump
<1> HIDE DEF record
<1>4. ASSUME wire' = Append(wire, record)
      PROVE  /\ Len(wire') = Len(wire) + 1
             /\ HitRecords' = IF action = "HIT" THEN HitRecords \cup {Len(wire) + 1} ELSE HitRecords
             /\ Len(wire) + 1 \notin HitRecords
  <2>1. /\ Len(wire') = Len(wire) + 1 /\ wire' \in Seq(Record)
        /\ \A i \in 1..Len(wire) : wire'[i] = wire[i]
        /\ wire'[Len(wire) + 1] = record
    BY <1>1, <1>2, <1>4, AppendProperties
  <2>2. DOMAIN wire = 1..Len(wire) /\ DOMAIN wire' = 1..(Len(wire) + 1)
    BY <1>1, <2>1
  <2> QED BY <1>1, <1>2, <2>1, <2>2 DEF HitRecords
<1> QED BY <1>3, <1>4

\* What a hook adds to the turns and the hits, and to the log.
LEMMA HookRecords ==
    ASSUME TypeOK, NEW f \in Flows,
           RequestHook(f) \/ ResponseHeaders(f) \/ ResponseHook(f) \/ Break(f)
    PROVE  \/ /\ metrics'.turns = metrics.turns /\ metrics'.hits = metrics.hits
              /\ UNCHANGED wire
           \/ \E action \in {"HIT", "MISS"} :
              /\ Dump(f, action) /\ metrics'.turns = metrics.turns + 1
              /\ metrics'.hits = IF action = "HIT" THEN metrics.hits + 1 ELSE metrics.hits
<1>1. metrics \in [requests : Nat, hits : Nat, turns : Nat]
  BY DEF TypeOK
<1>2. CASE UNCHANGED <<metrics, wire>> \/ (Count /\ UNCHANGED wire)
  <2>1. metrics'.turns = metrics.turns /\ metrics'.hits = metrics.hits
    BY <1>1, <1>2 DEF Count
  <2> QED BY <1>2, <2>1
<1>3. CASE Hit(f)
  BY <1>3 DEF Hit
<1>4. CASE Turn /\ Dump(f, "MISS")
  <2>1. metrics'.turns = metrics.turns + 1 /\ metrics'.hits = metrics.hits
    BY <1>1, <1>4 DEF Turn
  <2> QED BY <1>4, <2>1
<1> QED BY <1>2, <1>3, <1>4, HookCounts

\* A record comes with a turn and a HIT with a hit; conversely a log that takes
\* every record gains one exactly when a turn is counted.
LEMMA DumpStep ==
    ASSUME RecordInv, BoundInv, NEW f \in Flows,
           RequestHook(f) \/ ResponseHeaders(f) \/ ResponseHook(f) \/ Break(f)
    PROVE  BoundInv' /\ ("dump" \notin Faults /\ DumpInv => DumpInv')
<1>1. TypeOK /\ metrics.turns \in Nat /\ metrics.hits \in Nat /\ wire \in Seq(Record) /\ Len(wire) \in Nat
  BY DEF RecordInv, FlowsInv, TypeOK
<1>2. IsFiniteSet(HitRecords) /\ Cardinality(HitRecords) \in Nat
  BY FS_CardinalityType DEF BoundInv
<1>3. CASE metrics'.turns = metrics.turns /\ metrics'.hits = metrics.hits /\ UNCHANGED wire
  BY <1>3 DEF BoundInv, DumpInv, HitRecords
<1>4. ASSUME NEW action \in {"HIT", "MISS"},
             Dump(f, action), metrics'.turns = metrics.turns + 1,
             metrics'.hits = IF action = "HIT" THEN metrics.hits + 1 ELSE metrics.hits
      PROVE  BoundInv' /\ ("dump" \notin Faults /\ DumpInv => DumpInv')
  <2>1. CASE "dump" \in Faults /\ UNCHANGED wire
    <3>1. HitRecords' = HitRecords
      BY <2>1 DEF HitRecords
    <3> QED BY <1>1, <1>2, <1>4, <2>1, <3>1 DEF BoundInv
  <2>2. CASE /\ Len(wire') = Len(wire) + 1
             /\ HitRecords' = IF action = "HIT" THEN HitRecords \cup {Len(wire) + 1} ELSE HitRecords
             /\ Len(wire) + 1 \notin HitRecords
    <3>1. /\ IsFiniteSet(HitRecords \cup {Len(wire) + 1})
          /\ Cardinality(HitRecords \cup {Len(wire) + 1}) = Cardinality(HitRecords) + 1
      BY <1>2, <2>2, FS_AddElement
    <3> QED BY <1>1, <1>2, <1>4, <2>2, <3>1 DEF BoundInv, DumpInv
  <2> QED BY <1>1, <1>4, <2>1, <2>2, DumpRecords
<1> QED BY <1>1, <1>3, <1>4, HookRecords

LEMMA CountersStep ==
    ASSUME RecordInv, CountInv, BoundInv, [Next]_vars
    PROVE  CountInv' /\ BoundInv' /\ ("dump" \notin Faults /\ DumpInv => DumpInv')
<1>1. CASE UNCHANGED vars \/ \E mode \in Modes, dir \in Dirs : SwitchMode(mode, dir)
  BY <1>1 DEF vars, SwitchMode, CountInv, BoundInv, DumpInv, Counted, AnsweredFlows, HitRecords
<1>2. ASSUME NEW f \in Flows,
             RequestHook(f) \/ ResponseHeaders(f) \/ ResponseHook(f) \/ Break(f)
      PROVE  CountInv' /\ BoundInv' /\ ("dump" \notin Faults /\ DumpInv => DumpInv')
  BY <1>2, CountStep, DumpStep
<1> QED BY <1>1, <1>2 DEF Next

-----------------------------------------------------------------------------
(* What a stored reply is good for: the next request like its own.          *)

\* A payload whose cache_control is stripped after the lookup is stored in a form
\* that only its words can find.
StrippedHaveWords == \A q \in Requests : q.family = "anthropic" /\ q.local => q.prompt \notin Wordless

Findable(f) ==
    \E e \in cache : /\ e.prov = flow[f].request.family
                     /\ e.prompt = flow[f].request.prompt
                     /\ e.form = "clean" \/ flow[f].request.prompt \notin Wordless

\* A flow handled as optimized carries the cleaned form, and what it kept is found.
KeptInv ==
    \A f \in Flows : flow[f].handling = "optimized" =>
        /\ flow[f].stage # "new"
        /\ flow[f].form = CleanForm(flow[f].request)
        /\ flow[f].kept => Findable(f)

LEMMA KeptInit == Init => KeptInv
<1> SUFFICES ASSUME Init PROVE KeptInv
  OBVIOUS
<1>1. \A f \in Flows : \E q \in Requests : flow[f] = NewFlow(q)
  BY DEF Init
<1>2. \A q \in Requests : NewFlow(q).handling = "none"
  BY DEF NewFlow
<1> QED BY <1>1, <1>2 DEF KeptInv

\* What the request hook leaves in a flow it has handled.
LEMMA RequestHandles ==
    ASSUME RecordInv, NEW f \in Flows, RequestHook(f)
    PROVE  flow'[f].handling = "optimized" =>
               /\ flow'[f].form = CleanForm(flow[f].request)
               /\ flow'[f].stage = "sent"
               /\ flow'[f].kept = flow[f].kept
<1>1. flow \in [Flows -> Flow] /\ flow[f] \in Flow
  BY FlowIsTyped DEF RecordInv, FlowsInv, TypeOK
<1>2. ASSUME NEW handling, NEW form, NEW bridged, Forward(f, handling, form, bridged)
      PROVE  /\ flow'[f].handling = handling /\ flow'[f].form = form
             /\ flow'[f].stage = "sent" /\ flow'[f].kept = flow[f].kept
  <2>1. flow'[f] = [flow[f] EXCEPT !.stage = "sent", !.handling = handling, !.form = form,
                        !.bridged = bridged, !.dir = wireDir]
    BY <1>1, <1>2 DEF Forward
  <2> QED BY <1>1, <2>1 DEF Flow
<1>3. CASE Bypass(f) \/ Unparsed(f) \/ HookFails(f) \/ PassThrough(f)
  <2>1. \E handling \in {"none", "baseline"} : \E form, bridged : Forward(f, handling, form, bridged)
    BY <1>3, Zenon DEF Bypass, Unparsed, HookFails, PassThrough
  <2> QED BY <1>2, <2>1
<1>4. CASE Miss(f)
  BY <1>2, <1>4 DEF Miss
<1>5. CASE Hit(f)
  <2>1. PICK e \in Matches(flow[f].request) :
           flow' = [flow EXCEPT ![f].stage = "sent", ![f].handling = "optimized",
                        ![f].form = CleanForm(flow[f].request), ![f].dir = wireDir,
                        ![f].bridged = Bridged(flow[f].request, "translated"),
                        ![f].cached = TRUE, ![f].served = {e}]
    BY <1>5 DEF Hit
  <2>2. flow'[f] = [flow[f] EXCEPT !.stage = "sent", !.handling = "optimized",
                        !.form = CleanForm(flow[f].request), !.dir = wireDir,
                        !.bridged = Bridged(flow[f].request, "translated"),
                        !.cached = TRUE, !.served = {e}]
    BY <1>1, <2>1
  <2> QED BY <1>1, <2>2 DEF Flow
<1> QED BY <1>3, <1>4, <1>5 DEF RequestHook

\* The response hooks leave alone what the request hook set.
LEMMA ResponseKeepsHandling ==
    ASSUME RecordInv, NEW f \in Flows, ResponseHeaders(f) \/ ResponseHook(f) \/ Break(f)
    PROVE  /\ flow'[f].handling = flow[f].handling /\ flow'[f].form = flow[f].form
           /\ flow'[f].kept # flow[f].kept /\ flow'[f].kept => cache' = cache \cup {Stored(f)}
<1>1. flow \in [Flows -> Flow] /\ flow[f] \in Flow
  BY FlowIsTyped DEF RecordInv, FlowsInv, TypeOK
<1>2. \/ flow' = [flow EXCEPT ![f].sse = TRUE]
      \/ \E stage : flow' = [flow EXCEPT ![f].stage = stage]
      \/ \E kept : flow' = [flow EXCEPT ![f].stage = "done", ![f].kept = kept]
                   /\ (kept => cache' = cache \cup {Stored(f)})
  BY Zenon DEF ResponseHeaders, ResponseHook, IgnoreResponse, Succeed, Store, Abandon, Refused, Finish, Break
<1>3. \/ flow'[f] = [flow[f] EXCEPT !.sse = TRUE]
      \/ \E stage : flow'[f] = [flow[f] EXCEPT !.stage = stage]
      \/ \E kept : flow'[f] = [flow[f] EXCEPT !.stage = "done", !.kept = kept]
                   /\ (kept => cache' = cache \cup {Stored(f)})
  BY <1>1, <1>2
<1> QED BY <1>1, <1>3 DEF Flow

LEMMA StoredIsFindable ==
    ASSUME NothingIsBridged, StrippedHaveWords, RecordInv, AuthenticInv, NEW f \in Flows,
           flow[f].form = CleanForm(flow[f].request)
    PROVE  /\ Stored(f).prov = flow[f].request.family
           /\ Stored(f).prompt = flow[f].request.prompt
           /\ Stored(f).form = "clean" \/ flow[f].request.prompt \notin Wordless
<1>1. flow[f].bridged = "no" /\ flow[f].request \in Requests
  BY FlowIsTyped DEF AuthenticInv, Authentic, RecordInv, FlowsInv
<1> QED BY <1>1 DEF Stored, CleanForm, StrippedHaveWords

LEMMA KeptStep ==
    ASSUME NothingIsBridged, StrippedHaveWords, RecordInv, AuthenticInv, KeptInv, [Next]_vars
    PROVE  KeptInv'
<1>1. CASE UNCHANGED vars \/ \E mode \in Modes, dir \in Dirs : SwitchMode(mode, dir)
  BY <1>1 DEF vars, SwitchMode, KeptInv, Findable, CleanForm
<1>2. ASSUME NEW f \in Flows,
             RequestHook(f) \/ ResponseHeaders(f) \/ ResponseHook(f) \/ Break(f)
      PROVE  KeptInv'
  <2>1. PICK action \in {"HIT", "MISS"} : Hooked(f, action)
    BY <1>2, HookInv
  <2>2. /\ \A g \in Flows : g # f => flow'[g] = flow[g]
        /\ \A g \in Flows : flow'[g].request = flow[g].request
        /\ cache \subseteq cache' /\ flow'[f].stage # "new"
    BY <2>1 DEF Hooked, Moved
  <2>3. \A g \in Flows : Findable(g) => Findable(g)'
    BY <2>2 DEF Findable
  <2>4. ASSUME flow'[f].handling = "optimized"
        PROVE  flow'[f].form = CleanForm(flow[f].request) /\ (flow'[f].kept => Findable(f)')
    <3>1. CASE RequestHook(f)
      <4>1. flow[f].stage = "new"
        BY <3>1 DEF RequestHook, Bypass, Unparsed, HookFails, PassThrough, Miss, Parsed, Hit
      <4> QED BY <2>4, <3>1, <4>1, RequestHandles DEF RecordInv, FlowsInv, FlowInv
    <3>2. CASE ResponseHeaders(f) \/ ResponseHook(f) \/ Break(f)
      <4>1. /\ flow[f].handling = "optimized"
            /\ flow'[f].form = CleanForm(flow[f].request) /\ flow[f].form = CleanForm(flow[f].request)
            /\ flow[f].kept => Findable(f)
        BY <2>4, <3>2, ResponseKeepsHandling DEF KeptInv
      <4>2. flow'[f].kept # flow[f].kept /\ flow'[f].kept => Findable(f)'
        BY <2>2, <3>2, <4>1, ResponseKeepsHandling, StoredIsFindable DEF Findable
      <4> QED BY <2>3, <4>1, <4>2
    <3> QED BY <1>2, <3>1, <3>2
  <2> QED BY <2>2, <2>3, <2>4 DEF KeptInv, CleanForm
<1> QED BY <1>1, <1>2 DEF Next

LEMMA RepeatHits ==
    ASSUME "lookup" \notin Faults, RecordInv, KeptInv, [Next]_vars,
           NEW f \in Flows, NEW g \in Flows,
           flow[f].stage = "new", flow'[f].handling = "optimized", ~flow[f].request.stream,
           flow[g].kept, flow[g].handling = "optimized", Same(f, g)
    PROVE  flow'[f].cached
<1>1. flow[f].handling # "optimized"
  BY DEF KeptInv
<1>2. RequestHook(f)
  <2>1. PICK h \in Flows : RequestHook(h) \/ ResponseHeaders(h) \/ ResponseHook(h) \/ Break(h)
    BY <1>1 DEF Next, SwitchMode, vars
  <2>2. f = h
    BY <1>1, <2>1, HookInv DEF Hooked, Moved
  <2> QED BY <1>1, <2>1, <2>2, ResponseKeepsHandling
<1>3. Matches(flow[f].request) # {}
  BY DEF KeptInv, Findable, Same, Matches
<1>4. flow \in [Flows -> Flow] /\ flow[f] \in Flow
  BY FlowIsTyped DEF RecordInv, FlowsInv, TypeOK
<1>5. Miss(f) \/ Hit(f)
  <2>1. SUFFICES ASSUME Bypass(f) \/ Unparsed(f) \/ HookFails(f) \/ PassThrough(f) PROVE FALSE
    BY <1>2 DEF RequestHook
  <2>2. \E handling \in {"none", "baseline"} : \E form, bridged : Forward(f, handling, form, bridged)
    BY <2>1, Zenon DEF Bypass, Unparsed, HookFails, PassThrough
  <2>3. flow'[f].handling \in {"none", "baseline"}
    BY <1>4, <2>2 DEF Forward, Flow
  <2> QED BY <2>3
<1>6. Hit(f)
  BY <1>3, <1>5 DEF Miss
<1>7. \E e \in Matches(flow[f].request) :
         flow' = [flow EXCEPT ![f].stage = "sent", ![f].handling = "optimized",
                      ![f].form = CleanForm(flow[f].request), ![f].dir = wireDir,
                      ![f].bridged = Bridged(flow[f].request, "translated"),
                      ![f].cached = TRUE, ![f].served = {e}]
  BY <1>6 DEF Hit
<1> QED BY <1>4, <1>7 DEF Flow

-----------------------------------------------------------------------------
LEMMA AddonAlways == Spec => []RecordInv
<1> QED BY AddonInit, AddonStep, PTL DEF Spec

\* Turns are counted of received requests only.
LEMMA CountsAreBounded ==
    RecordInv /\ CountInv =>
        metrics.hits = hits /\ metrics.requests = received /\ metrics.turns <= received
<1> SUFFICES ASSUME RecordInv, CountInv PROVE metrics.turns <= received
  BY DEF CountInv
<1>1. metrics.turns \in Nat
  BY DEF RecordInv, FlowsInv, TypeOK
<1> QED BY <1>1, AnsweredAreCounted DEF CountInv

LEMMA CountsAlways == Spec => [](CountInv /\ BoundInv)
<1>1. RecordInv /\ CountInv /\ BoundInv /\ [Next]_vars => CountInv' /\ BoundInv'
  BY CountersStep
<1> QED BY <1>1, CountInit, AddonAlways, PTL DEF Spec

(* Whichever steps fail, for any traffic and switches, flows, records,      *)
(* entries and counters stay consistent: no record without a turn, no HIT   *)
(* without a hit, no turn without a request, and nothing stored but by a    *)
(* flow that is over (base.py:42-44 and 148-158, addon.py:340-378).         *)
THEOREM AddonIsConsistent == Spec => []AddonInv
<1>1. RecordInv /\ CountInv /\ BoundInv => AddonInv
  <2> SUFFICES ASSUME RecordInv, CountInv, BoundInv PROVE CountersInv
    BY DEF RecordInv, AddonInv
  <2>1. Cardinality({i \in DOMAIN wire : wire[i].action = "HIT"}) <= hits /\ Len(wire) <= metrics.turns
    BY DEF BoundInv, CountInv, HitRecords
  <2> QED BY <2>1, CountsAreBounded DEF CountersInv
<1> QED BY <1>1, AddonAlways, CountsAlways, PTL

(* A flow leaves at most one wire record, a HIT exactly if the cache served *)
(* it (addon.py:369-374, wire_record.py:122-156).                           *)
THEOREM RecordsAreUnique == Spec => []OneRecordPerFlow
<1>1. RecordInv => OneRecordPerFlow
  BY DEF RecordInv
<1> QED BY <1>1, AddonAlways, PTL

(* A flow pinned to baseline by its header stays out of the cache and in    *)
(* the baseline log, whatever mode switches happen (wire_log.py:61-78).     *)
THEOREM PinnedFlowsAreUntouched == Spec => []PinnedBaselineIsUntouched
<1> QED BY AddonInit, AddonAlways, PinnedStep, PTL DEF Spec

(* Streams neither fill the cache nor are served from it                    *)
(* (apply_cache.py:59-66, addon.py:154-160 and 205-210).                    *)
THEOREM StreamsAreNotCached == Spec => []StreamsBypassCache
<1>1. RecordInv => StreamsBypassCache
  <2> SUFFICES ASSUME RecordInv PROVE StreamsBypassCache
    OBVIOUS
  <2>1. \A e \in cache : e.from \in Flows
    BY DEF RecordInv, FlowsInv, TypeOK, Entry
  <2> QED BY <2>1 DEF RecordInv, FlowsInv, FlowInv, EntryInv, StreamsBypassCache
<1> QED BY <1>1, AddonAlways, PTL

(* Without failing dumps the live counters and the wire log tell the same   *)
(* story, a turn for every record and a hit for every HIT; and whatever     *)
(* fails, no turn is counted without a request (metrics.py:46-69).          *)
THEOREM CountersAgree ==
    /\ "dump" \notin Faults => (Spec => []LogAgreesWithMetrics)
    /\ Spec => [](metrics.hits = hits /\ metrics.requests = received /\ metrics.turns <= received)
<1>1. RecordInv /\ CountInv /\ DumpInv => LogAgreesWithMetrics
  BY CountsAreBounded DEF DumpInv, HitRecords, LogAgreesWithMetrics
<1>5. ASSUME "dump" \notin Faults PROVE Spec => []DumpInv
  <2>1. RecordInv /\ CountInv /\ BoundInv /\ DumpInv /\ [Next]_vars => DumpInv'
    BY <1>5, CountersStep
  <2> QED BY <2>1, CountInit, AddonAlways, CountsAlways, PTL DEF Spec
<1>6. "dump" \notin Faults => (Spec => []LogAgreesWithMetrics)
  <2> SUFFICES ASSUME "dump" \notin Faults PROVE Spec => []LogAgreesWithMetrics
    OBVIOUS
  <2>1. Spec => []DumpInv
    BY <1>5
  <2> QED BY <1>1, <2>1, AddonAlways, CountsAlways, PTL
<1>7. Spec => [](metrics.hits = hits /\ metrics.requests = received /\ metrics.turns <= received)
  BY CountsAreBounded, AddonAlways, CountsAlways, PTL
<1> QED BY <1>6, <1>7

(* "The returned completion must be identical to the authentic provider     *)
(* output" (docs/methods/local_cache_layer.md:205): a hit is in the format  *)
(* of the client's provider, but for what the Gemini bridge stores under    *)
(* OpenAI; with no Gemini client of a host-local engine it always is.       *)
THEOREM HitsAreAuthentic ==
    ASSUME NothingIsBridged PROVE Spec => []HitIsAuthentic
<1>1. AuthenticInv => HitIsAuthentic
  BY DEF AuthenticInv, Authentic, HitIsAuthentic
<1>2. RecordInv /\ AuthenticInv /\ [Next]_vars => AuthenticInv'
  BY AuthenticStep
<1> QED BY <1>1, <1>2, AuthenticInit, AddonAlways, PTL DEF Spec

(* A request that repeats one whose reply was stored is answered from the   *)
(* cache (README.md:19-20), whatever other flows do in between, when no     *)
(* lookup fails, but for two kinds of request whose replies are stored      *)
(* where they are not looked up: bridged Gemini ones, and wordless ones     *)
(* whose cache_control is stripped.                                         *)
THEOREM RepeatsAreServed ==
    ASSUME NothingIsBridged, StrippedHaveWords, "lookup" \notin Faults
    PROVE  Spec => RepeatIsServed
<1> DEFINE Repeats(f, g) ==
       /\ flow[f].stage = "new" /\ flow'[f].handling = "optimized"
       /\ ~flow[f].request.stream
       /\ flow[g].kept /\ flow[g].handling = "optimized" /\ Same(f, g)
<1>1. RecordInv /\ KeptInv /\ [Next]_vars =>
         [\A f, g \in Flows : Repeats(f, g) => flow'[f].cached]_vars
  BY RepeatHits
<1>2. RecordInv /\ AuthenticInv /\ [Next]_vars => AuthenticInv'
  BY AuthenticStep
<1>3. RecordInv /\ AuthenticInv /\ KeptInv /\ [Next]_vars => KeptInv'
  BY KeptStep
<1>4. Spec => []KeptInv
  BY <1>2, <1>3, AuthenticInit, KeptInit, AddonAlways, PTL DEF Spec
<1> QED BY <1>1, <1>4, AddonAlways, PTL DEF Spec, RepeatIsServed
=============================================================================
