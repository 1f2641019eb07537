----------------------------- MODULE AbWorkload -----------------------------
(***************************************************************************)
(* The workload A/B test (run_workload_ab_test in commands/ab_test.py and  *)
(* evaluate_runs in ab_testing/evaluation.py): a command is run twice      *)
(* through a running proxy, which is told to change its mode and log       *)
(* directory before each pass; the two logs are then read, and paired by   *)
(* position.                                                               *)
(*                                                                         *)
(* The proxy is another process: a mode request may fail or be applied     *)
(* after its sender has given up, replies come when they come, the log's   *)
(* thread writes later (WireLog), and other agents use the proxy too.      *)
(* What the test relies on is in `faults`, a history variable.             *)
(***************************************************************************)
EXTENDS Filter, FiniteSets, SequencesExt

CONSTANTS
    Turns,         \* requests the workload makes, if it is not cut short
    FullTokens,    \* input tokens of each turn as it is, and of another agent's (0)
    CleanedTokens, \* and of the same cleaned; a small one may grow
    Body,          \* the list that the request of each turn holds, and another agent's (0)
    FailUnder,     \* --fail-under-reduction
    Rounds,        \* --rounds
    MaxOthers,     \* bound on other agents' requests
    MaxFaults      \* bound on faults; each kind happens once at most

ASSUME AbAssumption ==
    /\ Turns \in Nat \ {0} /\ Rounds \in Nat \ {0} /\ FailUnder \in 0..100
    /\ FullTokens \in [0..Turns -> Nat \ {0}] /\ CleanedTokens \in [0..Turns -> Nat \ {0}]
    /\ Body \in [0..Turns -> {"messages", "contents", "other"}]
    /\ MaxOthers \in Nat /\ MaxFaults \in Nat

VARIABLES
    proxy,         \* default_passive and wire_log_dir of the proxy
    late,          \* mode requests that are still on their way
    stage,         \* what the test does next: switch, run, load, scored, failed
    pass,          \* and for which pass
    turn,          \* turns of this pass that were answered
    open,          \* requests without an answer
    others,        \* other agents' requests so far
    queue,         \* records dumped and not written
    logs,          \* transactions.jsonl of the two directories
    loaded,        \* what the test read of them
    verdict,       \* the scorecard
    switched,      \* passes whose mode request was applied
    faults         \* what went wrong around the test
abVars == <<proxy, late, stage, pass, turn, open, others, queue, logs, loaded, verdict, switched,
            faults>>

Passes == {"A", "B"}
Mode(p) == IF p = "A" THEN "baseline" ELSE "optimized"
Modes == {"baseline", "optimized"}

May(fault) ==
    /\ fault \notin faults /\ Cardinality(faults) < MaxFaults
    /\ faults' = faults \cup {fault}
Going(to, p) == stage' = to /\ pass' = p
-----------------------------------------------------------------------------
(* run_workload_ab_test *)

\* set_proxy_mode, whose result is not looked at.
SwitchTo(p) ==
    /\ stage = "switch" /\ pass = p
    /\ Going("run", p) /\ turn' = 0
    /\ \/ /\ proxy' = [mode |-> Mode(p), dir |-> p] /\ switched' = switched \cup {p}
          /\ UNCHANGED <<late, faults>>
       \/ May("switch") /\ late' \in {late, late \cup {p}} /\ UNCHANGED <<proxy, switched>>
    /\ UNCHANGED <<open, others, queue, logs, loaded, verdict>>

\* Requests of the pass under way that have no answer.
Own(p) == {f \in open : f.pass = p}

\* The workload sends its next turn, or the one that failed again.
Ask(p) ==
    /\ stage = "run" /\ pass = p
    /\ Own(p) = {} /\ turn < Turns
    /\ open' = open \cup {[pass |-> p, turn |-> turn + 1, pinned |-> "no", handled |-> proxy.mode]}
    /\ UNCHANGED <<proxy, late, stage, pass, turn, others, queue, logs, loaded, verdict, switched, faults>>

\* The command ends, whether it has done all or not; its exit code is only printed.
CommandEnds(p) ==
    /\ stage = "run" /\ pass = p
    /\ IF p = "A" THEN Going("switch", "B") ELSE Going("load", "A")
    /\ IF Own(p) = {} THEN faults' = faults ELSE May("left open")
    /\ UNCHANGED <<proxy, late, turn, open, others, queue, logs, loaded, verdict, switched>>
-----------------------------------------------------------------------------
(* The proxy. *)

\* _mode_post, of a request its sender has given up.
SwitchLate(p) ==
    /\ p \in late /\ late' = late \ {p}
    /\ proxy' = [mode |-> Mode(p), dir |-> p] /\ switched' = switched \cup {p}
    /\ UNCHANGED <<stage, pass, turn, open, others, queue, logs, loaded, verdict, faults>>

\* Another agent's request, pinned to a mode by its header or not.
AskOther(pin) ==
    /\ others < MaxOthers /\ others' = others + 1
    /\ open' = open \cup {[pass |-> "other", turn |-> 0, pinned |-> pin,
                           handled |-> IF pin = "no" THEN proxy.mode ELSE pin]}
    /\ UNCHANGED <<proxy, late, stage, pass, turn, queue, logs, loaded, verdict, switched, faults>>

\* build_wire_record and _dump_flow_transaction: mode and directory are those of now.
WireRecord(f, ok) ==
    [pass |-> f.pass, turn |-> f.turn, handled |-> f.handled, ok |-> ok,
     mode |-> IF f.pinned = "no" THEN proxy.mode ELSE f.pinned]

Answer(f, ok) ==
    LET r == WireRecord(f, ok) IN
    /\ open' = open \ {f}
    /\ queue' = IF proxy.dir \in Passes THEN Append(queue, [dir |-> proxy.dir, record |-> r]) ELSE queue
    /\ turn' = IF ok /\ stage = "run" /\ pass = f.pass THEN turn + 1 ELSE turn
    /\ IF ~ok THEN May("retried")
       ELSE IF f.pass = "other" /\ proxy.dir \in Passes /\ r.mode = Mode(proxy.dir) THEN May("other agent")
       ELSE faults' = faults
    /\ UNCHANGED <<proxy, late, stage, pass, others, logs, loaded, verdict, switched>>

\* The log's thread writes the record, or cannot.
WriteRecord ==
    /\ queue # <<>> /\ queue' = Tail(queue)
    /\ LET next == Head(queue) IN
       \/ logs' = [logs EXCEPT ![next.dir] = Append(@, next.record)] /\ faults' = faults
       \/ May("lost") /\ logs' = logs
    /\ UNCHANGED <<proxy, late, stage, pass, turn, open, others, loaded, verdict, switched>>
-----------------------------------------------------------------------------
(* evaluate_runs *)

\* Mutant: every record of the directory is of its variant.
MutantOfVariant(log, other) == log

\* _pair_baseline_and_optimized_runs: without the other variant's records,
\* unless there are no others.
OfVariant(log, other) ==
    LET kept == Keep(log, {r \in ToSet(log) : r.mode # other})
    IN  IF kept # <<>> THEN kept ELSE log

Pairs(base, opt) ==
    LET b == OfVariant(base, "optimized")
        o == OfVariant(opt, "baseline")
    IN  [i \in 1..Min({Len(b), Len(o)}) |-> [base |-> b[i], opt |-> o[i]]]

\* _extract_turn_tokens_and_chars: what the provider counted.
Tokens(r) == IF r.handled = "baseline" THEN FullTokens[r.turn] ELSE CleanedTokens[r.turn]

Less(a, b) == IF a > b THEN a - b ELSE 0

\* The tokens of one side of the turns, baseline or optimized.
TokensOf(turns, side) ==
    LET sum[n \in 0..Len(turns)] == IF n = 0 THEN 0 ELSE sum[n - 1] + Tokens(turns[n][side])
    IN  sum[Len(turns)]

\* _aggregate_dual_scorecard: of the sums, which a turn that grew makes smaller.
Reduced(turns) == Less(TokensOf(turns, "base"), TokensOf(turns, "opt"))

\* Every round evaluates the same pairs again.
Evaluated(pairs) ==
    LET after[round \in 0..Rounds] == IF round = 0 THEN <<>> ELSE after[round - 1] \o pairs
    IN  after[Rounds]

\* _verify_paired_semantic_parity: two successes, and no list lost.
InParity(pair) ==
    /\ pair.base.ok /\ pair.opt.ok
    /\ Body[pair.base.turn] \in {"messages", "contents"} => Body[pair.opt.turn] = Body[pair.base.turn]

\* The whole percentages p with p / 100 * 100.0 < p in double precision.  A quotient
\* is rounded the same whatever its terms, so it matters for no other comparison.
FallShort == {29, 57, 58}

\* reduced / total * 100.0 >= fail_under
Reaches(reduced, total) ==
    \/ 100 * reduced > FailUnder * total
    \/ 100 * reduced = FailUnder * total /\ FailUnder \notin FallShort

Scorecard(base, opt) ==
    LET turns == Evaluated(Pairs(base, opt))
        total == TokensOf(turns, "base")
    IN  [pairs  |-> Pairs(base, opt),
         parity |-> \A i \in DOMAIN turns : InParity(turns[i]),
         passed |-> IF total > 0 THEN Reaches(Reduced(turns), total) ELSE FailUnder = 0]

\* load_transactions_from_path raises, and the test ends with an error.
NoRecords(log) == log = <<>>

LoadA ==
    /\ stage = "load" /\ pass = "A"
    /\ IF NoRecords(logs["A"]) THEN Going("failed", "A") ELSE Going("load", "B")
    /\ loaded' = [loaded EXCEPT !["A"] = logs["A"]]
    /\ UNCHANGED <<proxy, late, turn, open, others, queue, logs, verdict, switched, faults>>

\* The optimized records are loaded and compared.
Evaluate ==
    /\ stage = "load" /\ pass = "B"
    /\ IF NoRecords(logs["B"]) THEN Going("failed", "B") /\ UNCHANGED verdict
       ELSE Going("scored", "B") /\ verdict' = <<Scorecard(loaded["A"], logs["B"])>>
    /\ loaded' = [loaded EXCEPT !["B"] = logs["B"]]
    /\ UNCHANGED <<proxy, late, turn, open, others, queue, logs, switched, faults>>

AbInit ==
    /\ proxy \in {[mode |-> m, dir |-> "own"] : m \in Modes}
    /\ late = {} /\ stage = "switch" /\ pass = "A" /\ turn = 0 /\ open = {} /\ others = 0
    /\ queue = <<>> /\ logs = [p \in Passes |-> <<>>] /\ loaded = [p \in Passes |-> <<>>] /\ verdict = <<>>
    /\ switched = {} /\ faults = {}

AbNext ==
    \/ \E p \in Passes : SwitchTo(p) \/ Ask(p) \/ CommandEnds(p) \/ SwitchLate(p)
    \/ \E pin \in Modes \cup {"no"} : AskOther(pin)
    \/ \E f \in open, ok \in BOOLEAN : Answer(f, ok)
    \/ WriteRecord \/ LoadA \/ Evaluate

AbSpec == AbInit /\ [][AbNext]_abVars
-----------------------------------------------------------------------------
(* Properties. *)

Scored == {i \in DOMAIN verdict : TRUE}

(* What is compared is the same turn, forwarded as it is in pass A and       *)
(* cleaned in pass B (docs/ab_testing_guide.md:54), although the pairs are   *)
(* taken by position (evaluation.py:647-665): with other agents pinned to    *)
(* the other variant, a command cut short, and records the log has not       *)
(* written when it is read.  It needs all of: mode requests applied at once, *)
(* no reply after the command's end, no failed turn, no record lost, no      *)
(* other agent in the variant under test, and a record of the command in     *)
(* each log; with none, the other agents' are compared.                      *)
PairsAreOfOneTurn ==
    faults = {} /\ (\A p \in Passes : \E k \in DOMAIN loaded[p] : loaded[p][k].pass = p) =>
        \A i \in Scored : \A k \in DOMAIN verdict[i].pairs :
            LET p == verdict[i].pairs[k] IN
            /\ p.base.pass = "A" /\ p.opt.pass = "B" /\ p.base.turn = p.opt.turn
            /\ p.base.handled = "baseline" /\ p.opt.handled = "optimized"

(* set_proxy_mode's failure is not looked at (ab_test.py:95, 104), but no    *)
(* scorecard comes of a pass whose mode request was never applied: its       *)
(* directory stays empty, and the test ends with an error.                   *)
UnswitchedPassIsNotScored == Scored # {} => switched = Passes

\* The optimized pass took fewer tokens by the percentage asked for, or by more.
TokensLess(pairs) == 100 * TokensOf(pairs, "opt") < (100 - FailUnder) * TokensOf(pairs, "base")
TokensEnough(pairs) == 100 * TokensOf(pairs, "opt") <= (100 - FailUnder) * TokensOf(pairs, "base")

(* The gate is about all the turns compared together, however often they     *)
(* are evaluated: it lets nothing through that saved less than asked for, a  *)
(* turn that grew counted against the others, and all that saved more; what  *)
(* saved just as much, the rounding decides, so that 29 of 100 tokens do not *)
(* pass a minimum of 29 percent (evaluation.py:599-635).  Parity is never    *)
(* found where a reply failed, and never missed where all succeeded and      *)
(* every pair is of one turn (evaluation.py:520-536).                        *)
GateIsOfTheWhole ==
    \A i \in Scored :
        LET pairs  == verdict[i].pairs
            fine   == \A k \in DOMAIN pairs : pairs[k].base.ok /\ pairs[k].opt.ok
            inStep == \A k \in DOMAIN pairs : pairs[k].base.turn = pairs[k].opt.turn
        IN  /\ verdict[i].parity => fine
            /\ fine /\ inStep => verdict[i].parity
            /\ verdict[i].passed => TokensEnough(pairs) \/ FailUnder = 0
            /\ TokensLess(pairs) \/ FailUnder = 0 => verdict[i].passed

(* A verdict of the workload test is about the two passes of one workload in *)
(* their two modes, turn by turn, as far as the code lets it be, and about   *)
(* all the turns it paired (ab_test.py:72-122, evaluation.py:638-675).       *)
ScoredPassesAreComparable ==
    PairsAreOfOneTurn /\ UnswitchedPassIsNotScored /\ GateIsOfTheWhole
=============================================================================
