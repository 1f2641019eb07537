----------------------------- MODULE TimingGate -----------------------------
(***************************************************************************)
(* The CI timing gate (scripts/ci_timing_gate.py): every job's duration is *)
(* compared, on a pull request, with the records main left behind as       *)
(* artefacts of its runs.                                                  *)
(*                                                                         *)
(* The artefact store and the labels are GitHub's; a request to either may *)
(* fail, and the gate then says less instead of failing the job.           *)
(***************************************************************************)
EXTENDS Filter, FiniteSets, SequencesExt

CONSTANTS
    Count,         \* --baseline-count
    Tolerance,     \* --tolerance-percent
    MinDelta,      \* --min-delta
    Ceiling,       \* --ceiling
    MainDurations, \* of runs on main, in seconds
    ForkDurations, \* on a fork's branch of that name
    Durations,     \* of a pull request
    MaxArtifacts   \* bound on the artefacts

ASSUME GateAssumption ==
    /\ Count \in Nat \ {0} /\ Tolerance \in Nat /\ MinDelta \in Nat /\ Ceiling \in Nat
    /\ MainDurations \cup ForkDurations \cup Durations \subseteq Nat \ {0} /\ MaxArtifacts \in Nat

VARIABLES
    artifacts,     \* the artefacts of the job's name, most recent first
    labelled,      \* whether the pull request has the accept label
    payload,       \* and had it when its run was triggered
    answer         \* the last comparison; <<>> when there is none
gateVars == <<artifacts, labelled, payload, answer>>

\* An artefact is of main, or of a branch of that name in a fork.  An expired one
\* stays listed, one whose archive or record is damaged cannot be read and has no
\* duration.
Artifact(origin, duration, readable) ==
    [origin |-> origin, duration |-> duration, readable |-> readable, expired |-> FALSE]
-----------------------------------------------------------------------------
(* Selection. *)

\* Mutant: the name of the branch is enough.
MutantIsMainArtifact(a) == ~a.expired

\* is_main_artifact
IsMainArtifact(a) == ~a.expired /\ a.origin = "main"

\* Main's artefacts, most recent first, as many as are downloaded.
Tried(list) ==
    LET selected == Keep(list, {a \in ToSet(list) : IsMainArtifact(a)})
    IN  SubSeq(selected, 1, Min({Len(selected), 2 * Count}))

\* load_baseline: the durations of the first `Count` records that can be read.
LoadBaseline(list, listed) ==
    IF ~listed THEN <<>>
    ELSE LET records == Keep(Tried(list), {a \in ToSet(Tried(list)) : a.readable})
         IN  [i \in 1..Min({Len(records), Count}) |-> records[i].duration]

\* In ascending order, each value inserted after those that are not greater.
Insert(sorted, v) ==
    LET n == Cardinality({i \in DOMAIN sorted : sorted[i] <= v})
    IN  SubSeq(sorted, 1, n) \o <<v>> \o SubSeq(sorted, n + 1, Len(sorted))

Sorted(values) ==
    LET sorted[k \in 0..Len(values)] ==
            IF k = 0 THEN <<>> ELSE Insert(sorted[k - 1], values[k])
    IN  sorted[Len(values)]

\* Twice the median, which halves a sum.
TwiceMedian(values) ==
    LET sorted == Sorted(values)
        n      == Len(values)
    IN  IF n % 2 = 1 THEN 2 * sorted[(n + 1) \div 2] ELSE sorted[n \div 2] + sorted[n \div 2 + 1]
-----------------------------------------------------------------------------
(* The decision. *)

\* check_relative: longer by more than the tolerance and more than the least delta.
Regressed(duration, baseline) ==
    /\ Len(baseline) = Count
    /\ LET twice == TwiceMedian(baseline)
       IN  200 * duration > twice * (100 + Tolerance) /\ 2 * duration > twice + 2 * MinDelta

\* check_ceiling
OverCeiling(duration) == duration > Ceiling

\* decide
Decide2(duration, baseline, accepted) ==
    IF OverCeiling(duration) THEN "fail"
    ELSE IF ~Regressed(duration, baseline) THEN "pass"
    ELSE IF accepted THEN "warn" ELSE "fail"

\* pr_labels: read live, or those of the event if that fails.
Accepted(asked) == IF asked THEN labelled ELSE payload
-----------------------------------------------------------------------------
\* run_record, on a push to main; its artefact is uploaded if it did not fail.
RecordMain(duration) ==
    /\ Len(artifacts) < MaxArtifacts
    /\ ~OverCeiling(duration)
    /\ artifacts' \in {<<Artifact("main", duration, TRUE)>> \o artifacts,
                      <<Artifact("main", 0, FALSE)>> \o artifacts}
    /\ answer' = <<>>
    /\ UNCHANGED <<labelled, payload>>

RecordFork(duration) ==
    /\ Len(artifacts) < MaxArtifacts
    /\ artifacts' = <<Artifact("fork", duration, TRUE)>> \o artifacts
    /\ answer' = <<>>
    /\ UNCHANGED <<labelled, payload>>

\* The oldest that has not.
Expires ==
    \E i \in DOMAIN artifacts :
        /\ ~artifacts[i].expired /\ \A k \in (i + 1)..Len(artifacts) : artifacts[k].expired
        /\ artifacts' = [artifacts EXCEPT ![i].expired = TRUE]
        /\ answer' = <<>>
        /\ UNCHANGED <<labelled, payload>>

SetLabel ==
    /\ labelled' = ~labelled /\ answer' = <<>>
    /\ UNCHANGED <<artifacts, payload>>

\* A commit is pushed to the pull request; a job run again keeps the old event.
Push ==
    /\ payload' = labelled /\ answer' = <<>>
    /\ UNCHANGED <<artifacts, labelled>>

\* run_compare, of which the listing and the label request may fail.
Compare(duration, listed, asked) ==
    /\ answer' = <<[duration |-> duration, listed |-> listed, asked |-> asked,
                    status |-> Decide2(duration, LoadBaseline(artifacts, listed), Accepted(asked))]>>
    /\ UNCHANGED <<artifacts, labelled, payload>>

\* main, of a job whose start was not stamped: nothing is compared, or recorded.
Skip(duration) ==
    /\ answer' = <<[duration |-> duration, listed |-> FALSE, asked |-> FALSE, status |-> "skipped"]>>
    /\ UNCHANGED <<artifacts, labelled, payload>>

GateInit == artifacts = <<>> /\ labelled = FALSE /\ payload = FALSE /\ answer = <<>>
GateNext ==
    \/ \E d \in MainDurations : RecordMain(d)
    \/ \E d \in ForkDurations : RecordFork(d)
    \/ Expires \/ SetLabel \/ Push
    \/ \E d \in Durations : Skip(d) \/ \E listed, asked \in BOOLEAN : Compare(d, listed, asked)
GateSpec == GateInit /\ [][GateNext]_gateVars
-----------------------------------------------------------------------------
(* Properties. *)

\* Main's records that are still there, and those of them that count.
MainRuns == Keep(artifacts, {a \in ToSet(artifacts) : a.origin = "main" /\ ~a.expired})
Recent == SubSeq(MainRuns, 1, Min({Len(MainRuns), 2 * Count}))
Counted ==
    {i \in DOMAIN Recent :
        Recent[i].readable /\ Cardinality({k \in 1..i : Recent[k].readable}) <= Count}
Longer(d, e) == 100 * d > e * (100 + Tolerance) /\ d > e + MinDelta

(* A run that is too long by every one of main's latest records is stopped,  *)
(* unless the label is on it, whatever forks record under the same name,     *)
(* whatever has expired, and although up to half of the latest records       *)
(* cannot be read (ci_timing_gate.py:134-176, 255-259, 443-461); nothing     *)
(* accepts a run over the ceiling (:171).  Only a job without a start stamp  *)
(* is let through unseen (:518-520).                                         *)
RegressionIsStopped ==
    \A i \in DOMAIN answer :
        LET a == answer[i] IN
        /\ a.duration > Ceiling => a.status \in {"fail", "skipped"}
        /\ (a.listed /\ Cardinality(Counted) = Count
                /\ \A k \in Counted : Longer(a.duration, Recent[k].duration))
           => a.status \in {"warn", "fail"}

(* A run that every one of main's latest records would let through passes,   *)
(* without a label, and so does one there are too few records for: no fault  *)
(* of the store fails a job (:44, :137-143).                                 *)
OrdinaryRunPasses ==
    \A i \in DOMAIN answer :
        LET a == answer[i] IN
        (/\ a.duration <= Ceiling
         /\ \/ ~a.listed \/ Cardinality(Counted) < Count
            \/ \A k \in Counted : ~Longer(a.duration, Recent[k].duration))
        => a.status \in {"pass", "skipped"}

(* "Re-running a job after adding the label honours it; the event payload of *)
(* a re-run is stale" (:329): a regression is accepted exactly if the label  *)
(* is on the pull request now, as long as GitHub answers.                    *)
LabelIsReadLive ==
    \A i \in DOMAIN answer :
        LET a == answer[i] IN
        a.asked => /\ a.status = "warn" => labelled
                   /\ a.status = "fail" /\ labelled => a.duration > Ceiling

(* The gate stops what main's latest records show to be a regression and     *)
(* nothing else, forks, expiry and unreadable records aside, and the label   *)
(* that lets one pass is the one of now (ci_timing_gate.py:134-176).         *)
GateJudgesByMain == RegressionIsStopped /\ OrdinaryRunPasses /\ LabelIsReadLive
=============================================================================
