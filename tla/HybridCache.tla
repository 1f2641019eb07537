---------------------------- MODULE HybridCache ----------------------------
(***************************************************************************)
(* The disk-backed response cache (hybrid_cache.py): one SQLite table      *)
(* shared by several proxy processes, each with its own HybridCacheStore.  *)
(*                                                                         *)
(* A process runs one call at a time, on its event loop; between two SQL   *)
(* statements of a call any other process may run one.  A key stands for   *)
(* a normalised payload with its provider: two requests that differ only   *)
(* in timestamps, UUIDs or run ids have one key.  hit_count, which nothing *)
(* reads, is left out; the statement that counts a hit is not, since a     *)
(* lookup fails if it does.                                                *)
(***************************************************************************)
EXTENDS Integers, FiniteSets

CONSTANTS
    Procs,           \* proxy processes sharing the database file
    Keys,            \* normalised payloads, each for one provider
    Provider,        \* the provider of a key
    System,          \* the system prompt of a key
    Similar,         \* pairs whose recent user turns score at least the threshold
    Tokenless,       \* keys whose recent user turns hold no word
    Absent,          \* no row
    Ttl,             \* ttl_seconds; 0 disables expiry
    Interval,        \* prune_interval_seconds
    BatchSize,       \* prune_batch_size
    CandidateLimit,  \* candidate_limit
    MaxTime,         \* bound on both clocks
    MaxSteps         \* bound on the steps of the wall clock

ASSUME ConstantsAssumption ==
    /\ Similar \subseteq Keys \X Keys
    /\ Tokenless \subseteq Keys
    /\ Ttl \in Nat /\ MaxTime \in Nat /\ MaxSteps \in Nat
    /\ Interval \in Nat \ {0}
    /\ BatchSize \in Nat \ {0}
    /\ CandidateLimit \in Nat \ {0}

VARIABLES
    rows,        \* the table: key -> row or Absent
    wall,        \* time.time()
    mono,        \* time.monotonic()
    steps,       \* wall clock steps so far
    pc,          \* where each process is in its call
    key,         \* the key of the call
    since,       \* get: oldest created_at still fresh; put: the created_at to store
    cutoff,      \* put: the sweep's cutoff
    batch,       \* put: the keys the sweep is about to delete
    seen,        \* get: the rows it has read, key -> row
    nextSweep,   \* _next_prune_at
    sweeps,      \* _sweep_count
    answer       \* the row the last completed get served, or Absent

call == <<key, since, cutoff, batch, seen>>
clocks == <<wall, mono, steps>>
vars == <<rows, clocks, pc, call, nextSweep, sweeps, answer>>

\* "legacy": written before the shingle columns existed; "bad": legacy, and its
\* stored prompt does not parse.
Shingles == {"known", "legacy", "bad"}
Row == [at : 0..MaxTime, shingles : Shingles]

ASSUME AbsentAssumption == Absent \notin Row

PC == {"idle", "hit", "candidates", "scan", "select", "delete", "upsert"}

Present == {k \in Keys : rows[k] # Absent}
NoRows == [k \in {} |-> Absent]

Init ==
    /\ rows \in [Keys -> {Absent} \cup [at : {0}, shingles : {"legacy", "bad"}]]
    /\ wall = 0 /\ mono = 0 /\ steps = 0
    /\ pc = [p \in Procs |-> "idle"]
    /\ key \in [Procs -> Keys]
    /\ since = [p \in Procs |-> 0]
    /\ cutoff = [p \in Procs |-> 0]
    /\ batch = [p \in Procs |-> {}]
    /\ seen = [p \in Procs |-> NoRows]
    /\ nextSweep = [p \in Procs |-> 0]
    /\ sweeps = [p \in Procs |-> 0]
    /\ answer = [p \in Procs |-> Absent]

Goto(p, label) == pc' = [pc EXCEPT ![p] = label]

\* The freshness clause: with expiry disabled every row passes.
FreshSince == IF Ttl > 0 THEN wall - Ttl ELSE -MaxTime

-----------------------------------------------------------------------------
(* get                                                                     *)

\* The exact SELECT, whose answer decides how the lookup goes on.
LookupExact(p, k) ==
    /\ pc[p] = "idle"
    /\ key' = [key EXCEPT ![p] = k]
    /\ since' = [since EXCEPT ![p] = FreshSince]
    /\ answer' = [answer EXCEPT ![p] = Absent]
    /\ IF k \in Present /\ rows[k].at >= FreshSince
         THEN Goto(p, "hit") /\ seen' = [seen EXCEPT ![p] = [j \in {k} |-> rows[k]]]
         ELSE /\ Goto(p, IF k \in Tokenless THEN "idle" ELSE "candidates")
              /\ UNCHANGED seen
    /\ UNCHANGED <<rows, clocks, cutoff, batch, nextSweep, sweeps>>

Serve(p, k) ==
    /\ answer' = [answer EXCEPT ![p] =
           [asked |-> key[p], from |-> k, row |-> seen[p][k], since |-> since[p]]]
    /\ seen' = [seen EXCEPT ![p] = NoRows]
    /\ Goto(p, "idle")

\* UPDATE hit_count, commit, and serve the response read before.
CountHit(p) ==
    /\ pc[p] = "hit"
    /\ Serve(p, key[p])
    /\ UNCHANGED <<rows, clocks, key, since, cutoff, batch, nextSweep, sweeps>>

\* The newest fresh rows of the provider, at most CandidateLimit of them.
MutantEligible(p) == {k \in Present : Provider[k] = Provider[key[p]]}
Eligible(p) ==
    {k \in Present : Provider[k] = Provider[key[p]] /\ rows[k].at >= since[p]}

Newest(S, n) ==
    {C \in SUBSET S :
        /\ Cardinality(C) = IF Cardinality(S) < n THEN Cardinality(S) ELSE n
        /\ \A c \in C, d \in S \ C : rows[c].at >= rows[d].at}

SelectCandidates(p) ==
    /\ pc[p] = "candidates"
    /\ \E C \in Newest(Eligible(p), CandidateLimit) :
          seen' = [seen EXCEPT ![p] = [k \in C |-> rows[k]]]
    /\ Goto(p, "scan")
    /\ UNCHANGED <<rows, clocks, key, since, cutoff, batch, nextSweep, sweeps, answer>>

\* An operator that says Mutant is the one after it with a mistake, which the
\* project's runs must notice.
MutantMatches(p) == {k \in DOMAIN seen[p] : seen[p][k].shingles # "bad" /\ <<key[p], k>> \in Similar}
Matches(p) ==
    {k \in DOMAIN seen[p] :
        /\ seen[p][k].shingles # "bad"
        /\ System[k] = System[key[p]]
        /\ <<key[p], k>> \in Similar}

\* UPDATE the shingles of legacy rows; a row gone meanwhile is not brought back.
Backfill(S) ==
    rows' = [k \in Keys |->
        IF k \in S /\ rows[k] # Absent /\ rows[k].shingles = "legacy"
        THEN [rows[k] EXCEPT !.shingles = "known"] ELSE rows[k]]

\* Scan newest first, backfilling the legacy rows passed, up to the first match.
\* One transaction: it commits on the match or at the end.
ScanCandidates(p) ==
    /\ pc[p] = "scan"
    /\ IF Matches(p) = {}
         THEN /\ Backfill(DOMAIN seen[p])
              /\ seen' = [seen EXCEPT ![p] = NoRows]
              /\ Goto(p, "idle")
              /\ UNCHANGED answer
         ELSE \E m \in Matches(p) :
              /\ \A k \in Matches(p) : seen[p][m].at >= seen[p][k].at
              /\ \E ties \in SUBSET {k \in DOMAIN seen[p] \ Matches(p) :
                                         seen[p][k].at = seen[p][m].at} :
                    Backfill({m} \cup ties \cup
                             {k \in DOMAIN seen[p] : seen[p][k].at > seen[p][m].at})
              /\ Serve(p, m)
    /\ UNCHANGED <<clocks, key, since, cutoff, batch, nextSweep, sweeps>>

-----------------------------------------------------------------------------
(* put, with the sweep it may run                                          *)

MutantSweepDue(p) == Ttl > 0 /\ wall >= nextSweep[p]
SweepDue(p) == Ttl > 0 /\ mono >= nextSweep[p]

\* The created_at stamp is taken before the sweep; the sweep is gated by the
\* monotonic clock and its gate is moved before it runs.
StartPut(p, k) ==
    /\ pc[p] = "idle"
    /\ key' = [key EXCEPT ![p] = k]
    /\ since' = [since EXCEPT ![p] = wall]
    /\ IF SweepDue(p)
         THEN /\ nextSweep' = [nextSweep EXCEPT ![p] = mono + Interval]
              /\ sweeps' = [sweeps EXCEPT ![p] = @ + 1]
              /\ cutoff' = [cutoff EXCEPT ![p] = wall - Ttl]
              /\ Goto(p, "select")
         ELSE /\ Goto(p, "upsert")
              /\ UNCHANGED <<nextSweep, sweeps, cutoff>>
    /\ UNCHANGED <<rows, clocks, batch, seen, answer>>

Expired(p) == {k \in Present : rows[k].at < cutoff[p]}

SelectBatch(p) ==
    /\ pc[p] = "select"
    /\ IF Expired(p) = {}
         THEN Goto(p, "upsert") /\ UNCHANGED batch
         ELSE \E B \in SUBSET Expired(p) :
              /\ Cardinality(B) = IF Cardinality(Expired(p)) < BatchSize
                                  THEN Cardinality(Expired(p)) ELSE BatchSize
              /\ batch' = [batch EXCEPT ![p] = B]
              /\ Goto(p, "delete")
    /\ UNCHANGED <<rows, clocks, key, since, cutoff, seen, nextSweep, sweeps, answer>>

MutantLastBatch(p) == Cardinality(batch[p]) <= BatchSize
LastBatch(p) == Cardinality(batch[p]) < BatchSize

MutantWithout(keys) == rows
Without(keys) == [k \in Keys |-> IF k \in keys THEN Absent ELSE rows[k]]

\* DELETE ... WHERE key IN (batch): by key, whatever the row says by now.
DeleteBatch(p) ==
    /\ pc[p] = "delete"
    /\ rows' = Without(batch[p])
    /\ Goto(p, IF LastBatch(p) THEN "upsert" ELSE "select")
    /\ batch' = [batch EXCEPT ![p] = {}]
    /\ UNCHANGED <<clocks, key, since, cutoff, seen, nextSweep, sweeps, answer>>

Upsert(p) ==
    /\ pc[p] = "upsert"
    /\ rows' = [rows EXCEPT ![key[p]] = [at |-> since[p], shingles |-> "known"]]
    /\ Goto(p, "idle")
    /\ UNCHANGED <<clocks, call, nextSweep, sweeps, answer>>

-----------------------------------------------------------------------------
Clear(p) ==
    /\ pc[p] = "idle"
    /\ rows' = [k \in Keys |-> Absent]
    /\ UNCHANGED <<clocks, pc, call, nextSweep, sweeps, answer>>

\* A statement raises (database locked past busy_timeout, disk full): the call
\* ends without a result and its caller logs the exception.
Fail(p) ==
    /\ pc[p] # "idle"
    /\ Goto(p, "idle")
    /\ batch' = [batch EXCEPT ![p] = {}]
    /\ seen' = [seen EXCEPT ![p] = NoRows]
    /\ UNCHANGED <<rows, clocks, key, since, cutoff, nextSweep, sweeps, answer>>

\* Time passes; the wall clock may also be stepped, either way.
Tick ==
    /\ wall < MaxTime /\ mono < MaxTime
    /\ wall' = wall + 1
    /\ mono' = mono + 1
    /\ UNCHANGED <<rows, steps, pc, call, nextSweep, sweeps, answer>>

StepWallClock ==
    /\ steps < MaxSteps
    /\ steps' = steps + 1
    /\ wall' \in 0..MaxTime
    /\ UNCHANGED <<rows, mono, pc, call, nextSweep, sweeps, answer>>

Get(p) ==
    \/ \E k \in Keys : LookupExact(p, k)
    \/ CountHit(p)
    \/ SelectCandidates(p)
    \/ ScanCandidates(p)

Sweep(p) == SelectBatch(p) \/ DeleteBatch(p)

Put(p) ==
    \/ \E k \in Keys : StartPut(p, k)
    \/ Sweep(p)
    \/ Upsert(p)

Next ==
    \/ \E p \in Procs : Get(p) \/ Put(p) \/ Clear(p) \/ Fail(p)
    \/ Tick
    \/ StepWallClock

Spec == Init /\ [][Next]_vars

-----------------------------------------------------------------------------
\* What a lookup may have read.
Reads == UNION {[K -> Row] : K \in SUBSET Keys}

TypeOK ==
    /\ rows \in [Keys -> {Absent} \cup Row]
    /\ wall \in 0..MaxTime /\ mono \in 0..MaxTime /\ steps \in 0..MaxSteps
    /\ pc \in [Procs -> PC]
    /\ key \in [Procs -> Keys]
    /\ since \in [Procs -> Int]
    /\ cutoff \in [Procs -> Int]
    /\ batch \in [Procs -> SUBSET Keys]
    /\ seen \in [Procs -> Reads]
    /\ nextSweep \in [Procs -> Nat]
    /\ sweeps \in [Procs -> Nat]
    /\ answer \in [Procs -> {Absent} \cup [asked : Keys, from : Keys, row : Row, since : Int]]

Answers == {answer[p] : p \in {q \in Procs : answer[q] # Absent}}

(* A reply is never older than the TTL when its lookup begins, on either    *)
(* path and however late the sweep is (hybrid_cache.py:135-143, 251-289).   *)
AnswerIsFresh == \A a \in Answers : a.row.at >= a.since

(* A reply answers the request: it was stored for the same normalised       *)
(* payload, or for one of the same provider and system prompt with similar  *)
(* user turns (hybrid_cache.py:255, 284, 307-314).                          *)
AnswerFits ==
    \A a \in Answers :
        \/ a.from = a.asked
        \/ /\ Provider[a.from] = Provider[a.asked]
           /\ System[a.from] = System[a.asked]
           /\ <<a.asked, a.from>> \in Similar
           /\ a.asked \notin Tokenless

(* What a lookup in progress has read keeps answering it, whatever other    *)
(* processes store, sweep or clear between its statements: it is fresh, of  *)
(* the provider asked, and for a hit the very key; a put keeps the stamp it *)
(* took when it began (hybrid_cache.py:242-358).                            *)
CallInv ==
    \A p \in Procs :
        /\ pc[p] \in {"hit", "scan"} => \A k \in DOMAIN seen[p] : seen[p][k].at >= since[p]
        /\ pc[p] = "hit" => key[p] \in DOMAIN seen[p]
        /\ pc[p] \in {"candidates", "scan"} => key[p] \notin Tokenless
        /\ pc[p] = "scan" => \A k \in DOMAIN seen[p] : Provider[k] = Provider[key[p]]
        /\ pc[p] \in {"select", "delete", "upsert"} => since[p] \in 0..MaxTime

CacheInv == TypeOK /\ CallInv

(* Sweeps are a matter of elapsed time: at most one per interval and        *)
(* process, whatever is done to the wall clock (hybrid_cache.py:158-164).   *)
SweepIsRateLimited == \A p \in Procs : sweeps[p] <= mono \div Interval + 1

(* When a sweep ends, nothing older than its cutoff is left, however many   *)
(* batches it took (hybrid_cache.py:169-184).                               *)
SweepIsComplete ==
    [][\A p \in Procs :
         pc[p] \in {"select", "delete"} /\ pc'[p] = "upsert" =>
             \A k \in Keys : rows'[k] # Absent => rows'[k].at >= cutoff[p]]_vars

(* "Delete expired entries" (hybrid_cache.py:146): a row the sweep removes  *)
(* is older than its cutoff when it is removed.                             *)
SweepSparesFresh ==
    [][\A p \in Procs :
         pc[p] = "delete" /\ pc'[p] # pc[p] =>
             \A k \in Keys : rows[k] # Absent /\ rows'[k] = Absent => rows[k].at < cutoff[p]]_vars

(* A sweep ends: its loop cannot chase rows for ever, since the cutoff is   *)
(* fixed before it starts (hybrid_cache.py:165-184).                        *)
SweepTerminates == \A p \in Procs : pc[p] = "select" ~> pc[p] \in {"upsert", "idle"}
=============================================================================
