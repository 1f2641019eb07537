------------------------- MODULE HybridCacheProofs -------------------------
(***************************************************************************)
(* Proofs about HybridCache, for any number of processes, keys and rows,   *)
(* any TTL and any behaviour of the wall clock.                            *)
(***************************************************************************)
EXTENDS HybridCache, FiniteSetTheorems, TLAPS

USE DEF clocks, call

LEMMA ReadsIntro ==
    ASSUME NEW K \in SUBSET Keys, NEW f \in [K -> Row]
    PROVE  f \in Reads
BY DEF Reads

LEMMA ReadsElim ==
    ASSUME NEW f \in Reads, NEW k \in DOMAIN f
    PROVE  DOMAIN f \subseteq Keys /\ k \in Keys /\ f[k] \in Row
BY DEF Reads

LEMMA NoRowsRead == NoRows \in Reads /\ DOMAIN NoRows = {}
<1>1. {} \in SUBSET Keys /\ NoRows \in [{} -> Row] /\ DOMAIN NoRows = {}
  BY DEF NoRows
<1> QED BY <1>1, ReadsIntro

LEMMA CacheInit == Init => CacheInv
<1> SUFFICES ASSUME Init PROVE CacheInv
  OBVIOUS
<1>1. rows \in [Keys -> {Absent} \cup Row]
  BY ConstantsAssumption DEF Init, Row, Shingles
<1>2. TypeOK
  BY <1>1, NoRowsRead, ConstantsAssumption DEF Init, TypeOK, PC
<1> QED BY <1>2 DEF Init, CacheInv, CallInv

\* The row a lookup serves is one it has read.
LEMMA ServeType ==
    ASSUME CacheInv, NEW p \in Procs, NEW k \in DOMAIN seen[p], Serve(p, k)
    PROVE  /\ answer' \in [Procs -> {Absent} \cup
                              [asked : Keys, from : Keys, row : Row, since : Int]]
           /\ seen' \in [Procs -> Reads]
           /\ pc' \in [Procs -> PC] /\ pc'[p] = "idle"
           /\ \A q \in Procs : q # p => pc'[q] = pc[q] /\ seen'[q] = seen[q]
<1>1. k \in Keys /\ seen[p][k] \in Row
  BY ReadsElim DEF CacheInv, TypeOK
<1>2. [asked |-> key[p], from |-> k, row |-> seen[p][k], since |-> since[p]]
        \in [asked : Keys, from : Keys, row : Row, since : Int]
  BY <1>1 DEF CacheInv, TypeOK
<1>3. answer' \in [Procs -> {Absent} \cup [asked : Keys, from : Keys, row : Row, since : Int]]
  BY <1>2 DEF Serve, CacheInv, TypeOK
<1> QED BY <1>3, NoRowsRead DEF Serve, Goto, CacheInv, TypeOK, PC

LEMMA BackfillType ==
    ASSUME TypeOK, NEW S, Backfill(S)
    PROVE  rows' \in [Keys -> {Absent} \cup Row]
<1>1. ASSUME NEW k \in Keys, rows[k] # Absent
      PROVE  [rows[k] EXCEPT !.shingles = "known"] \in Row
  BY <1>1 DEF TypeOK, Row, Shingles
<1> QED BY <1>1 DEF Backfill, TypeOK

LEMMA LookupStep ==
    ASSUME CacheInv, NEW p \in Procs, NEW k \in Keys, LookupExact(p, k)
    PROVE  CacheInv'
<1> USE DEF LookupExact, Goto
<1>1. FreshSince \in Int
  BY ConstantsAssumption DEF FreshSince, CacheInv, TypeOK
<1>2. CASE k \in Present /\ rows[k].at >= FreshSince
  <2>1. [j \in {k} |-> rows[k]] \in Reads
    <3>1. rows[k] \in Row
      BY <1>2 DEF Present, CacheInv, TypeOK
    <3>2. [j \in {k} |-> rows[k]] \in [{k} -> Row] /\ {k} \in SUBSET Keys
      BY <3>1
    <3> QED BY <3>2, ReadsIntro
  <2>2. TypeOK'
    BY <1>1, <1>2, <2>1 DEF CacheInv, TypeOK, PC
  <2>3. /\ pc'[p] = "hit" /\ key'[p] = k /\ since'[p] = FreshSince
        /\ seen'[p] = [j \in {k} |-> rows[k]]
        /\ \A q \in Procs : q # p =>
              pc'[q] = pc[q] /\ key'[q] = key[q] /\ since'[q] = since[q] /\ seen'[q] = seen[q]
    BY <1>2 DEF CacheInv, TypeOK
  <2> QED BY <1>2, <2>2, <2>3 DEF CacheInv, CallInv
<1>3. CASE ~(k \in Present /\ rows[k].at >= FreshSince)
  <2>1. TypeOK'
    BY <1>1, <1>3 DEF CacheInv, TypeOK, PC
  <2>2. /\ pc'[p] = IF k \in Tokenless THEN "idle" ELSE "candidates"
        /\ key'[p] = k /\ UNCHANGED seen
        /\ \A q \in Procs : q # p =>
              pc'[q] = pc[q] /\ key'[q] = key[q] /\ since'[q] = since[q]
    BY <1>3 DEF CacheInv, TypeOK
  <2> QED BY <2>1, <2>2 DEF CacheInv, CallInv
<1> QED BY <1>2, <1>3

LEMMA SelectStep ==
    ASSUME CacheInv, NEW p \in Procs, SelectCandidates(p)
    PROVE  CacheInv'
<1>1. PICK C \in Newest(Eligible(p), CandidateLimit) :
         seen' = [seen EXCEPT ![p] = [k \in C |-> rows[k]]]
  BY DEF SelectCandidates
<1>2. C \subseteq Eligible(p)
  BY DEF Newest
<1>3. \A k \in C : k \in Keys /\ rows[k] \in Row /\ Provider[k] = Provider[key[p]]
                   /\ rows[k].at >= since[p]
  BY <1>2 DEF Eligible, Present, CacheInv, TypeOK
<1>4. [k \in C |-> rows[k]] \in Reads
  <2>1. [k \in C |-> rows[k]] \in [C -> Row] /\ C \in SUBSET Keys
    BY <1>3
  <2> QED BY <2>1, ReadsIntro
<1>5. TypeOK'
  BY <1>1, <1>4 DEF SelectCandidates, Goto, CacheInv, TypeOK, PC
<1>6. /\ pc'[p] = "scan" /\ seen'[p] = [k \in C |-> rows[k]]
      /\ \A q \in Procs : q # p => pc'[q] = pc[q] /\ seen'[q] = seen[q]
      /\ pc[p] = "candidates" /\ UNCHANGED <<key, since>>
  BY <1>1 DEF SelectCandidates, Goto, CacheInv, TypeOK
<1> QED BY <1>3, <1>5, <1>6 DEF CacheInv, CallInv

\* A process that goes idle leaves the others' calls as they are.
LEMMA IdleStep ==
    ASSUME CacheInv, TypeOK', NEW p \in Procs, pc'[p] = "idle",
           \A q \in Procs : q # p => pc'[q] = pc[q] /\ seen'[q] = seen[q],
           UNCHANGED <<key, since>>
    PROVE  CacheInv'
BY DEF CacheInv, CallInv

LEMMA ServeStep ==
    ASSUME CacheInv, NEW p \in Procs, CountHit(p) \/ ScanCandidates(p)
    PROVE  CacheInv'
<1>1. CASE CountHit(p)
  <2>1. key[p] \in DOMAIN seen[p]
    BY <1>1 DEF CountHit, CacheInv, CallInv
  <2>2. TypeOK'
    BY <1>1, <2>1, ServeType DEF CountHit, CacheInv, TypeOK
  <2> QED BY <1>1, <2>1, <2>2, ServeType, IdleStep DEF CountHit
<1>2. CASE ScanCandidates(p)
  <2>1. CASE Matches(p) = {}
    <3>1. rows' \in [Keys -> {Absent} \cup Row]
      BY <1>2, <2>1, BackfillType DEF ScanCandidates, CacheInv
    <3>2. seen' = [seen EXCEPT ![p] = NoRows] /\ pc' = [pc EXCEPT ![p] = "idle"]
      BY <1>2, <2>1 DEF ScanCandidates, Goto
    <3>3. TypeOK'
      BY <1>2, <2>1, <3>1, <3>2, NoRowsRead DEF ScanCandidates, CacheInv, TypeOK, PC
    <3> QED BY <1>2, <3>2, <3>3, IdleStep DEF ScanCandidates, CacheInv, TypeOK
  <2>2. CASE Matches(p) # {}
    <3>1. PICK m \in Matches(p) : Serve(p, m) /\ \E S : Backfill(S)
      BY <1>2, <2>2 DEF ScanCandidates
    <3>2. m \in DOMAIN seen[p]
      BY DEF Matches
    <3>3. rows' \in [Keys -> {Absent} \cup Row]
      BY <3>1, BackfillType DEF CacheInv
    <3>4. TypeOK'
      BY <1>2, <3>1, <3>2, <3>3, ServeType DEF ScanCandidates, CacheInv, TypeOK
    <3> QED BY <1>2, <3>1, <3>2, <3>4, ServeType, IdleStep DEF ScanCandidates
  <2> QED BY <2>1, <2>2
<1> QED BY <1>1, <1>2

LEMMA PutStep ==
    ASSUME CacheInv, NEW p \in Procs, Put(p)
    PROVE  CacheInv'
<1>1. ASSUME NEW k \in Keys, StartPut(p, k) PROVE CacheInv'
  <2>1. pc' = [pc EXCEPT ![p] = IF SweepDue(p) THEN "select" ELSE "upsert"]
    BY <1>1 DEF StartPut, Goto
  <2>2. mono + Interval \in Nat /\ sweeps[p] + 1 \in Nat /\ wall - Ttl \in Int
    BY ConstantsAssumption DEF CacheInv, TypeOK
  <2>3. nextSweep' \in [Procs -> Nat] /\ sweeps' \in [Procs -> Nat] /\ cutoff' \in [Procs -> Int]
    BY <1>1, <2>2 DEF StartPut, CacheInv, TypeOK
  <2>4. TypeOK'
    <3>1. pc' \in [Procs -> PC] /\ key' \in [Procs -> Keys]
      BY <1>1, <2>1 DEF StartPut, CacheInv, TypeOK, PC
    <3>2. since' \in [Procs -> Int]
      BY <1>1, ConstantsAssumption DEF StartPut, CacheInv, TypeOK
    <3> QED BY <1>1, <2>3, <3>1, <3>2 DEF StartPut, CacheInv, TypeOK
  <2>5. /\ pc'[p] \in {"select", "upsert"} /\ since'[p] = wall /\ UNCHANGED seen
        /\ \A q \in Procs : q # p => pc'[q] = pc[q] /\ key'[q] = key[q] /\ since'[q] = since[q]
    BY <1>1, <2>1 DEF StartPut, CacheInv, TypeOK
  <2> QED BY <2>4, <2>5 DEF CacheInv, CallInv, TypeOK
<1>2. ASSUME SelectBatch(p) \/ DeleteBatch(p) PROVE CacheInv'
  <2>1. \E label \in {"select", "delete", "upsert"} : pc' = [pc EXCEPT ![p] = label]
    BY <1>2 DEF SelectBatch, DeleteBatch, Goto
  <2>2. batch' \in [Procs -> SUBSET Keys]
    BY <1>2 DEF SelectBatch, DeleteBatch, Expired, Present, CacheInv, TypeOK
  <2>3. rows' \in [Keys -> {Absent} \cup Row]
    BY <1>2 DEF SelectBatch, DeleteBatch, Without, CacheInv, TypeOK
  <2>4. pc[p] \in {"select", "delete"} /\ UNCHANGED <<key, since, seen>>
    BY <1>2 DEF SelectBatch, DeleteBatch
  <2>5. TypeOK'
    BY <1>2, <2>1, <2>2, <2>3 DEF SelectBatch, DeleteBatch, CacheInv, TypeOK, PC
  <2> QED BY <2>1, <2>4, <2>5 DEF CacheInv, CallInv, TypeOK
<1>3. ASSUME Upsert(p) PROVE CacheInv'
  <2>1. [at |-> since[p], shingles |-> "known"] \in Row
    BY <1>3 DEF Upsert, CacheInv, CallInv, Row, Shingles
  <2>2. TypeOK'
    BY <1>3, <2>1 DEF Upsert, Goto, CacheInv, TypeOK, PC
  <2> QED BY <1>3, <2>2, IdleStep DEF Upsert, Goto, CacheInv, TypeOK
<1> QED BY <1>1, <1>2, <1>3 DEF Put, Sweep

LEMMA CacheStep == CacheInv /\ [Next]_vars => CacheInv'
<1> SUFFICES ASSUME CacheInv, [Next]_vars PROVE CacheInv'
  OBVIOUS
<1>1. ASSUME NEW p \in Procs, Get(p) PROVE CacheInv'
  BY <1>1, LookupStep, SelectStep, ServeStep DEF Get
<1>2. ASSUME NEW p \in Procs, Put(p) PROVE CacheInv'
  BY <1>2, PutStep
<1>3. ASSUME NEW p \in Procs, Clear(p) PROVE CacheInv'
  BY <1>3 DEF Clear, CacheInv, TypeOK, CallInv
<1>4. ASSUME NEW p \in Procs, Fail(p) PROVE CacheInv'
  <2>1. TypeOK'
    BY <1>4, NoRowsRead DEF Fail, Goto, CacheInv, TypeOK, PC
  <2> QED BY <1>4, <2>1, IdleStep DEF Fail, Goto, CacheInv, TypeOK
<1>5. ASSUME Tick \/ StepWallClock PROVE CacheInv'
  <2>1. TypeOK'
    BY <1>5, ConstantsAssumption DEF Tick, StepWallClock, CacheInv, TypeOK
  <2> QED BY <1>5, <2>1 DEF Tick, StepWallClock, CacheInv, CallInv
<1>6. CASE UNCHANGED vars
  BY <1>6 DEF vars, CacheInv, TypeOK, CallInv, Reads
<1> QED BY <1>1, <1>2, <1>3, <1>4, <1>5, <1>6 DEF Next

LEMMA CacheAlways == Spec => []CacheInv
BY CacheInit, CacheStep, PTL DEF Spec

(* Every variable of the cache keeps its type, and what a call in progress  *)
(* has read stays fit to answer it.                                         *)
THEOREM CallsAreConsistent == Spec => []CacheInv
BY CacheAlways

-----------------------------------------------------------------------------
(* What a lookup serves.                                                    *)

Served == AnswerIsFresh /\ AnswerFits

\* It is enough that the answer of each process, on its own, is right.
Right(a) ==
    a # Absent =>
        /\ a.row.at >= a.since
        /\ \/ a.from = a.asked
           \/ /\ Provider[a.from] = Provider[a.asked]
              /\ System[a.from] = System[a.asked]
              /\ <<a.asked, a.from>> \in Similar
              /\ a.asked \notin Tokenless

LEMMA ServedByProcess == Served <=> \A p \in Procs : Right(answer[p])
BY DEF Served, AnswerIsFresh, AnswerFits, Answers, Right

LEMMA RightServe ==
    ASSUME CacheInv, Served, NEW p \in Procs, NEW k \in DOMAIN seen[p], Serve(p, k),
           seen[p][k].at >= since[p],
           \/ k = key[p]
           \/ /\ Provider[k] = Provider[key[p]] /\ System[k] = System[key[p]]
              /\ <<key[p], k>> \in Similar /\ key[p] \notin Tokenless
    PROVE  Served'
<1>1. \A q \in Procs : q # p => answer'[q] = answer[q]
  BY DEF Serve, CacheInv, TypeOK
<1>2. answer'[p] = [asked |-> key[p], from |-> k, row |-> seen[p][k], since |-> since[p]]
  BY DEF Serve, CacheInv, TypeOK
<1>3. Right(answer'[p])
  BY <1>2 DEF Right
<1>4. \A q \in Procs : Right(answer'[q])
  BY <1>1, <1>3, ServedByProcess
<1> QED BY <1>4 DEF Served, AnswerIsFresh, AnswerFits, Answers, Right

LEMMA ServedStep == CacheInv /\ Served /\ [Next]_vars => Served'
<1> SUFFICES ASSUME CacheInv, Served, [Next]_vars PROVE Served'
  OBVIOUS
<1>1. ASSUME UNCHANGED answer PROVE Served'
  BY <1>1 DEF Served, AnswerIsFresh, AnswerFits, Answers
<1>2. ASSUME NEW p \in Procs, NEW k \in Keys, LookupExact(p, k) PROVE Served'
  <2>1. answer' = [answer EXCEPT ![p] = Absent]
    BY <1>2 DEF LookupExact
  <2>2. \A q \in Procs : Right(answer'[q])
    BY <2>1, ServedByProcess DEF Right, CacheInv, TypeOK
  <2> QED BY <2>2 DEF Served, AnswerIsFresh, AnswerFits, Answers, Right
<1>3. ASSUME NEW p \in Procs, CountHit(p) PROVE Served'
  <2>1. key[p] \in DOMAIN seen[p] /\ seen[p][key[p]].at >= since[p]
    BY <1>3 DEF CountHit, CacheInv, CallInv
  <2> QED BY <1>3, <2>1, RightServe DEF CountHit
<1>4. ASSUME NEW p \in Procs, ScanCandidates(p) PROVE Served'
  <2>1. CASE Matches(p) = {}
    BY <1>1, <1>4, <2>1 DEF ScanCandidates
  <2>2. CASE Matches(p) # {}
    <3>1. PICK m \in Matches(p) : Serve(p, m)
      BY <1>4, <2>2 DEF ScanCandidates
    <3>2. /\ m \in DOMAIN seen[p] /\ System[m] = System[key[p]] /\ <<key[p], m>> \in Similar
      BY DEF Matches
    <3>3. /\ seen[p][m].at >= since[p] /\ key[p] \notin Tokenless
          /\ Provider[m] = Provider[key[p]]
      BY <1>4, <3>2 DEF ScanCandidates, CacheInv, CallInv
    <3> QED BY <3>1, <3>2, <3>3, RightServe
  <2> QED BY <2>1, <2>2
<1> QED
  BY <1>1, <1>2, <1>3, <1>4
  DEF Next, Get, Put, Sweep, SelectCandidates, StartPut, SelectBatch, DeleteBatch, Upsert,
      Clear, Fail, Tick, StepWallClock, vars

LEMMA ServedAlways == Spec => []Served
<1>1. Init => Served
  BY DEF Init, Served, AnswerIsFresh, AnswerFits, Answers
<1> QED BY <1>1, ServedStep, CacheAlways, PTL DEF Spec

(* No reply is older than the TTL when its lookup begins, however many      *)
(* processes share the table and whatever is done to the wall clock.        *)
THEOREM RepliesAreServed == Spec => []AnswerIsFresh
<1>1. Served => AnswerIsFresh
  BY DEF Served
<1> QED BY <1>1, ServedAlways, PTL

(* Every reply fits its request: it was stored for the same normalised      *)
(* payload, or for a similar one of the same provider and system prompt.    *)
THEOREM RepliesFit == Spec => []AnswerFits
<1>1. Served => AnswerFits
  BY DEF Served
<1> QED BY <1>1, ServedAlways, PTL

-----------------------------------------------------------------------------
(* How often a process sweeps.                                              *)

\* Each sweep moves the gate by an interval at least, from where the monotonic
\* clock was then.
GateInv ==
    \A p \in Procs :
        /\ sweeps[p] * Interval <= nextSweep[p]
        /\ nextSweep[p] <= mono + Interval

LEMMA GateStep == CacheInv /\ GateInv /\ [Next]_vars => GateInv'
<1> SUFFICES ASSUME CacheInv, GateInv, [Next]_vars PROVE GateInv'
  OBVIOUS
<1> USE ConstantsAssumption
<1>1. ASSUME UNCHANGED <<sweeps, nextSweep>>, mono' \in Nat, mono' >= mono PROVE GateInv'
  BY <1>1 DEF GateInv, CacheInv, TypeOK
<1>2. ASSUME NEW p \in Procs, NEW k \in Keys, StartPut(p, k), SweepDue(p) PROVE GateInv'
  <2>1. /\ nextSweep' = [nextSweep EXCEPT ![p] = mono + Interval]
        /\ sweeps' = [sweeps EXCEPT ![p] = @ + 1]
        /\ mono' = mono
    BY <1>2 DEF StartPut
  <2>2. nextSweep[p] <= mono
    BY <1>2 DEF SweepDue, CacheInv, TypeOK
  <2>3. (sweeps[p] + 1) * Interval <= mono + Interval
    <3>1. sweeps[p] \in Nat /\ nextSweep[p] \in Nat /\ mono \in Nat /\ Interval \in Nat
      BY DEF CacheInv, TypeOK
    <3>2. sweeps[p] * Interval <= mono
      BY <2>2, <3>1 DEF GateInv
    <3> QED BY <3>1, <3>2
  <2>4. \A q \in Procs : q # p => nextSweep'[q] = nextSweep[q] /\ sweeps'[q] = sweeps[q]
    BY <2>1 DEF CacheInv, TypeOK
  <2>5. nextSweep'[p] = mono + Interval /\ sweeps'[p] = sweeps[p] + 1
    BY <2>1 DEF CacheInv, TypeOK
  <2>6. sweeps'[p] * Interval <= nextSweep'[p] /\ nextSweep'[p] <= mono' + Interval
    BY <2>1, <2>3, <2>5 DEF CacheInv, TypeOK
  <2>7. ASSUME NEW q \in Procs, q # p
        PROVE  sweeps'[q] * Interval <= nextSweep'[q] /\ nextSweep'[q] <= mono' + Interval
    BY <2>1, <2>4, <2>7 DEF GateInv
  <2> QED BY <2>6, <2>7 DEF GateInv
<1>3. ASSUME NEW p \in Procs, NEW k \in Keys, StartPut(p, k), ~SweepDue(p) PROVE GateInv'
  BY <1>1, <1>3 DEF StartPut, CacheInv, TypeOK
<1>4. ASSUME Tick PROVE GateInv'
  BY <1>1, <1>4 DEF Tick, CacheInv, TypeOK
<1>5. ASSUME UNCHANGED <<mono, sweeps, nextSweep>> PROVE GateInv'
  BY <1>1, <1>5 DEF CacheInv, TypeOK
<1> QED
  BY <1>2, <1>3, <1>4, <1>5
  DEF Next, Get, Put, Sweep, LookupExact, CountHit, SelectCandidates, ScanCandidates,
      SelectBatch, DeleteBatch, Upsert, Clear, Fail, StepWallClock, vars

LEMMA Quotient ==
    ASSUME NEW n \in Nat, NEW d \in Nat, d > 0
    PROVE  n \div d \in Nat /\ n < (n \div d + 1) * d
OBVIOUS

LEMMA GateLimits ==
    ASSUME CacheInv, GateInv, NEW p \in Procs
    PROVE  sweeps[p] <= mono \div Interval + 1
<1> DEFINE q == mono \div Interval
<1> USE ConstantsAssumption
<1>1. sweeps[p] \in Nat /\ mono \in Nat /\ Interval \in Nat /\ Interval > 0
  BY DEF CacheInv, TypeOK
<1>2. q \in Nat /\ mono < (q + 1) * Interval
  BY <1>1, Quotient
<1>3. sweeps[p] * Interval <= mono + Interval
  BY <1>1 DEF GateInv, CacheInv, TypeOK
<1> HIDE DEF q
<1>4. sweeps[p] * Interval < (q + 2) * Interval
  BY <1>1, <1>2, <1>3
<1>5. ASSUME sweeps[p] >= q + 2 PROVE FALSE
  <2>1. sweeps[p] * Interval >= (q + 2) * Interval
    BY <1>1, <1>2, <1>5
  <2> QED BY <1>1, <1>2, <1>4, <2>1
<1> QED BY <1>1, <1>2, <1>5 DEF q

(* A process sweeps at most once per interval of the monotonic clock,       *)
(* whatever is done to the wall clock.                                      *)
THEOREM SweepsAreLimited == Spec => []SweepIsRateLimited
<1>1. Init => GateInv
  BY ConstantsAssumption DEF Init, GateInv
<1>2. CacheInv /\ GateInv => SweepIsRateLimited
  BY GateLimits DEF SweepIsRateLimited
<1> QED BY <1>1, <1>2, GateStep, CacheAlways, PTL DEF Spec
-----------------------------------------------------------------------------
(* What a sweep leaves behind, in a process that has the table to itself:   *)
(* only then does nothing stale reach the table between the last SELECT and *)
(* the end of the sweep.                                                    *)

Alone == \A p, q \in Procs : p = q

\* The batch being deleted is of expired rows, and a short one is all of them.
BatchInv ==
    \A p \in Procs : pc[p] = "delete" =>
        /\ batch[p] \subseteq Expired(p)
        /\ LastBatch(p) => batch[p] = Expired(p)

LEMMA ExpiredFinite ==
    ASSUME IsFiniteSet(Keys), NEW p \in Procs
    PROVE  IsFiniteSet(Expired(p)) /\ Cardinality(Expired(p)) \in Nat
<1>1. Expired(p) \subseteq Keys
  BY DEF Expired, Present
<1>2. IsFiniteSet(Expired(p))
  BY <1>1, FS_Subset
<1> QED BY <1>2, FS_CardinalityType

\* A SELECT that returns fewer rows than its LIMIT has returned them all.
LEMMA ShortBatchIsAll ==
    ASSUME IsFiniteSet(Keys), NEW p \in Procs, NEW B \in SUBSET Expired(p),
           Cardinality(B) = IF Cardinality(Expired(p)) < BatchSize
                            THEN Cardinality(Expired(p)) ELSE BatchSize,
           Cardinality(B) < BatchSize
    PROVE  B = Expired(p)
<1>1. IsFiniteSet(Expired(p)) /\ Cardinality(Expired(p)) \in Nat
  BY ExpiredFinite
<1>2. Cardinality(B) = Cardinality(Expired(p))
  BY ConstantsAssumption
<1> QED BY <1>1, <1>2, FS_Subset

LEMMA BatchStep ==
    ASSUME IsFiniteSet(Keys), Alone, CacheInv, BatchInv, [Next]_vars
    PROVE  BatchInv'
<1>1. ASSUME NEW p \in Procs, pc'[p] # "delete" PROVE BatchInv'
  BY <1>1 DEF Alone, BatchInv
<1>2. ASSUME NEW p \in Procs, SelectBatch(p) PROVE BatchInv'
  <2>1. CASE Expired(p) = {}
    <3>1. pc'[p] # "delete"
      BY <1>2, <2>1 DEF SelectBatch, Goto, CacheInv, TypeOK
    <3> QED BY <1>1, <3>1
  <2>2. CASE Expired(p) # {}
    <3>1. PICK B \in SUBSET Expired(p) :
             /\ Cardinality(B) = IF Cardinality(Expired(p)) < BatchSize
                                 THEN Cardinality(Expired(p)) ELSE BatchSize
             /\ batch' = [batch EXCEPT ![p] = B]
      BY <1>2, <2>2 DEF SelectBatch
    <3>2. batch'[p] = B
      BY <3>1 DEF CacheInv, TypeOK
    <3>3. Expired(p)' = Expired(p)
      BY <1>2 DEF SelectBatch, Expired, Present
    <3>4. Cardinality(B) < BatchSize => B = Expired(p)
      BY <3>1, ShortBatchIsAll
    <3>5. batch'[p] \subseteq Expired(p)' /\ (LastBatch(p)' => batch'[p] = Expired(p)')
      BY <3>2, <3>3, <3>4 DEF LastBatch
    <3> QED BY <3>5 DEF BatchInv, Alone
  <2> QED BY <2>1, <2>2
<1>3. ASSUME NEW p \in Procs, Get(p) \/ Clear(p) PROVE BatchInv'
  <2>1. pc'[p] # "delete"
    BY <1>3 DEF Get, LookupExact, CountHit, SelectCandidates, ScanCandidates, Serve, Clear,
                Goto, CacheInv, TypeOK
  <2> QED BY <1>1, <2>1
<1>4. ASSUME NEW p \in Procs, DeleteBatch(p) \/ Upsert(p) \/ Fail(p) PROVE BatchInv'
  <2>1. pc'[p] # "delete"
    BY <1>4 DEF DeleteBatch, Upsert, Fail, Goto, CacheInv, TypeOK
  <2> QED BY <1>1, <2>1
<1>5. ASSUME NEW p \in Procs, NEW k \in Keys, StartPut(p, k) PROVE BatchInv'
  <2>1. pc'[p] # "delete"
    BY <1>5 DEF StartPut, Goto, CacheInv, TypeOK
  <2> QED BY <1>1, <2>1
<1>6. ASSUME UNCHANGED <<rows, pc, cutoff, batch>> PROVE BatchInv'
  BY <1>6 DEF BatchInv, LastBatch, Expired, Present
<1> QED
  BY <1>2, <1>3, <1>4, <1>5, <1>6 DEF Next, Put, Sweep, Tick, StepWallClock, vars

\* What a step of SweepIsComplete says.
NothingExpiredLeft(p) ==
    pc[p] \in {"select", "delete"} /\ pc'[p] = "upsert" =>
        \A k \in Keys : rows'[k] # Absent => rows'[k].at >= cutoff[p]

LEMMA LeavesNothing ==
    ASSUME Alone, CacheInv, BatchInv, NEW p \in Procs, [Next]_vars
    PROVE  NothingExpiredLeft(p)
<1> SUFFICES ASSUME pc[p] \in {"select", "delete"}, pc'[p] = "upsert",
                    NEW k \in Keys, rows'[k] # Absent
             PROVE  rows'[k].at >= cutoff[p]
  BY DEF NothingExpiredLeft
<1>1. SelectBatch(p) \/ DeleteBatch(p)
  <2>1. ~ (Get(p) \/ Clear(p) \/ Fail(p))
    BY DEF Get, LookupExact, CountHit, SelectCandidates, ScanCandidates, Serve, Clear, Fail,
           Goto, CacheInv, TypeOK
  <2>2. ~ (Upsert(p) \/ \E j \in Keys : StartPut(p, j))
    BY DEF Upsert, StartPut
  <2>3. ~ UNCHANGED pc
    OBVIOUS
  <2> QED BY <2>1, <2>2, <2>3 DEF Alone, Next, Put, Sweep, Tick, StepWallClock, vars
<1>2. rows[k] \in {Absent} \cup Row /\ cutoff[p] \in Int
  BY DEF CacheInv, TypeOK
<1>3. rows[k] # Absent /\ k \notin Expired(p) => rows[k].at >= cutoff[p]
  BY <1>2 DEF Expired, Present, Row
<1>4. CASE SelectBatch(p)
  <2>1. Expired(p) = {} /\ rows' = rows
    BY <1>4 DEF SelectBatch, Goto, CacheInv, TypeOK
  <2> QED BY <1>3, <2>1
<1>5. CASE DeleteBatch(p)
  <2>1. LastBatch(p) /\ rows' = Without(batch[p])
    BY <1>5 DEF DeleteBatch, Goto, CacheInv, TypeOK
  <2>2. batch[p] = Expired(p)
    BY <1>5, <2>1 DEF DeleteBatch, BatchInv
  <2>3. k \notin Expired(p) /\ rows'[k] = rows[k]
    BY <2>1, <2>2 DEF Without
  <2> QED BY <1>3, <2>3
<1> QED BY <1>1, <1>4, <1>5

(* When a sweep of a process alone on the table ends, no row older than its *)
(* cutoff is left, however many batches it took and whatever was done to    *)
(* the wall clock meanwhile.                                                *)
THEOREM SweepsAreComplete ==
    ASSUME IsFiniteSet(Keys), Alone
    PROVE  Spec => SweepIsComplete
<1>1. Init => BatchInv
  BY DEF Init, BatchInv
<1>2. CacheInv /\ BatchInv /\ [Next]_vars => BatchInv'
  BY BatchStep
<1>3. CacheInv /\ BatchInv /\ [Next]_vars =>
         [\A p \in Procs :
            pc[p] \in {"select", "delete"} /\ pc'[p] = "upsert" =>
                \A k \in Keys : rows'[k] # Absent => rows'[k].at >= cutoff[p]]_vars
  BY LeavesNothing DEF NothingExpiredLeft
<1> QED BY <1>1, <1>2, <1>3, CacheAlways, PTL DEF Spec, SweepIsComplete
=============================================================================
