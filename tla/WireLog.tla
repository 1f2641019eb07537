------------------------------ MODULE WireLog ------------------------------
(***************************************************************************)
(* The background wire log of the proxy (proxy/wire_log.py): callers hand  *)
(* a record to a one-thread executor; the worker writes a turn file        *)
(* through a temporary file and os.replace, then appends the record's line *)
(* to transactions.jsonl; flush and shutdown wait for what is pending.     *)
(*                                                                         *)
(* A step is what a thread does between two points where another thread    *)
(* can run.  The three short critical sections of _wire_log_lock (get the  *)
(* executor, add to and discard from the pending set) are one step each,   *)
(* guarded by the lock being free; only shutdown holds it across steps.    *)
(* Every record has a flow id of its own, so a turn file of its own.       *)
(***************************************************************************)
EXTENDS Naturals, Sequences, Filter

CONSTANTS
    Callers,      \* threads that call the module; the mitmproxy event loop in production
    Records,      \* the wire records that may be dumped, one per flow
    NoOne,        \* neither a caller nor a record
    MaxCrashes    \* bound on process kills

ASSUME ConstantsAssumption ==
    /\ NoOne \notin Callers \cup Records
    /\ MaxCrashes \in Nat

VARIABLES
    lock,         \* _wire_log_lock: the caller that holds it across steps, or NoOne
    executor,     \* _wire_log_executor: "none", "open" or "shut"
    gen,          \* how many executors this process history has created
    queue,        \* the executor's work queue
    pending,      \* _pending_wire_log_futures
    future,       \* how far each record's future is
    hooked,       \* records whose future has _discard_pending_future registered
    pc,           \* where each caller is
    arg,          \* the record a caller is dumping
    handle,       \* the executor generation a dumping caller obtained
    snapshot,     \* the futures a flushing caller waits for
    wpc,          \* where the worker thread is
    cur,          \* the record the worker is writing
    tmp,          \* records with a temporary file on disk
    turnFile,     \* records with a complete turn_<id>.json
    jsonl,        \* the writes to transactions.jsonl, whole lines or torn prefixes
    crashes

callerVars == <<pc, arg, handle, snapshot>>
poolVars   == <<lock, executor, gen, queue>>
disk       == <<tmp, turnFile, jsonl>>
vars == <<poolVars, pending, future, hooked, callerVars, wpc, cur, disk, crashes>>

CallerPC == {"idle", "submit", "register", "hook", "flushing", "draining", "closing", "joining"}
WorkerPC == {"idle", "opening", "replacing", "appending", "finishing", "calling"}
FutureState == {"none", "claimed", "queued", "running", "done", "rejected", "lost"}
Line == [rec : Records, whole : BOOLEAN]

Done == {r \in Records : future[r] = "done"}

Init ==
    /\ lock = NoOne
    /\ executor = "none"
    /\ gen = 0
    /\ queue = <<>>
    /\ pending = {}
    /\ future = [r \in Records |-> "none"]
    /\ hooked = {}
    /\ pc = [c \in Callers |-> "idle"]
    /\ arg = [c \in Callers |-> NoOne]
    /\ handle = [c \in Callers |-> 0]
    /\ snapshot = [c \in Callers |-> {}]
    /\ wpc = "idle"
    /\ cur = NoOne
    /\ tmp = {}
    /\ turnFile = {}
    /\ jsonl = <<>>
    /\ crashes = 0

-----------------------------------------------------------------------------
(* What the steps share.  Each of the operators that say Mutant is the one  *)
(* after it with a mistake; the project's runs must notice.                 *)

MutantLockFree == TRUE
LockFree == lock = NoOne

\* The pending set with a future added, and without it.
MutantTracked(r) == pending
Tracked(r) == pending \cup {r}

MutantUntracked(r) == pending
Untracked(r) == pending \ {r}

\* The executor's queue is first in, first out.
MutantEnqueued(r) == <<r>> \o queue
Enqueued(r) == Append(queue, r)

MutantHasWork == queue # <<>> /\ executor = "open"
HasWork == queue # <<>>

\* A failed file operation ends the write: the exception handler swallows it.
MutantAfterFailure == IF wpc = "appending" THEN "finishing" ELSE "appending"
MutantRetryAlways == wpc
AfterFailure == "finishing"

-----------------------------------------------------------------------------
(* dump_wire_transaction                                                   *)

\* Fetch the executor under the lock, creating one if there is none or it was shut.
GetExecutor(c, r) ==
    /\ pc[c] = "idle"
    /\ future[r] = "none"
    /\ LockFree
    /\ IF executor = "open"
         THEN UNCHANGED <<executor, gen>>
         ELSE executor' = "open" /\ gen' = gen + 1
    /\ handle' = [handle EXCEPT ![c] = gen']
    /\ arg' = [arg EXCEPT ![c] = r]
    /\ future' = [future EXCEPT ![r] = "claimed"]
    /\ pc' = [pc EXCEPT ![c] = "submit"]
    /\ UNCHANGED <<lock, queue, pending, hooked, snapshot, wpc, cur, disk, crashes>>

\* submit() outside the lock.  An executor that was shut meanwhile raises
\* RuntimeError, which _dump_flow_transaction swallows.
Submit(c) ==
    /\ pc[c] = "submit"
    /\ IF executor = "open" /\ handle[c] = gen
         THEN /\ queue' = Enqueued(arg[c])
              /\ future' = [future EXCEPT ![arg[c]] = "queued"]
              /\ pc' = [pc EXCEPT ![c] = "register"]
              /\ UNCHANGED arg
         ELSE /\ future' = [future EXCEPT ![arg[c]] = "rejected"]
              /\ pc' = [pc EXCEPT ![c] = "idle"]
              /\ arg' = [arg EXCEPT ![c] = NoOne]
              /\ UNCHANGED queue
    /\ UNCHANGED <<lock, executor, gen, pending, hooked, handle, snapshot, wpc, cur, disk, crashes>>

Register(c) ==
    /\ pc[c] = "register"
    /\ LockFree
    /\ pending' = Tracked(arg[c])
    /\ pc' = [pc EXCEPT ![c] = "hook"]
    /\ UNCHANGED <<poolVars, future, hooked, arg, handle, snapshot, wpc, cur, disk, crashes>>

\* add_done_callback: a future that is done already runs the callback here, in
\* the caller, and the callback takes the lock.
Hook(c) ==
    /\ pc[c] = "hook"
    /\ IF arg[c] \in Done
         THEN /\ LockFree
              /\ pending' = Untracked(arg[c])
              /\ UNCHANGED hooked
         ELSE /\ hooked' = hooked \cup {arg[c]}
              /\ UNCHANGED pending
    /\ pc' = [pc EXCEPT ![c] = "idle"]
    /\ arg' = [arg EXCEPT ![c] = NoOne]
    /\ UNCHANGED <<poolVars, future, handle, snapshot, wpc, cur, disk, crashes>>

-----------------------------------------------------------------------------
(* flush_wire_logs and shutdown_wire_logs                                  *)

\* Copy the pending set under the lock.  `next' says whether shutdown called it.
Flush(c, next) ==
    /\ pc[c] = "idle"
    /\ LockFree
    /\ snapshot' = [snapshot EXCEPT ![c] = pending]
    /\ pc' = [pc EXCEPT ![c] = next]
    /\ UNCHANGED <<poolVars, pending, future, hooked, arg, handle, wpc, cur, disk, crashes>>

AfterFlush(c) == IF pc[c] = "draining" THEN "closing" ELSE "idle"

\* wait() returned because every future of the snapshot is done.
FlushReturns(c) ==
    /\ pc[c] \in {"flushing", "draining"}
    /\ snapshot[c] \subseteq Done
    /\ pc' = [pc EXCEPT ![c] = AfterFlush(c)]
    /\ snapshot' = [snapshot EXCEPT ![c] = {}]
    /\ UNCHANGED <<poolVars, pending, future, hooked, arg, handle, wpc, cur, disk, crashes>>

\* The timeout expired first; the caller goes on just the same.
FlushTimesOut(c) ==
    /\ pc[c] \in {"flushing", "draining"}
    /\ ~(snapshot[c] \subseteq Done)
    /\ pc' = [pc EXCEPT ![c] = AfterFlush(c)]
    /\ snapshot' = [snapshot EXCEPT ![c] = {}]
    /\ UNCHANGED <<poolVars, pending, future, hooked, arg, handle, wpc, cur, disk, crashes>>

\* Take the lock; an executor that is still open is told to shut down and the
\* lock stays held while its worker thread is joined.
Close(c) ==
    /\ pc[c] = "closing"
    /\ LockFree
    /\ IF executor = "open"
         THEN /\ lock' = c
              /\ executor' = "shut"
              /\ pc' = [pc EXCEPT ![c] = "joining"]
         ELSE /\ pc' = [pc EXCEPT ![c] = "idle"]
              /\ UNCHANGED <<lock, executor>>
    /\ UNCHANGED <<gen, queue, pending, future, hooked, arg, handle, snapshot, wpc, cur, disk, crashes>>

\* The worker exits once it is idle with an empty queue; only then does the join return.
Join(c) ==
    /\ pc[c] = "joining"
    /\ wpc = "idle"
    /\ queue = <<>>
    /\ executor' = "none"
    /\ lock' = NoOne
    /\ pc' = [pc EXCEPT ![c] = "idle"]
    /\ UNCHANGED <<gen, queue, pending, future, hooked, arg, handle, snapshot, wpc, cur, disk, crashes>>

-----------------------------------------------------------------------------
(* The worker thread: _write_transaction_sync and the future's completion  *)

TakeWork ==
    /\ wpc = "idle"
    /\ HasWork
    /\ cur' = Head(queue)
    /\ queue' = Tail(queue)
    /\ future' = [future EXCEPT ![Head(queue)] = "running"]
    /\ wpc' = "opening"
    /\ UNCHANGED <<lock, executor, gen, pending, hooked, callerVars, disk, crashes>>

\* makedirs, create and fill the temporary file.
WriteTmp ==
    /\ wpc = "opening"
    /\ wpc' = "replacing"
    /\ tmp' = tmp \cup {cur}
    /\ UNCHANGED <<poolVars, pending, future, hooked, callerVars, cur, turnFile, jsonl, crashes>>

\* os.replace onto the final name.
Publish ==
    /\ wpc = "replacing"
    /\ wpc' = "appending"
    /\ tmp' = tmp \ {cur}
    /\ turnFile' = turnFile \cup {cur}
    /\ UNCHANGED <<poolVars, pending, future, hooked, callerVars, cur, jsonl, crashes>>

AppendLine ==
    /\ wpc = "appending"
    /\ wpc' = "finishing"
    /\ jsonl' = Append(jsonl, [rec |-> cur, whole |-> TRUE])
    /\ UNCHANGED <<poolVars, pending, future, hooked, callerVars, cur, tmp, turnFile, crashes>>

\* Any of the three file operations raises: logged and swallowed.  The temporary
\* file is unlinked if it can be; a failed append may leave a prefix of the line.
WriteFails ==
    /\ wpc \in {"opening", "replacing", "appending"}
    /\ wpc' = AfterFailure
    /\ \/ wpc = "appending" /\ UNCHANGED <<tmp, jsonl>>
       \/ wpc = "appending" /\ UNCHANGED tmp
          /\ jsonl' = Append(jsonl, [rec |-> cur, whole |-> FALSE])
       \/ wpc # "appending" /\ UNCHANGED jsonl /\ tmp' \in {tmp \ {cur}, tmp \cup {cur}}
    /\ UNCHANGED <<poolVars, pending, future, hooked, callerVars, cur, turnFile, crashes>>

\* set_result wakes the waiters before it runs the callbacks.
SetResult ==
    /\ wpc = "finishing"
    /\ future' = [future EXCEPT ![cur] = "done"]
    /\ IF cur \in hooked
         THEN wpc' = "calling" /\ UNCHANGED cur
         ELSE wpc' = "idle" /\ cur' = NoOne
    /\ UNCHANGED <<poolVars, pending, hooked, callerVars, disk, crashes>>

\* _discard_pending_future in the worker thread.
DiscardPending ==
    /\ wpc = "calling"
    /\ LockFree
    /\ pending' = Untracked(cur)
    /\ wpc' = "idle"
    /\ cur' = NoOne
    /\ UNCHANGED <<poolVars, future, hooked, callerVars, disk, crashes>>

-----------------------------------------------------------------------------
(* The process is killed; what it had accepted and not written is gone, a   *)
(* line being appended may be torn.  A new process starts with empty state. *)
Unfinished == {"claimed", "queued", "running"}

Crash ==
    /\ crashes < MaxCrashes
    /\ crashes' = crashes + 1
    /\ lock' = NoOne
    /\ executor' = "none"
    /\ queue' = <<>>
    /\ pending' = {}
    /\ future' = [r \in Records |-> IF future[r] \in Unfinished THEN "lost" ELSE future[r]]
    /\ hooked' = {}
    /\ pc' = [c \in Callers |-> "idle"]
    /\ arg' = [c \in Callers |-> NoOne]
    /\ snapshot' = [c \in Callers |-> {}]
    /\ wpc' = "idle"
    /\ cur' = NoOne
    /\ \/ UNCHANGED jsonl
       \/ wpc = "appending" /\ jsonl' = Append(jsonl, [rec |-> cur, whole |-> FALSE])
    /\ UNCHANGED <<gen, handle, tmp, turnFile>>

-----------------------------------------------------------------------------
\* What a caller does once inside a call, on which the code's progress rests.
Proceed(c) ==
    \/ Submit(c)
    \/ Register(c)
    \/ Hook(c)
    \/ FlushReturns(c)
    \/ FlushTimesOut(c)
    \/ Close(c)
    \/ Join(c)

Write == WriteTmp \/ Publish \/ AppendLine \/ WriteFails

Worker == TakeWork \/ Write \/ SetResult \/ DiscardPending

Call(c) ==
    \/ \E r \in Records : GetExecutor(c, r)
    \/ \E next \in {"flushing", "draining"} : Flush(c, next)

Next ==
    \/ \E c \in Callers : Call(c) \/ Proceed(c)
    \/ Worker
    \/ Crash

Spec == Init /\ [][Next]_vars

\* Threads are scheduled: a caller inside a call and the worker with work make
\* progress.  Nothing obliges a caller to start a call, nor the process to die.
Fairness == WF_vars(Worker) /\ \A c \in Callers : WF_vars(Proceed(c))

FairSpec == Spec /\ Fairness

-----------------------------------------------------------------------------
TypeOK ==
    /\ lock \in Callers \cup {NoOne}
    /\ executor \in {"none", "open", "shut"}
    /\ gen \in Nat
    /\ queue \in Seq(Records)
    /\ pending \subseteq Records
    /\ future \in [Records -> FutureState]
    /\ hooked \subseteq Records
    /\ pc \in [Callers -> CallerPC]
    /\ arg \in [Callers -> Records \cup {NoOne}]
    /\ handle \in [Callers -> Nat]
    /\ snapshot \in [Callers -> SUBSET Records]
    /\ wpc \in WorkerPC
    /\ cur \in Records \cup {NoOne}
    /\ tmp \subseteq Records
    /\ turnFile \subseteq Records
    /\ jsonl \in Seq(Line)
    /\ crashes \in 0..MaxCrashes

InDump(r) == \E c \in Callers : arg[c] = r

(* A record whose dump call has returned is in the pending set until its    *)
(* write is over, so a flush that starts now waits for it: submit, add and  *)
(* add_done_callback leave no gap (wire_log.py:143-147).                    *)
FlushCoversDumped ==
    \A r \in Records :
        future[r] \in {"queued", "running"} /\ ~InDump(r) => r \in pending

(* The pending set does not leak: a future that is done stays in it only    *)
(* while its discard is still to run, in the worker or in the dumping       *)
(* caller that found it done already (wire_log.py:144-152).                 *)
PendingDoesNotLeak ==
    \A r \in pending \cap Done : InDump(r) \/ (wpc = "calling" /\ cur = r)

(* transactions.jsonl never names a transaction whose turn file is missing, *)
(* whatever failed or was killed in between (wire_log.py:108-128).          *)
LineHasTurnFile == \A i \in DOMAIN jsonl : jsonl[i].rec \in turnFile

(* Every record handed to dump_wire_transaction is written, refused or lost *)
(* to a crash; none waits for ever, but for a shutdown that joins the       *)
(* worker (wire_log.py:96-173).                                             *)
EveryDumpSettles ==
    \A r \in Records :
        future[r] = "claimed" ~> \/ future[r] \in {"done", "rejected", "lost"}
                                 \/ \E c \in Callers : pc[c] = "joining"

(* A shutdown that joins the worker returns unless the worker is in the     *)
(* done-callback of its last write (wire_log.py:163-173 and 150-152).       *)
ShutdownReturnsOrCallback ==
    \A c \in Callers : pc[c] = "joining" ~> (pc[c] = "idle" \/ wpc = "calling")

(* "Blocks until pending wire log writes finish and cleanly shuts down the  *)
(* ThreadPoolExecutor." (wire_log.py:164)                                   *)
ShutdownReturns ==
    \A c \in Callers : pc[c] = "joining" ~> pc[c] # "joining"

-----------------------------------------------------------------------------
(* Refinement: the log is a journal that settles records in the order they *)
(* were accepted.                                                          *)
\* Accepted, and the worker has not ended its write; its whole line is in the file.
Awaited(r) == future[r] \in {"queued", "running"} /\ ~(cur = r /\ wpc = "finishing")
Written(r) == \E i \in DOMAIN jsonl : jsonl[i] = [rec |-> r, whole |-> TRUE]

JournalState == [r \in Records |->
    IF future[r] \in {"none", "claimed"} THEN "new"
    ELSE IF Awaited(r) THEN "waiting"
    ELSE IF Written(r) THEN "written" ELSE "dropped"]

Waiting == (IF wpc \in {"opening", "replacing", "appending"} THEN <<cur>> ELSE <<>>) \o queue

WholeLines == Keep(jsonl, [rec : Records, whole : {TRUE}])

Journal == INSTANCE WireJournal WITH
    state <- JournalState,
    waiting <- Waiting,
    journal <- [i \in DOMAIN WholeLines |-> WholeLines[i].rec]

JournalSpec == Journal!Spec
=============================================================================
