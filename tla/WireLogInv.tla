----------------------------- MODULE WireLogInv -----------------------------
(***************************************************************************)
(* The inductive invariants of WireLog: what the steps of dumps and of the *)
(* worker keep between them, from which its safety properties follow.      *)
(***************************************************************************)
EXTENDS WireLog

Dumping == {"submit", "register", "hook"}

\* A caller inside a dump has a record, and the worker has one unless it is idle.
Holding ==
    /\ \A c \in Callers : pc[c] \in Dumping => arg[c] \in Records
    /\ wpc # "idle" => cur \in Records

\* A record is queued at most once, and its future tells where it is.
QueueInv ==
    /\ \A i \in DOMAIN queue : future[queue[i]] = "queued"
    /\ \A i, j \in DOMAIN queue : queue[i] = queue[j] => i = j
    /\ wpc \in {"opening", "replacing", "appending", "finishing"} => future[cur] = "running"
    /\ wpc = "calling" => future[cur] = "done"

\* Who dumps what: one caller per record, and what it knows of the future.
DumpInv ==
    /\ \A c \in Callers : arg[c] \in Records => pc[c] \in Dumping
    /\ \A c, d \in Callers : arg[c] = arg[d] /\ arg[c] \in Records => c = d
    /\ \A c \in Callers : pc[c] = "submit" => future[arg[c]] = "claimed"
    /\ \A c \in Callers : pc[c] \in {"register", "hook"} =>
          future[arg[c]] \in {"queued", "running", "done"}
    /\ \A c \in Callers : pc[c] = "hook" => arg[c] \in pending \cup Done

\* A record whose dump has returned is in the pending set with its callback
\* registered until it is done; once done, only the callback keeps it there.
TrackInv ==
    /\ \A r \in Records :
          future[r] \in {"queued", "running"} /\ ~InDump(r) => r \in pending \cap hooked
    /\ PendingDoesNotLeak

\* The line of a record is appended after its turn file was published.
LineInv ==
    /\ LineHasTurnFile
    /\ wpc = "appending" => cur \in turnFile

\* One caller at most joins the worker, and it holds the lock.
LockInv ==
    /\ \A c \in Callers : lock = c <=> pc[c] = "joining"
    /\ lock # NoOne <=> executor = "shut"

(* The futures, the queue, the dumping callers, the pending set, the files  *)
(* and the lock agree at every step: no step of another thread comes        *)
(* between two of a call and leaves a record untracked, a line without its  *)
(* file or a second caller joining the worker (wire_log.py:86-173).         *)
LogInv == TypeOK /\ Holding /\ QueueInv /\ DumpInv /\ TrackInv /\ LineInv /\ LockInv
=============================================================================
